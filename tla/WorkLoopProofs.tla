--------------------------- MODULE WorkLoopProofs ----------------------------
(***************************************************************************)
(* The worker loop reaches the claim ledger only through its operations,   *)
(* so what is proved of the ledger under any callers holds under workers.  *)
(*                                                                         *)
(* The invariant: a unit in hand is held, as everybody sees it, until it   *)
(* has lapsed.  Two workers cannot both hold one unit, so whoever has it   *)
(* second has it after somebody's lapse, and a unit that nobody else has   *)
(* in hand stays at the station it was claimed for.                        *)
(***************************************************************************)
EXTENDS WorkLoop, ClaimLedgerProofs

\* Units in hand and on offer are units; the idle unit is none.
HandTypes ==
  /\ unit \in [Procs -> Units \cup {NoUnit}]
  /\ offers \in [Procs -> SUBSET (Units \X Kinds)]
  /\ \A p \in Procs : pc[p] \in {"claiming", "dispatching"} => unit[p] \in Units
  /\ pc \in [Procs -> {"idle", "choosing", "claiming", "dispatching", "skipping",
                       "releasing", "drained"}]

\* Every process starts with empty hands.
LEMMA InitHands == Init => HandTypes
BY DEF Init, HandTypes

\* No step of a worker puts anything but a unit into its hands.
LEMMA StepHands ==
  ASSUME HandTypes, NEW p \in Procs, Step(p)
  PROVE  HandTypes'
<1>1. CASE Snapshot(p)
  BY <1>1 DEF Snapshot, HandTypes, GoTo, Offers
<1>2. CASE Drain(p)
  BY <1>2 DEF Drain, HandTypes, GoTo
<1>3. CASE AskClaim(p)
  <2>1. PICK o \in offers[p] :
          /\ offers' = [offers EXCEPT ![p] = @ \ {o}]
          /\ unit' = [unit EXCEPT ![p] = o[1]]
    BY <1>3 DEF AskClaim
  <2>2. o[1] \in Units
    BY <2>1 DEF HandTypes
  <2>3. QED
    BY <1>3, <2>1, <2>2 DEF AskClaim, HandTypes, GoTo
<1>4. CASE NotGranted(p)
  BY <1>4 DEF NotGranted, Claimed, HandTypes, GoTo
<1>5. CASE Recheck(p)
  BY <1>5 DEF Recheck, Claimed, HandTypes, GoTo
<1>6. CASE EndDispatch(p)
  BY <1>6 DEF EndDispatch, HandTypes, GoTo
<1>7. CASE Released(p)
  BY <1>7 DEF Released, HandTypes, GoTo
<1>8. CASE AskLedger(p)
  BY <1>8 DEF AskLedger, workVars, HandTypes
<1>9. QED
  BY <1>1, <1>2, <1>3, <1>4, <1>5, <1>6, <1>7, <1>8 DEF Step

\* Nor does anything else that happens.
LEMMA NextHands == HandTypes /\ [Next]_vars => HandTypes'
<1>1. ASSUME HandTypes, NEW p \in Procs, Kill(p)
      PROVE  HandTypes'
  BY <1>1 DEF Kill, HandTypes, GoTo
<1>2. ASSUME HandTypes, NEW p \in Procs, Restart(p)
      PROVE  HandTypes'
  BY <1>2 DEF Restart, HandTypes, GoTo
<1>3. ASSUME HandTypes, Tick
      PROVE  HandTypes'
  BY <1>3 DEF Tick, HandTypes
<1>4. ASSUME HandTypes, UNCHANGED vars
      PROVE  HandTypes'
  BY <1>4 DEF vars, workVars, HandTypes
<1>5. QED
  BY <1>1, <1>2, <1>3, <1>4, StepHands DEF Next

\* A step of the loop is a step of the ledger, or leaves it alone.
LEMMA StepUsesLedger ==
  ASSUME HandTypes, NEW p \in Procs, Step(p)
  PROVE  [LedgerNext]_ledgerVars
<1>1. ASSUME NEW op \in Ops, NEW u \in Units, Call(p, op, u)
      PROVE  LedgerNext
  BY <1>1 DEF LedgerNext
<1>2. "claim" \in Ops /\ "release" \in Ops
  BY DEF Ops
<1>3. CASE AskClaim(p)
  <2>1. PICK o \in offers[p] : Call(p, "claim", o[1])
    BY <1>3 DEF AskClaim
  <2>2. o[1] \in Units
    BY <2>1 DEF HandTypes
  <2>3. QED
    BY <1>1, <1>2, <2>1, <2>2
<1>4. CASE Recheck(p)
  BY <1>1, <1>2, <1>4 DEF Recheck, Claimed, HandTypes
<1>5. CASE EndDispatch(p)
  BY <1>1, <1>2, <1>5 DEF EndDispatch, HandTypes
<1>6. CASE AskLedger(p)
  BY <1>6 DEF AskLedger, LedgerNext
<1>7. CASE Snapshot(p) \/ Drain(p) \/ NotGranted(p) \/ Released(p)
  BY <1>7 DEF Snapshot, Drain, NotGranted, Released
<1>8. QED
  BY <1>3, <1>4, <1>5, <1>6, <1>7 DEF Step

\* So is every step of the fleet.
LEMMA LoopStepIsLedgerStep == HandTypes /\ [Next]_vars => [LedgerNext]_ledgerVars
<1>1. ASSUME NEW p \in Procs, Kill(p)
      PROVE  LedgerNext
  BY <1>1 DEF Kill, LedgerNext
<1>2. ASSUME NEW p \in Procs, Restart(p)
      PROVE  UNCHANGED ledgerVars
  BY <1>2 DEF Restart
<1>3. ASSUME Tick
      PROVE  LedgerNext
  BY <1>3 DEF Tick, LedgerNext
<1>4. ASSUME UNCHANGED vars
      PROVE  UNCHANGED ledgerVars
  BY <1>4 DEF vars
<1>5. QED
  BY <1>1, <1>2, <1>3, <1>4, StepUsesLedger DEF Next

\* work.py changes claims only through claim, release and being killed: the loop is one of
\* the ledger's callers.
THEOREM LoopUsesLedger == Spec => LedgerSpec
<1>1. Init => LedgerInit
  BY DEF Init
<1>2. QED
  BY <1>1, InitHands, NextHands, LoopStepIsLedgerStep, PTL DEF Spec, LedgerSpec

\* However many workers race for units, restart or are killed, no live claim changes hands.
THEOREM WorkersStealNothing == Spec => LiveClaimIsNeverStolen
<1>1. QED
  BY LoopUsesLedger, NoLiveClaimStolen, PTL

-----------------------------------------------------------------------------
(* Types.                                                                  *)

\* The loop's own state.
LoopTypes ==
  /\ HandTypes
  /\ status \in [Units -> {"ready", "review", "shipped"}]
  /\ kind \in [Procs -> Kinds]
  /\ failed \in [Procs -> SUBSET (Units \X Kinds)]
  /\ lapsed \in [Procs -> BOOLEAN]
  /\ overrun \in BOOLEAN
  /\ kills \in 0..MaxKills

\* A fresh fleet is well typed.
LEMMA InitLoopTypes == Init => LoopTypes
<1> SUFFICES ASSUME Init PROVE LoopTypes
  OBVIOUS
<1>1. lapsed \in [Procs -> BOOLEAN] /\ overrun \in BOOLEAN
  BY DEF Init
<1>2. kills \in 0..MaxKills
  BY WorkLoopAssumption DEF Init
<1>3. QED
  BY <1>1, <1>2, InitHands DEF Init, LoopTypes, Kinds

\* A worker's step keeps the types.
LEMMA StepTypes ==
  ASSUME LoopTypes, NEW p \in Procs, Step(p)
  PROVE  LoopTypes'
<1>1. HandTypes'
  BY StepHands DEF LoopTypes
<1>2. CASE Snapshot(p) \/ Drain(p) \/ AskLedger(p)
  BY <1>1, <1>2 DEF Snapshot, Drain, AskLedger, workVars, LoopTypes
<1>3. CASE AskClaim(p)
  <2>1. PICK o \in offers[p] : kind' = [kind EXCEPT ![p] = o[2]]
    BY <1>3 DEF AskClaim
  <2>2. o[2] \in Kinds
    BY <2>1 DEF LoopTypes, HandTypes
  <2>3. QED
    BY <1>1, <1>3, <2>1, <2>2 DEF AskClaim, LoopTypes
<1>4. CASE NotGranted(p) \/ Released(p)
  BY <1>1, <1>4 DEF NotGranted, Released, LoopTypes, Kinds
<1>5. CASE Recheck(p)
  BY <1>1, <1>5 DEF Recheck, LoopTypes
<1>6. CASE EndDispatch(p)
  <2>1. <<unit[p], kind[p]>> \in Units \X Kinds
    BY <1>6 DEF EndDispatch, LoopTypes, HandTypes
  <2>2. [failed EXCEPT ![p] = @ \cup {<<unit[p], kind[p]>>}] \in [Procs -> SUBSET (Units \X Kinds)]
    BY <2>1 DEF LoopTypes
  <2>3. Outcome(kind[p]) \subseteq {"ready", "review", "shipped"}
    BY DEF Outcome
  <2>4. status' \in [Units -> {"ready", "review", "shipped"}]
    BY <1>6, <2>3 DEF EndDispatch, LoopTypes
  <2>5. failed' \in [Procs -> SUBSET (Units \X Kinds)]
    BY <1>6, <2>2 DEF EndDispatch, LoopTypes
  <2>6. QED
    BY <1>1, <1>6, <2>4, <2>5 DEF EndDispatch, LoopTypes
<1>7. QED
  BY <1>2, <1>3, <1>4, <1>5, <1>6 DEF Step

\* So does everything else.
LEMMA NextTypes == LoopTypes /\ [Next]_vars => LoopTypes'
<1>1. ASSUME LoopTypes, [Next]_vars
      PROVE  HandTypes'
  BY <1>1, NextHands DEF LoopTypes
<1>2. ASSUME LoopTypes, [Next]_vars, NEW p \in Procs, Kill(p)
      PROVE  LoopTypes'
  <2>1. kills' \in 0..MaxKills
    BY <1>2, WorkLoopAssumption DEF Kill, LoopTypes
  <2>2. QED
    BY <1>1, <1>2, <2>1 DEF Kill, LoopTypes, Kinds
<1>3. ASSUME LoopTypes, [Next]_vars, NEW p \in Procs, Restart(p)
      PROVE  LoopTypes'
  BY <1>1, <1>3 DEF Restart, LoopTypes
<1>4. ASSUME LoopTypes, [Next]_vars, Tick
      PROVE  LoopTypes'
  <2>1. lapsed' \in [Procs -> BOOLEAN] /\ overrun' \in BOOLEAN
    BY <1>4 DEF Tick, LoopTypes
  <2>2. QED
    BY <1>1, <1>4, <2>1 DEF Tick, LoopTypes
<1>5. ASSUME LoopTypes, UNCHANGED vars
      PROVE  LoopTypes'
  BY <1>5 DEF vars, workVars, LoopTypes, HandTypes
<1>6. QED
  BY <1>2, <1>3, <1>4, <1>5, StepTypes DEF Next

\* Type correctness of the worker loop (WorkLoop of work.py): every worker is at a step of
\* its loop, with units in its hands and a well-typed ledger behind it.
THEOREM LoopTypeCorrect == Spec => []TypeOK
<1>1. LoopTypes /\ LedgerTypeOK => TypeOK
  BY DEF LoopTypes, HandTypes, TypeOK
<1>2. Spec => []LedgerTypeOK
  BY LoopUsesLedger, LedgerTypeCorrect, PTL
<1>3. QED
  BY <1>1, <1>2, InitLoopTypes, NextTypes, PTL DEF Spec

-----------------------------------------------------------------------------
(* Who has a unit in hand.                                                 *)

\* A worker's call is about the unit in its hands, and a unit in hand is held until it lapses.
HandOK(p) ==
  /\ (pc[p] = "claiming" /\ call[p].step # "idle") => call[p].op = "claim" /\ UnitOf(p) = unit[p]
  /\ Dispatching(p) => call[p].step = "idle"
  /\ InHand(p) /\ ~lapsed[p] => Held(Me(p), unit[p])
  /\ lapsed[p] => overrun

\* And while nothing has lapsed, what is dispatched is at the station it was claimed for.
HandInv ==
  /\ LoopTypes
  /\ LedgerInv
  /\ \A p \in Procs : HandOK(p)
  /\ WorkIsCurrent

\* Nobody has anything in hand at first.
LEMMA InitHand == Init => HandInv
<1> SUFFICES ASSUME Init PROVE HandInv
  OBVIOUS
<1>1. LoopTypes /\ LedgerInv
  BY InitLoopTypes, InitLedgerInv DEF Init
<1>2. \A p \in Procs : pc[p] = "idle" /\ ~lapsed[p]
  BY DEF Init
<1>3. QED
  BY <1>1, <1>2 DEF HandInv, HandOK, Dispatching, InHand, Claimed, WorkIsCurrent

\* A worker with a unit in hand calls nothing, so its claim is not released under it.
LEMMA HandsAreStill ==
  ASSUME HandInv, NEW p \in Procs, InHand(p), NEW q \in Procs, Me(q) = Me(p)
  PROVE  q = p /\ call[q].step = "idle"
<1>1. q = p
  BY WorkLoopAssumption DEF Me
<1>2. QED
  BY <1>1 DEF HandInv, HandOK, InHand, Claimed

\* Two workers with one unit in hand cannot both hold it.
LEMMA OneHolder ==
  ASSUME HandInv, NEW p \in Procs, NEW q \in Procs, p # q, InHand(p), InHand(q),
         unit[p] = unit[q]
  PROVE  lapsed[p] \/ lapsed[q]
BY WorkLoopAssumption DEF HandInv, HandOK, Held, Me

\* A step that is not in the ledger leaves a worker it does not move as it was.
LEMMA Unmoved ==
  ASSUME HandInv, NEW p \in Procs, ledger' = ledger, call'[p] = call[p], pc'[p] = pc[p],
         unit'[p] = unit[p], lapsed'[p] = lapsed[p], overrun' = overrun
  PROVE  HandOK(p)'
<1>1. Held(Me(p), unit[p]) => Held(Me(p), unit[p])'
  BY DEF Held, Liveness, AgeSeenBy, Me
<1>2. QED
  BY <1>1 DEF HandInv, HandOK, Dispatching, InHand, Claimed, UnitOf

\* The steps of a call: a grant puts a held unit into the caller's hands, and no call takes
\* a unit from another worker's.
LEMMA CallsKeepHands ==
  ASSUME MaxSkew <= StaleAfter, HandInv, NEW p \in Procs, AskLedger(p), NEW q \in Procs
  PROVE  HandOK(q)'
<1>1. LedgerInv /\ LedgerStep(p) /\ UNCHANGED workVars
  BY DEF HandInv, AskLedger
<1>2. UNCHANGED <<pc, unit, lapsed, overrun>>
  BY <1>1 DEF workVars
<1>3. CASE q # p
  <2>1. call'[q] = call[q]
    BY <1>1, <1>3, CallGoesOn
  <2>2. ASSUME InHand(q), ~lapsed[q]
        PROVE  Held(Me(q), unit[q])'
    <3>1. Held(Me(q), unit[q]) /\ unit[q] \in Units /\ Me(q) \in Workers
      BY <2>2, FreshFacts DEF HandInv, HandOK, LoopTypes, HandTypes, InHand, Claimed, Dispatching
    <3>2. PICK u \in Units, w \in Workers : u = unit[q] /\ w = Me(q)
      BY <3>1
    <3>3. \A r \in Procs : Me(r) = w => ~(call[r].step = "read" /\ call[r].op = "release")
      BY <2>2, <3>2, HandsAreStill
    <3>4. Held(w, u)
      BY <3>1, <3>2
    <3>5. Held(w, u)'
      BY <1>1, <3>3, <3>4, HeldStays
    <3>6. u = unit'[q] /\ w = Me(q)'
      BY <1>2, <3>2 DEF Me
    <3>7. QED
      BY <3>5, <3>6
  <2>3. QED
    BY <1>2, <2>1, <2>2 DEF HandInv, HandOK, Dispatching, InHand, Claimed, UnitOf
<1>4. CASE q = p
  <2>1. /\ call[p].step # "idle"
        /\ call'[p].step # "idle" => call'[p].op = call[p].op /\ call'[p].unit = call[p].unit
        /\ (call'[p].step = "idle" /\ call[p].op = "claim") => Claim(p)
    BY <1>1, CallGoesOn
  <2>2. ~Dispatching(p) /\ ~Dispatching(p)'
    BY <1>2, <2>1 DEF HandInv, HandOK, Dispatching
  <2>3. ASSUME InHand(p)'
        PROVE  Held(Me(p), unit[p])'
    <3>1. pc[p] = "claiming" /\ call'[p].step = "idle" /\ call'[p].result = "granted"
      BY <1>2, <2>2, <2>3 DEF InHand, Claimed
    <3>2. call[p].op = "claim" /\ UnitOf(p) = unit[p]
      BY <2>1, <3>1 DEF HandInv, HandOK
    <3>3. Claim(p)
      BY <2>1, <3>1, <3>2
    <3>4. PICK u \in Units, w \in Workers : u = UnitOf(p) /\ w = Me(p)
      BY <1>1, <2>1, CallFacts, FreshFacts DEF LedgerInv, LedgerTypeOK, UnitOf
    <3>5. Held(w, u)'
      BY <1>1, <3>1, <3>3, <3>4, GrantIsHeld
    <3>6. u = unit'[p] /\ w = Me(p)'
      BY <1>2, <3>2, <3>4 DEF Me
    <3>7. QED
      BY <3>5, <3>6
  <2>4. QED
    BY <1>2, <1>4, <2>1, <2>2, <2>3 DEF HandInv, HandOK, UnitOf
<1>5. QED
  BY <1>3, <1>4

\* The loop's own steps leave the records alone and hand a granted claim on to its dispatch.
LEMMA LoopKeepsHands ==
  ASSUME HandInv, NEW p \in Procs,
         \/ Snapshot(p) \/ Drain(p) \/ AskClaim(p) \/ NotGranted(p) \/ Recheck(p)
         \/ EndDispatch(p) \/ Released(p) \/ Kill(p) \/ Restart(p),
         NEW q \in Procs
  PROVE  HandOK(q)'
<1>1. call \in [Procs -> Calls] /\ LoopTypes /\ HandTypes /\ HandOK(p)
  BY DEF HandInv, LedgerInv, LedgerTypeOK, LoopTypes
<1>2. /\ ledger' = ledger /\ overrun' = overrun
      /\ q # p => /\ call'[q] = call[q] /\ pc'[q] = pc[q] /\ unit'[q] = unit[q]
                  /\ lapsed'[q] = lapsed[q]
  <2>1. CASE Snapshot(p) \/ Drain(p) \/ NotGranted(p) \/ Released(p) \/ Restart(p)
    BY <2>1, <1>1 DEF Snapshot, Drain, NotGranted, Released, Restart, GoTo, ledgerVars, LoopTypes,
                      HandTypes
  <2>2. CASE AskClaim(p)
    BY <2>2, <1>1 DEF AskClaim, Call, GoTo, LoopTypes, HandTypes
  <2>3. CASE Recheck(p) \/ EndDispatch(p)
    BY <2>3, <1>1 DEF Recheck, EndDispatch, Call, GoTo, ledgerVars, LoopTypes, HandTypes
  <2>4. CASE Kill(p)
    BY <2>4, <1>1 DEF Kill, Killed, GoTo, LoopTypes, HandTypes
  <2>5. QED
    BY <2>1, <2>2, <2>3, <2>4
<1>3. CASE q # p
  BY <1>2, <1>3, Unmoved
<1>4. CASE q = p
  <2>1. CASE Snapshot(p) \/ Drain(p) \/ NotGranted(p) \/ Restart(p)
    <3>1. pc'[p] \notin {"claiming", "dispatching"} /\ lapsed' = lapsed
      BY <2>1, <1>1 DEF Snapshot, Drain, NotGranted, Restart, GoTo, HandTypes
    <3>2. QED
      BY <1>1, <1>2, <1>4, <3>1 DEF HandOK, InHand, Dispatching, Claimed
  <2>2. CASE AskClaim(p)
    <3>1. PICK o \in offers[p] : unit' = [unit EXCEPT ![p] = o[1]] /\ Call(p, "claim", o[1])
      BY <2>2 DEF AskClaim
    <3>2. call'[p].step = "waiting" /\ call'[p].op = "claim" /\ call'[p].unit = unit'[p]
      BY <1>1, <3>1 DEF Call, NoCall, HandTypes
    <3>3. pc'[p] = "claiming" /\ lapsed' = lapsed
      BY <2>2, <1>1 DEF AskClaim, GoTo, HandTypes
    <3>4. QED
      BY <1>1, <1>2, <1>4, <3>2, <3>3 DEF HandOK, InHand, Dispatching, Claimed, UnitOf
  <2>3. CASE Recheck(p) /\ UNCHANGED ledgerVars
    <3>1. /\ InHand(p) /\ UNCHANGED <<unit, lapsed, call>> /\ call[p].step = "idle"
          /\ pc'[p] \in {"dispatching", "skipping"}
      BY <2>3, <1>1 DEF Recheck, InHand, Claimed, GoTo, HandTypes, ledgerVars
    <3>2. Held(Me(p), unit[p]) => Held(Me(p), unit[p])'
      BY <1>2, <3>1 DEF Held, Liveness, AgeSeenBy, Me
    <3>3. QED
      BY <1>1, <1>2, <1>4, <3>1, <3>2 DEF HandOK, Dispatching
  <2>4. CASE (Recheck(p) /\ Call(p, "release", unit[p])) \/ EndDispatch(p)
    <3>1. pc'[p] \in {"skipping", "releasing", "dispatching"} /\ UNCHANGED lapsed
      BY <2>4, <1>1 DEF Recheck, EndDispatch, GoTo, HandTypes
    <3>2. pc'[p] # "dispatching"
      <4>1. call' # call
        BY <1>1, <2>4 DEF Call, EndDispatch, NoCall
      <4>2. QED
        BY <2>4, <1>1, <4>1 DEF Recheck, EndDispatch, GoTo, HandTypes, ledgerVars
    <3>3. QED
      BY <1>1, <1>2, <1>4, <3>1, <3>2 DEF HandOK, InHand, Dispatching, Claimed
  <2>5. CASE Released(p) \/ Kill(p)
    <3>1. pc'[p] \in {"choosing", "idle"} /\ ~lapsed'[p]
      BY <2>5, <1>1 DEF Released, Kill, GoTo, HandTypes, LoopTypes
    <3>2. QED
      BY <1>4, <3>1 DEF HandOK, InHand, Dispatching, Claimed
  <2>6. QED
    BY <2>1, <2>2, <2>3, <2>4, <2>5 DEF Recheck
<1>5. QED
  BY <1>3, <1>4

\* Time: what goes stale under its worker is marked as lapsed.
LEMMA TimeKeepsHands ==
  ASSUME HandInv, Tick, NEW q \in Procs
  PROVE  HandOK(q)'
<1>1. LedgerInv /\ LedgerTick /\ UNCHANGED <<call, pc, unit>>
  BY DEF HandInv, Tick, LedgerTick
<1>2. /\ lapsed'[q] = (lapsed[q] \/
           (InHand(q) /\ \E w \in Workers : Liveness(w, ledger'[unit[q]]) = "stale"))
      /\ lapsed'[q] => overrun'
  BY DEF Tick
<1>3. ASSUME InHand(q), ~lapsed'[q]
      PROVE  Held(Me(q), unit[q])'
  <2>1. Held(Me(q), unit[q]) /\ unit[q] \in Units
    BY <1>2, <1>3 DEF HandInv, HandOK, LoopTypes, HandTypes, InHand, Claimed, Dispatching
  <2>2. PICK u \in Units : u = unit[q]
    BY <2>1
  <2>3. ledger'[u].worker = ledger[u].worker
    BY <1>1, TickFacts
  <2>4. \A w \in Workers : Liveness(w, ledger'[u]) # "stale"
    BY <1>2, <1>3, <2>2
  <2>5. QED
    BY <1>1, <2>1, <2>2, <2>3, <2>4 DEF Held, Liveness, AgeSeenBy, Me
<1>4. QED
  BY <1>1, <1>2, <1>3 DEF HandInv, HandOK, InHand, Claimed, Dispatching, UnitOf

\* What is dispatched stays current: only the dispatch itself moves its unit, since whoever
\* else has that unit in hand has it after a lapse.
LEMMA WorkStaysCurrent ==
  ASSUME HandInv, [Next]_vars
  PROVE  WorkIsCurrent'
<1> SUFFICES ASSUME ~overrun', NEW p \in Procs, Dispatching(p)'
             PROVE  status'[unit'[p]] = Expected(kind'[p])
  BY DEF WorkIsCurrent
<1>1. call \in [Procs -> Calls] /\ LoopTypes /\ HandTypes
  BY DEF HandInv, LedgerInv, LedgerTypeOK, LoopTypes
<1>2. ~overrun => \A q \in Procs : ~lapsed[q]
  BY DEF HandInv, HandOK
<1>3. ~overrun => \A q \in Procs : Dispatching(q) => status[unit[q]] = Expected(kind[q])
  BY DEF HandInv, WorkIsCurrent
<1>4. CASE UNCHANGED vars
  BY <1>3, <1>4 DEF vars, workVars, Dispatching
<1>5. CASE Tick
  BY <1>3, <1>5 DEF Tick, Dispatching
<1>6. ASSUME NEW q \in Procs, AskLedger(q)
      PROVE  status'[unit'[p]] = Expected(kind'[p])
  BY <1>3, <1>6 DEF AskLedger, workVars, Dispatching
<1>7. ASSUME NEW q \in Procs,
             Snapshot(q) \/ Drain(q) \/ AskClaim(q) \/ NotGranted(q) \/ Released(q) \/ Kill(q)
               \/ Restart(q)
      PROVE  status'[unit'[p]] = Expected(kind'[p])
  <2>1. pc'[q] # "dispatching" /\ status' = status /\ overrun' = overrun
    BY <1>1, <1>7 DEF Snapshot, Drain, AskClaim, NotGranted, Released, Kill, Restart, GoTo, HandTypes
  <2>2. p # q
    BY <2>1 DEF Dispatching
  <2>3. pc'[p] = pc[p] /\ unit'[p] = unit[p] /\ kind'[p] = kind[p]
    BY <1>1, <1>7, <2>2 DEF Snapshot, Drain, AskClaim, NotGranted, Released, Kill, Restart, GoTo,
                            HandTypes, LoopTypes
  <2>4. QED
    BY <1>3, <2>1, <2>3 DEF Dispatching
<1>8. ASSUME NEW q \in Procs, Recheck(q)
      PROVE  status'[unit'[p]] = Expected(kind'[p])
  <2>1. UNCHANGED <<status, unit, kind, overrun>>
    BY <1>8 DEF Recheck
  <2>2. CASE p # q
    BY <1>1, <1>3, <1>8, <2>1, <2>2 DEF Recheck, GoTo, HandTypes, Dispatching
  <2>3. CASE p = q
    BY <1>1, <1>8, <2>1, <2>3 DEF Recheck, GoTo, HandTypes, Dispatching, StillClaimable
  <2>4. QED
    BY <2>2, <2>3
<1>9. ASSUME NEW q \in Procs, EndDispatch(q)
      PROVE  status'[unit'[p]] = Expected(kind'[p])
  <2>1. pc[q] = "dispatching" /\ UNCHANGED <<unit, kind, overrun>>
        /\ pc' = [pc EXCEPT ![q] = "releasing"]
    BY <1>9 DEF EndDispatch, GoTo
  <2>2. p # q /\ Dispatching(p) /\ Dispatching(q)
    BY <1>1, <2>1 DEF HandTypes, Dispatching
  <2>3. unit[p] # unit[q]
    BY <1>2, <2>1, <2>2, OneHolder DEF InHand
  <2>4. status'[unit[p]] = status[unit[p]]
    BY <1>1, <1>9, <2>2, <2>3 DEF EndDispatch, LoopTypes, HandTypes, Dispatching
  <2>5. QED
    BY <1>3, <2>1, <2>2, <2>4
<1>10. QED
  BY <1>4, <1>5, <1>6, <1>7, <1>8, <1>9 DEF Next, Step

\* Every step keeps the invariant, when clocks differ by less than a claim lives.
LEMMA NextHand ==
  ASSUME MaxSkew <= StaleAfter
  PROVE  HandInv /\ [Next]_vars => HandInv'
<1> SUFFICES ASSUME HandInv, [Next]_vars PROVE HandInv'
  OBVIOUS
<1>1. LoopTypes'
  BY NextTypes DEF HandInv
<1>2. LedgerInv'
  <2>1. [LedgerNext]_ledgerVars
    BY LoopStepIsLedgerStep DEF HandInv, LoopTypes
  <2>2. QED
    BY <2>1, NextKeeps DEF HandInv
<1>3. WorkIsCurrent'
  BY WorkStaysCurrent
<1>4. ASSUME NEW q \in Procs
      PROVE  HandOK(q)'
  <2>1. CASE UNCHANGED vars
    BY <2>1, Unmoved DEF vars, ledgerVars, workVars
  <2>2. CASE Next
    BY <2>2, CallsKeepHands, LoopKeepsHands, TimeKeepsHands DEF Next, Step
  <2>3. QED
    BY <2>1, <2>2
<1>5. QED
  BY <1>1, <1>2, <1>3, <1>4 DEF HandInv

\* However many workers race for a unit, are killed, skip it or release it late, two of them
\* have it in hand only after a claim of theirs lived out its time (work.py holds the claim
\* across the dispatch and never beats for it).
THEOREM TwoWorkersMeanALapse ==
  ASSUME MaxSkew <= StaleAfter
  PROVE  Spec => []SecondWorkerMeansOverrun
<1>1. HandInv => SecondWorkerMeansOverrun
  BY OneHolder DEF SecondWorkerMeansOverrun
<1>2. QED
  BY <1>1, InitHand, NextHand, PTL DEF Spec

\* Until some dispatch outlives its claim, what a worker dispatches is still at the station
\* it was offered for: the recheck under the claim is enough (_still_claimable).
THEOREM RecheckSuffices ==
  ASSUME MaxSkew <= StaleAfter
  PROVE  Spec => []WorkIsCurrent
<1>1. HandInv => WorkIsCurrent
  BY DEF HandInv
<1>2. QED
  BY <1>1, InitHand, NextHand, PTL DEF Spec
=============================================================================
