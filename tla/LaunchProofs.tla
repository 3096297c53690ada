----------------------------- MODULE LaunchProofs -----------------------------
(***************************************************************************)
(* Theorems about Launch for any dispatches, units, accounts and           *)
(* concurrency.  The inductive invariant says where a receiver can be for  *)
(* each state of its dispatch's record and of its worker (Stages), what    *)
(* the Runner's step and its pending retirements say of both (Watch), that *)
(* a holding record is the one its unit's index names (Index), and that a  *)
(* slot is held as long as its worker may run (Covered).                   *)
(***************************************************************************)
EXTENDS Launch, FiniteSetTheorems, TLAPS

LaunchSteps == {"none", "starting", "silent", "watched", "done", "lost", "reserved", "prepared",
                "cancelling", "closing", "closed"}
ReceiverSteps == {"none", "started", "checked", "accepted", "funded", "spawned", "released",
                  "failed", "refusing", "recorded", "watching", "reaped", "abandoned", "exiting",
                  "abandoning", "telling", "disclosing", "ended"}

\* What the record and the worker can be at each step of the receiver.
Stages(d) ==
  /\ recv[d] = "none" => State(d) \in {"none", "prepared"} /\ run[d] = "none"
  /\ recv[d] \in {"started", "checked"} => State(d) = "prepared" /\ run[d] = "none"
  /\ recv[d] \in {"accepted", "funded"} => State(d) = "accepted" /\ run[d] = "none"
  /\ recv[d] = "spawned" => State(d) = "accepted" /\ run[d] = "wrapped"
  /\ recv[d] = "released" => State(d) = "accepted"
  /\ recv[d] \in {"failed", "refusing"} =>
       State(d) = "accepted" /\ (Over(d) \/ d \in misjudged)
  /\ recv[d] \in {"recorded", "watching", "abandoned", "abandoning"} => State(d) = "running"
  /\ recv[d] \in {"reaped", "exiting"} => State(d) = "running" /\ Over(d)
  /\ recv[d] \in {"telling", "disclosing"} => State(d) \in Ends
  /\ recv[d] = "ended" => State(d) # "none"
  /\ State(d) \in {"none", "prepared", "exited"} => Over(d)
  /\ State(d) = "refused" => Over(d) \/ d \in misjudged
  /\ State(d) = "running" => record[d].process
  /\ State(d) = "none" => ~record[d].process

\* What the Runner's step, the reports and the pending retirements say of them.
Watch(d) ==
  /\ launch[d].step \in {"none", "reserved"} => State(d) = "none" /\ recv[d] = "none"
  /\ At(d, "prepared") => State(d) = "prepared" /\ recv[d] = "none"
  /\ At(d, "starting") => recv[d] # "none" /\ State(d) # "none"
  /\ At(d, "silent") => Receiver(d, "ended")
  /\ At(d, "watched") => State(d) \in {"running", "exited", "unknown"} /\ record[d].process
  /\ launch[d].lost => record[d].process
  /\ orphans[d] # "none" => State(d) = "unknown" /\ record[d].process
  /\ At(d, "cancelling") => State(d) \in {"none", "refused"}
  /\ At(d, "closing") => State(d) \in {"running", "exited", "unknown", "refused"}
  /\ At(d, "closed") => State(d) \in Ends
  /\ told[d].event = "running" => State(d) \in {"running", "exited", "unknown"}
  /\ told[d].event = "ended" => State(d) \in Ends
  /\ d \in pend => /\ launch[d].step \in {"closing", "closed", "done"}
                   /\ State(d) \in {"none"} \cup Ends
  /\ launch[d].step \in {"closing", "closed"} /\ State(d) = "refused" /\ slot[d].state = "held"
       => d \in pend

\* Where the slot is while the worker may run, and when it is gone.
Covered(d) ==
  /\ launch[d].step = "none" => slot[d].state = "none"
  /\ State(d) \in {"prepared", "accepted", "running"} => slot[d].state = "held"
  /\ State(d) = "unknown" => slot[d].state \in {"held", "released"}
  /\ run[d] = "alive" => \/ slot[d].state = "held"
                         \/ d \in misjudged /\ State(d) = "refused"
  /\ slot[d].state = "retired" => calls[d] # "pending"

\* A holding record is the one its unit's index names.
Index(d) == State(d) \in Holding => holder[record[d].unit] = d

Room == \A a \in Account : Cardinality(Uses(slot, a)) <= Concurrency

Everywhere == \A d \in Dispatch : Stages(d) /\ Watch(d) /\ Covered(d) /\ Index(d)

IInv == TypeOK /\ Everywhere /\ Room /\ NoneForgotten

-----------------------------------------------------------------------------
\* What one dispatch's commands leave of the records, and a step of the others.

Writes(d) ==
  \/ UNCHANGED <<record, holder>>
  \/ Accepted(d) \/ Running(d) \/ Exited(d)
  \/ \E s \in {"prepared", "accepted"} : Refused(d, {s})
  \/ \E s \in {"accepted", "running"} : Unknown(d, {s})

Records == [Dispatch -> [state : {"none", "exited", "refused"} \cup Holding,
                         unit : Unit \cup {NoUnit}, process : BOOLEAN]]

Slots == [Dispatch -> [state : {"none", "held", "released", "retired"},
                       account : Account \cup {NoAccount}]]

StoreKept(d) ==
  /\ record' \in Records
  /\ holder' \in [Unit -> Dispatch \cup {NoDispatch}]
  /\ \A e \in Dispatch : record'[e].state # "none" => record'[e].unit \in Unit
  /\ \A e \in Dispatch \ {d} : record'[e] = record[e]
  /\ \A e \in Dispatch : Index(e)'

Same(e) ==
  /\ record'[e] = record[e] /\ calls'[e] = calls[e]
  /\ launch'[e] = launch[e] /\ orphans'[e] = orphans[e]
  /\ recv'[e] = recv[e] /\ told'[e] = told[e] /\ run'[e] = run[e]
  /\ e \in misjudged' <=> e \in misjudged
  /\ \/ slot'[e] = slot[e] /\ (e \in pend' <=> e \in pend)
     \/ /\ e \in pend /\ Closed(e) /\ e \notin pend'
        /\ slot'[e] = [slot[e] EXCEPT !.state = "retired"]

Here(d) ==
  /\ Stages(d) /\ Watch(d) /\ Covered(d)
  /\ At(d, "done") /\ slot[d].state = "held" => d \in pend

\* A move of one record keeps the index of every unit true (Moved, Running).
LEMMA MovedKeeps ==
  ASSUME NEW d \in Dispatch, TypeOK, \A e \in Dispatch : Index(e),
         NEW from \in SUBSET {"prepared", "accepted", "running"},
         NEW to \in {"accepted", "exited", "refused", "unknown"}, Moved(d, from, to)
  PROVE  StoreKept(d)
<1>1. record \in Records /\ holder \in [Unit -> Dispatch \cup {NoDispatch}]
      /\ record[d].unit \in Unit /\ record[d].state \in from
  BY DEF Moved, State, TypeOK, StoreTypeOK, Records
<1>2. record' = [record EXCEPT ![d].state = to]
  BY DEF Moved
<1>3. record' \in Records /\ \A e \in Dispatch \ {d} : record'[e] = record[e]
  BY <1>1, <1>2 DEF Records, Holding
<1>4. record'[d].state = to /\ record'[d].unit = record[d].unit
  BY <1>1, <1>2 DEF Records
<1>5. holder' = IF to \notin Holding /\ holder[record[d].unit] = d
                THEN [holder EXCEPT ![record[d].unit] = NoDispatch] ELSE holder
  BY DEF Moved
<1>6. holder' \in [Unit -> Dispatch \cup {NoDispatch}]
  BY <1>1, <1>5
<1>7. \A e \in Dispatch : record'[e].state # "none" => record'[e].unit \in Unit
  BY <1>1, <1>3, <1>4 DEF TypeOK, StoreTypeOK, State
<1>8. ASSUME NEW e \in Dispatch, record'[e].state \in Holding
      PROVE  holder'[record'[e].unit] = e
  <2>1. CASE e = d
    <3>1. holder[record[d].unit] = d
      BY <1>1 DEF Index, State, Holding
    <3> QED BY <2>1, <3>1, <1>4, <1>5, <1>8
  <2>2. CASE e # d
    <3>1. record[e].state \in Holding /\ record'[e].unit = record[e].unit
      BY <2>2, <1>3, <1>8
    <3>2. holder[record[e].unit] = e
      BY <3>1 DEF Index, State
    <3>3. record[e].unit \in Unit
      BY <3>1 DEF TypeOK, StoreTypeOK, State, Holding
    <3> QED BY <2>2, <3>1, <3>2, <3>3, <1>1, <1>5
  <2> QED BY <2>1, <2>2
<1> QED BY <1>3, <1>6, <1>7, <1>8 DEF StoreKept, Index, State

\* What a move leaves of the record it moves.
LEMMA MovedSets ==
  ASSUME NEW d \in Dispatch, TypeOK, NEW from, NEW to, Moved(d, from, to)
  PROVE  State(d) \in from /\ State(d)' = to /\ record'[d].process = record[d].process
BY DEF Moved, State, TypeOK, StoreTypeOK

\* Every write a launch makes of its record keeps the records and the index.
LEMMA WritesKeep ==
  ASSUME NEW d \in Dispatch, TypeOK, \A e \in Dispatch : Index(e), Writes(d)
  PROVE  StoreKept(d)
<1>1. CASE UNCHANGED <<record, holder>>
  BY <1>1 DEF StoreKept, TypeOK, StoreTypeOK, Records, Index, State
<1>2. CASE Running(d)
  <2>1. /\ record \in Records /\ holder' = holder /\ State(d) = "accepted"
        /\ record' = [record EXCEPT ![d].state = "running", ![d].process = TRUE]
    BY <1>2 DEF Running, TypeOK, StoreTypeOK, Records
  <2>2. /\ record' \in Records /\ record'[d].unit = record[d].unit
        /\ \A e \in Dispatch \ {d} : record'[e] = record[e]
    BY <2>1 DEF Records, Holding
  <2>3. \A e \in Dispatch : record'[e].state # "none" => record'[e].unit \in Unit
    BY <2>1, <2>2 DEF TypeOK, StoreTypeOK, State
  <2>4. \A e \in Dispatch : Index(e)'
    BY <2>1, <2>2 DEF Index, State, Holding
  <2> QED BY <2>1, <2>2, <2>3, <2>4 DEF StoreKept, TypeOK, StoreTypeOK
<1>3. CASE Accepted(d)
  BY <1>3, MovedKeeps DEF Accepted
<1>4. CASE Exited(d)
  BY <1>4, MovedKeeps DEF Exited
<1>5. CASE \E s \in {"prepared", "accepted"} : Refused(d, {s})
  <2>1. PICK s \in {"prepared", "accepted"} : Moved(d, {"prepared", "accepted"} \cap {s}, "refused")
    BY <1>5 DEF Refused
  <2> QED BY <2>1, MovedKeeps
<1>6. CASE \E s \in {"accepted", "running"} : Unknown(d, {s})
  <2>1. PICK s \in {"accepted", "running"} : Moved(d, {"accepted", "running"} \cap {s}, "unknown")
    BY <1>6 DEF Unknown
  <2> QED BY <2>1, MovedKeeps
<1> QED BY <1>1, <1>2, <1>3, <1>4, <1>5, <1>6 DEF Writes

\* What holds of the dispatch that steps and of each one that does not, holds of all.
LEMMA Assemble ==
  ASSUME NEW d \in Dispatch, TypeOK, Everywhere, NoneForgotten,
         StoreKept(d), \A e \in Dispatch \ {d} : Same(e), Here(d)'
  PROVE  Everywhere' /\ NoneForgotten'
<1>1. ASSUME NEW e \in Dispatch \ {d}
      PROVE  Here(e)'
  <2>1. Same(e) /\ Here(e)
    BY DEF Everywhere, NoneForgotten, Here
  <2> QED BY <2>1 DEF Same, Here, Stages, Watch, Covered, Closed, OutcomeKnown, Accounted,
                     TypeOK, StoreTypeOK, At, Receiver, State, Over, Ends
<1> QED BY <1>1 DEF Everywhere, NoneForgotten, StoreKept, Here

-----------------------------------------------------------------------------
\* One lemma for each action.

\* The contract's check only waits, or refuses what is still prepared.
LEMMA CheckKeeps ==
  ASSUME NEW d \in Dispatch, TypeOK, Everywhere, NoneForgotten, Check(d)
  PROVE  TypeOK' /\ Everywhere' /\ NoneForgotten'
<1>1. Here(d) /\ \A e \in Dispatch : Index(e)
  BY DEF Everywhere, NoneForgotten, Here
<1>2. StoreKept(d)
  BY <1>1, WritesKeep DEF Check, Writes
<1>3. TypeOK'
  <2>1. StoreTypeOK'
    BY <1>2 DEF Check, TypeOK, StoreTypeOK, StoreKept, Records, Holding, CallClosed, storeVars,
       State
  <2>2. launch' \in [Dispatch -> [step : LaunchSteps, lost : BOOLEAN]]
    BY DEF Check, Goes, TypeOK, LaunchSteps, runnerVars
  <2>3. recv' \in [Dispatch -> ReceiverSteps]
    BY DEF Check, Steps, TypeOK, ReceiverSteps, receiverVars
  <2>4. /\ pend' \subseteq Dispatch /\ orphans' \in [Dispatch -> {"none", "owed", "stopped"}]
        /\ told' \in [Dispatch -> [event : {"nothing", "running", "ended"}, group : BOOLEAN]]
        /\ run' \in [Dispatch -> {"none", "wrapped", "alive", "left", "gone"}]
        /\ misjudged' \subseteq Dispatch
    BY DEF Check, TypeOK, Becomes, runnerVars, receiverVars
  <2> QED BY <2>1, <2>2, <2>3, <2>4 DEF TypeOK, LaunchSteps, ReceiverSteps
<1>4. \A e \in Dispatch \ {d} : Same(e)
  BY <1>2 DEF Check, Same, StoreKept, TypeOK, StoreTypeOK, Steps, runnerVars
<1>5. Here(d)'
  <2>1. CASE Steps(d, "checked") /\ UNCHANGED <<record, holder>>
    BY <1>1, <2>1 DEF Check, Here, Stages, Watch, Covered, TypeOK, At, Receiver, Steps, Over,
       State, Ends, runnerVars
  <2>2. CASE Refused(d, {"prepared"}) /\ Steps(d, "telling")
    <3>1. State(d) = "prepared" /\ State(d)' = "refused" /\ record'[d].process = record[d].process
      BY <2>2, MovedSets DEF Refused
    <3> QED BY <1>1, <2>2, <3>1 DEF Check, Here, Stages, Watch, Covered, TypeOK, At, Receiver,
            Steps, Over, Ends, runnerVars
  <2> QED BY <2>1, <2>2 DEF Check
<1> QED BY <1>2, <1>3, <1>4, <1>5, Assemble

\* An acceptance finds the record prepared and the slot held.
LEMMA AcceptKeeps ==
  ASSUME NEW d \in Dispatch, TypeOK, Everywhere, NoneForgotten, Accept(d)
  PROVE  TypeOK' /\ Everywhere' /\ NoneForgotten'
<1>1. Here(d) /\ \A e \in Dispatch : Index(e)
  BY DEF Everywhere, NoneForgotten, Here
<1>2. StoreKept(d)
  BY <1>1, WritesKeep DEF Accept, Writes
<1>3. TypeOK'
  <2>1. StoreTypeOK'
    BY <1>2 DEF Accept, TypeOK, StoreTypeOK, StoreKept, Records, Holding, CallClosed, storeVars,
       State
  <2>2. launch' \in [Dispatch -> [step : LaunchSteps, lost : BOOLEAN]]
    BY DEF Accept, Goes, TypeOK, LaunchSteps, runnerVars
  <2>3. recv' \in [Dispatch -> ReceiverSteps]
    BY DEF Accept, Steps, TypeOK, ReceiverSteps, receiverVars
  <2>4. /\ pend' \subseteq Dispatch /\ orphans' \in [Dispatch -> {"none", "owed", "stopped"}]
        /\ told' \in [Dispatch -> [event : {"nothing", "running", "ended"}, group : BOOLEAN]]
        /\ run' \in [Dispatch -> {"none", "wrapped", "alive", "left", "gone"}]
        /\ misjudged' \subseteq Dispatch
    BY DEF Accept, TypeOK, Becomes, runnerVars, receiverVars
  <2> QED BY <2>1, <2>2, <2>3, <2>4 DEF TypeOK, LaunchSteps, ReceiverSteps
<1>4. \A e \in Dispatch \ {d} : Same(e)
  BY <1>2 DEF Accept, Same, StoreKept, TypeOK, StoreTypeOK, Steps, runnerVars
<1>5. Here(d)'
  <2>1. CASE Accepted(d) /\ Steps(d, "accepted")
    <3>1. State(d) = "prepared" /\ State(d)' = "accepted" /\ record'[d].process = record[d].process
      BY <2>1, MovedSets DEF Accepted
    <3> QED BY <1>1, <2>1, <3>1 DEF Accept, Here, Stages, Watch, Covered, TypeOK, At, Receiver,
            Steps, Over, Ends, runnerVars
  <2>2. CASE Refused(d, {"prepared"}) /\ Steps(d, "telling")
    <3>1. State(d) = "prepared" /\ State(d)' = "refused" /\ record'[d].process = record[d].process
      BY <2>2, MovedSets DEF Refused
    <3> QED BY <1>1, <2>2, <3>1 DEF Accept, Here, Stages, Watch, Covered, TypeOK, At, Receiver,
            Steps, Over, Ends, runnerVars
  <2> QED BY <2>1, <2>2 DEF Accept
<1> QED BY <1>2, <1>3, <1>4, <1>5, Assemble

\* A call is made only under an accepted record, whose slot is held.
LEMMA ReserveCallKeeps ==
  ASSUME NEW d \in Dispatch, TypeOK, Everywhere, NoneForgotten, ReserveCall(d)
  PROVE  TypeOK' /\ Everywhere' /\ NoneForgotten'
<1>1. Here(d) /\ \A e \in Dispatch : Index(e)
  BY DEF Everywhere, NoneForgotten, Here
<1>2. StoreKept(d)
  BY <1>1, WritesKeep DEF ReserveCall, Writes
<1>3. TypeOK'
  <2>1. StoreTypeOK'
    BY <1>2 DEF ReserveCall, TypeOK, StoreTypeOK, StoreKept, Records, Holding, CallMade, State
  <2>2. launch' \in [Dispatch -> [step : LaunchSteps, lost : BOOLEAN]]
    BY DEF ReserveCall, Goes, TypeOK, LaunchSteps, runnerVars
  <2>3. recv' \in [Dispatch -> ReceiverSteps]
    BY DEF ReserveCall, Steps, TypeOK, ReceiverSteps, receiverVars
  <2>4. /\ pend' \subseteq Dispatch /\ orphans' \in [Dispatch -> {"none", "owed", "stopped"}]
        /\ told' \in [Dispatch -> [event : {"nothing", "running", "ended"}, group : BOOLEAN]]
        /\ run' \in [Dispatch -> {"none", "wrapped", "alive", "left", "gone"}]
        /\ misjudged' \subseteq Dispatch
    BY DEF ReserveCall, TypeOK, Becomes, runnerVars, receiverVars
  <2> QED BY <2>1, <2>2, <2>3, <2>4 DEF TypeOK, LaunchSteps, ReceiverSteps
<1>4. \A e \in Dispatch \ {d} : Same(e)
  BY <1>2 DEF ReserveCall, Same, StoreKept, TypeOK, StoreTypeOK, CallMade, Steps, runnerVars
<1>5. Here(d)'
  <2>1. CASE Steps(d, "funded") /\ UNCHANGED <<record, holder>>
    BY <1>1, <2>1 DEF ReserveCall, Here, Stages, Watch, Covered, TypeOK, StoreTypeOK, At,
           Receiver, Over, Ends, Steps, CallMade, runnerVars, State
  <2>2. CASE Refused(d, {"accepted"}) /\ Steps(d, "telling")
    <3>1. State(d) = "accepted" /\ State(d)' = "refused" /\ record'[d].process = record[d].process
      BY <2>2, MovedSets DEF Refused
    <3> QED BY <1>1, <2>2, <3>1 DEF ReserveCall, Here, Stages, Watch, Covered, TypeOK,
                  StoreTypeOK, At, Receiver, Over, Ends, Steps, runnerVars
  <2> QED BY <2>1, <2>2 DEF ReserveCall
<1> QED BY <1>2, <1>3, <1>4, <1>5, Assemble

\* A wrapper is started only under an accepted record.
LEMMA SpawnKeeps ==
  ASSUME NEW d \in Dispatch, TypeOK, Everywhere, NoneForgotten, Spawn(d)
  PROVE  TypeOK' /\ Everywhere' /\ NoneForgotten'
<1>1. Here(d) /\ \A e \in Dispatch : Index(e)
  BY DEF Everywhere, NoneForgotten, Here
<1>2. StoreKept(d)
  BY <1>1, WritesKeep DEF Spawn, Writes, storeVars
<1>3. TypeOK'
  <2>1. StoreTypeOK'
    BY <1>2 DEF Spawn, TypeOK, StoreTypeOK, StoreKept, Records, Holding, CallClosed, storeVars,
       State
  <2>2. launch' \in [Dispatch -> [step : LaunchSteps, lost : BOOLEAN]]
    BY DEF Spawn, Goes, TypeOK, LaunchSteps, runnerVars
  <2>3. recv' \in [Dispatch -> ReceiverSteps]
    BY DEF Spawn, Steps, TypeOK, ReceiverSteps, receiverVars
  <2>4. /\ pend' \subseteq Dispatch /\ orphans' \in [Dispatch -> {"none", "owed", "stopped"}]
        /\ told' \in [Dispatch -> [event : {"nothing", "running", "ended"}, group : BOOLEAN]]
        /\ run' \in [Dispatch -> {"none", "wrapped", "alive", "left", "gone"}]
        /\ misjudged' \subseteq Dispatch
    BY DEF Spawn, TypeOK, Becomes, runnerVars, receiverVars
  <2> QED BY <2>1, <2>2, <2>3, <2>4 DEF TypeOK, LaunchSteps, ReceiverSteps
<1>4. \A e \in Dispatch \ {d} : Same(e)
  BY <1>2 DEF Spawn, Same, StoreKept, TypeOK, StoreTypeOK, Steps, Becomes, runnerVars,
              storeVars
<1>5. Here(d)'
  BY <1>1 DEF Spawn, Here, Stages, Watch, Covered, TypeOK, StoreTypeOK, At, Receiver, Over,
              State, Ends, runnerVars, Steps, Becomes, storeVars
<1> QED BY <1>2, <1>3, <1>4, <1>5, Assemble

\* A worker is released only under an accepted record.
LEMMA ReleaseKeeps ==
  ASSUME NEW d \in Dispatch, TypeOK, Everywhere, NoneForgotten, Release(d)
  PROVE  TypeOK' /\ Everywhere' /\ NoneForgotten'
<1>1. Here(d) /\ \A e \in Dispatch : Index(e)
  BY DEF Everywhere, NoneForgotten, Here
<1>2. StoreKept(d)
  BY <1>1, WritesKeep DEF Release, Writes, storeVars
<1>3. TypeOK'
  <2>1. StoreTypeOK'
    BY <1>2 DEF Release, TypeOK, StoreTypeOK, StoreKept, Records, Holding, CallClosed,
       storeVars, State
  <2>2. launch' \in [Dispatch -> [step : LaunchSteps, lost : BOOLEAN]]
    BY DEF Release, Goes, TypeOK, LaunchSteps, runnerVars
  <2>3. recv' \in [Dispatch -> ReceiverSteps]
    BY DEF Release, Steps, TypeOK, ReceiverSteps, receiverVars
  <2>4. /\ pend' \subseteq Dispatch /\ orphans' \in [Dispatch -> {"none", "owed", "stopped"}]
        /\ told' \in [Dispatch -> [event : {"nothing", "running", "ended"}, group : BOOLEAN]]
        /\ run' \in [Dispatch -> {"none", "wrapped", "alive", "left", "gone"}]
        /\ misjudged' \subseteq Dispatch
    BY DEF Release, TypeOK, Becomes, runnerVars, receiverVars
  <2> QED BY <2>1, <2>2, <2>3, <2>4 DEF TypeOK, LaunchSteps, ReceiverSteps
<1>4. \A e \in Dispatch \ {d} : Same(e)
  BY <1>2 DEF Release, Same, StoreKept, TypeOK, StoreTypeOK, Steps, Becomes, runnerVars,
              storeVars
<1>5. Here(d)'
  BY <1>1 DEF Release, Here, Stages, Watch, Covered, TypeOK, StoreTypeOK, At, Receiver,
              Over, State, Ends, runnerVars, Steps, Becomes, storeVars
<1> QED BY <1>2, <1>3, <1>4, <1>5, Assemble

\* A discarded worker is gone, or its outcome is unknown, or it is misjudged.
LEMMA DiscardKeeps ==
  ASSUME NEW d \in Dispatch, TypeOK, Everywhere, NoneForgotten, Discard(d)
  PROVE  TypeOK' /\ Everywhere' /\ NoneForgotten'
<1>1. Here(d) /\ \A e \in Dispatch : Index(e)
  BY DEF Everywhere, NoneForgotten, Here
<1>2. StoreKept(d)
  BY <1>1, WritesKeep DEF Discard, Misjudges, Writes
<1>3. TypeOK'
  <2>1. StoreTypeOK'
    BY <1>2 DEF Discard, Misjudges, TypeOK, StoreTypeOK, StoreKept, Records, Holding, CallClosed,
       storeVars, State
  <2>2. launch' \in [Dispatch -> [step : LaunchSteps, lost : BOOLEAN]]
    BY DEF Discard, Misjudges, Goes, TypeOK, LaunchSteps, runnerVars
  <2>3. recv' \in [Dispatch -> ReceiverSteps]
    <3>1. \E s \in {"failed", "disclosing"} : Steps(d, s)
      BY DEF Discard, Misjudges
    <3> QED BY <3>1 DEF Steps, TypeOK, ReceiverSteps
  <2>4. /\ pend' \subseteq Dispatch /\ orphans' \in [Dispatch -> {"none", "owed", "stopped"}]
        /\ told' \in [Dispatch -> [event : {"nothing", "running", "ended"}, group : BOOLEAN]]
        /\ run' \in [Dispatch -> {"none", "wrapped", "alive", "left", "gone"}]
        /\ misjudged' \subseteq Dispatch
    BY DEF Discard, Misjudges, TypeOK, Becomes, runnerVars, receiverVars
  <2> QED BY <2>1, <2>2, <2>3, <2>4 DEF TypeOK, LaunchSteps, ReceiverSteps
<1>4. \A e \in Dispatch \ {d} : Same(e)
  BY <1>2 DEF Discard, Misjudges, Same, StoreKept, TypeOK, StoreTypeOK, Steps, Becomes, runnerVars
<1>5. Here(d)'
  <2>1. CASE Becomes(d, "gone") /\ Steps(d, "failed") /\ UNCHANGED <<record, holder>>
    BY <1>1, <2>1 DEF Discard, Here, Stages, Watch, Covered, TypeOK, StoreTypeOK, At,
           Receiver, Over, Ends, Steps, Becomes, runnerVars, State
  <2>2. CASE Unknown(d, {"accepted"}) /\ Steps(d, "disclosing") /\ UNCHANGED <<run, misjudged>>
    <3>1. State(d) = "accepted" /\ State(d)' = "unknown" /\ record'[d].process = record[d].process
      BY <2>2, MovedSets DEF Unknown
    <3> QED BY <1>1, <2>2, <3>1 DEF Discard, Here, Stages, Watch, Covered, TypeOK,
                  StoreTypeOK, At, Receiver, Over, Ends, Steps, runnerVars
  <2>3. CASE Misjudges(d)
    BY <1>1, <2>3 DEF Discard, Misjudges, Here, Stages, Watch, Covered, TypeOK, StoreTypeOK, At,
           Receiver, Over, Ends, Steps, runnerVars, State
  <2> QED BY <2>1, <2>2, <2>3 DEF Discard
<1> QED BY <1>2, <1>3, <1>4, <1>5, Assemble

\* A worker whose receipts cannot be opened runs on under its accepted record.
LEMMA ReceiptsFailKeeps ==
  ASSUME NEW d \in Dispatch, TypeOK, Everywhere, NoneForgotten, ReceiptsFail(d)
  PROVE  TypeOK' /\ Everywhere' /\ NoneForgotten'
<1>1. Here(d) /\ \A e \in Dispatch : Index(e)
  BY DEF Everywhere, NoneForgotten, Here
<1>2. StoreKept(d)
  BY <1>1, WritesKeep DEF ReceiptsFail, Misjudges, Writes
<1>3. TypeOK'
  <2>1. StoreTypeOK'
    BY <1>2 DEF ReceiptsFail, Misjudges, TypeOK, StoreTypeOK, StoreKept, Records, Holding, State
  <2>2. launch' \in [Dispatch -> [step : LaunchSteps, lost : BOOLEAN]]
    BY DEF ReceiptsFail, TypeOK, LaunchSteps, runnerVars
  <2>3. recv' \in [Dispatch -> ReceiverSteps]
    BY DEF ReceiptsFail, Misjudges, Steps, TypeOK, ReceiverSteps
  <2>4. /\ pend' \subseteq Dispatch /\ orphans' \in [Dispatch -> {"none", "owed", "stopped"}]
        /\ told' \in [Dispatch -> [event : {"nothing", "running", "ended"}, group : BOOLEAN]]
        /\ run' \in [Dispatch -> {"none", "wrapped", "alive", "left", "gone"}]
        /\ misjudged' \subseteq Dispatch
    BY DEF ReceiptsFail, Misjudges, TypeOK, runnerVars
  <2> QED BY <2>1, <2>2, <2>3, <2>4 DEF TypeOK, LaunchSteps, ReceiverSteps
<1>4. \A e \in Dispatch \ {d} : Same(e)
  BY <1>2 DEF ReceiptsFail, Misjudges, Same, StoreKept, TypeOK, StoreTypeOK, Steps, runnerVars
<1>5. Here(d)'
  BY <1>1 DEF ReceiptsFail, Misjudges, Here, Stages, Watch, Covered, TypeOK, StoreTypeOK, At,
              Receiver, Over, Ends, Steps, runnerVars, State
<1> QED BY <1>2, <1>3, <1>4, <1>5, Assemble

\* A settled call ends no obligation of another.
LEMMA NotExecutedKeeps ==
  ASSUME NEW d \in Dispatch, TypeOK, Everywhere, NoneForgotten, NotExecuted(d)
  PROVE  TypeOK' /\ Everywhere' /\ NoneForgotten'
<1>1. Here(d) /\ \A e \in Dispatch : Index(e)
  BY DEF Everywhere, NoneForgotten, Here
<1>2. StoreKept(d)
  BY <1>1, WritesKeep DEF NotExecuted, Writes
<1>3. TypeOK'
  <2>1. StoreTypeOK'
    BY <1>2 DEF NotExecuted, TypeOK, StoreTypeOK, StoreKept, Records, Holding, CallClosed,
       storeVars, State
  <2>2. launch' \in [Dispatch -> [step : LaunchSteps, lost : BOOLEAN]]
    BY DEF NotExecuted, Goes, TypeOK, LaunchSteps, runnerVars
  <2>3. recv' \in [Dispatch -> ReceiverSteps]
    BY DEF NotExecuted, Steps, TypeOK, ReceiverSteps, receiverVars
  <2>4. /\ pend' \subseteq Dispatch /\ orphans' \in [Dispatch -> {"none", "owed", "stopped"}]
        /\ told' \in [Dispatch -> [event : {"nothing", "running", "ended"}, group : BOOLEAN]]
        /\ run' \in [Dispatch -> {"none", "wrapped", "alive", "left", "gone"}]
        /\ misjudged' \subseteq Dispatch
    BY DEF NotExecuted, TypeOK, Becomes, runnerVars, receiverVars
  <2> QED BY <2>1, <2>2, <2>3, <2>4 DEF TypeOK, LaunchSteps, ReceiverSteps
<1>4. \A e \in Dispatch \ {d} : Same(e)
  BY <1>2 DEF NotExecuted, Same, StoreKept, TypeOK, StoreTypeOK, CallClosed, Steps,
              runnerVars
<1>5. Here(d)'
  BY <1>1 DEF NotExecuted, Here, Stages, Watch, Covered, TypeOK, StoreTypeOK, At, Receiver,
              Over, State, Ends, runnerVars, CallClosed, Steps
<1> QED BY <1>2, <1>3, <1>4, <1>5, Assemble

\* An accepted record is refused when nothing of its worker is left, or what is
\* left is misjudged.
LEMMA RefuseAcceptedKeeps ==
  ASSUME NEW d \in Dispatch, TypeOK, Everywhere, NoneForgotten, RefuseAccepted(d)
  PROVE  TypeOK' /\ Everywhere' /\ NoneForgotten'
<1>1. Here(d) /\ \A e \in Dispatch : Index(e)
  BY DEF Everywhere, NoneForgotten, Here
<1>2. StoreKept(d)
  BY <1>1, WritesKeep DEF RefuseAccepted, Writes
<1>3. TypeOK'
  <2>1. StoreTypeOK'
    BY <1>2 DEF RefuseAccepted, TypeOK, StoreTypeOK, StoreKept, Records, Holding, CallClosed,
       storeVars, State
  <2>2. launch' \in [Dispatch -> [step : LaunchSteps, lost : BOOLEAN]]
    BY DEF RefuseAccepted, Goes, TypeOK, LaunchSteps, runnerVars
  <2>3. recv' \in [Dispatch -> ReceiverSteps]
    BY DEF RefuseAccepted, Steps, TypeOK, ReceiverSteps, receiverVars
  <2>4. /\ pend' \subseteq Dispatch /\ orphans' \in [Dispatch -> {"none", "owed", "stopped"}]
        /\ told' \in [Dispatch -> [event : {"nothing", "running", "ended"}, group : BOOLEAN]]
        /\ run' \in [Dispatch -> {"none", "wrapped", "alive", "left", "gone"}]
        /\ misjudged' \subseteq Dispatch
    BY DEF RefuseAccepted, TypeOK, Becomes, runnerVars, receiverVars
  <2> QED BY <2>1, <2>2, <2>3, <2>4 DEF TypeOK, LaunchSteps, ReceiverSteps
<1>4. \A e \in Dispatch \ {d} : Same(e)
  BY <1>2 DEF RefuseAccepted, Same, StoreKept, TypeOK, StoreTypeOK, Steps, runnerVars
<1>5. Here(d)'
  BY <1>1 DEF RefuseAccepted, Here, Stages, Watch, Covered, TypeOK, StoreTypeOK, At,
              Receiver, Over, State, Ends, runnerVars, Refused, Steps, Moved
<1> QED BY <1>2, <1>3, <1>4, <1>5, Assemble

\* A worker without a running record is gone.
LEMMA RecordRunKeeps ==
  ASSUME NEW d \in Dispatch, TypeOK, Everywhere, NoneForgotten, RecordRun(d)
  PROVE  TypeOK' /\ Everywhere' /\ NoneForgotten'
<1>1. Here(d) /\ \A e \in Dispatch : Index(e)
  BY DEF Everywhere, NoneForgotten, Here
<1>2. StoreKept(d)
  BY <1>1, WritesKeep DEF RecordRun, Writes
<1>3. TypeOK'
  <2>1. StoreTypeOK'
    BY <1>2 DEF RecordRun, TypeOK, StoreTypeOK, StoreKept, Records, Holding, CallClosed,
       storeVars, State
  <2>2. launch' \in [Dispatch -> [step : LaunchSteps, lost : BOOLEAN]]
    BY DEF RecordRun, Goes, TypeOK, LaunchSteps, runnerVars
  <2>3. recv' \in [Dispatch -> ReceiverSteps]
    BY DEF RecordRun, Steps, TypeOK, ReceiverSteps, receiverVars
  <2>4. /\ pend' \subseteq Dispatch /\ orphans' \in [Dispatch -> {"none", "owed", "stopped"}]
        /\ told' \in [Dispatch -> [event : {"nothing", "running", "ended"}, group : BOOLEAN]]
        /\ run' \in [Dispatch -> {"none", "wrapped", "alive", "left", "gone"}]
        /\ misjudged' \subseteq Dispatch
    BY DEF RecordRun, TypeOK, Becomes, runnerVars, receiverVars
  <2> QED BY <2>1, <2>2, <2>3, <2>4 DEF TypeOK, LaunchSteps, ReceiverSteps
<1>4. \A e \in Dispatch \ {d} : Same(e)
  BY <1>2 DEF RecordRun, Same, StoreKept, TypeOK, StoreTypeOK, Steps, Becomes, runnerVars
<1>5. Here(d)'
  <2>1. CASE Running(d) /\ Steps(d, "recorded") /\ UNCHANGED run
    BY <1>1, <2>1 DEF RecordRun, Here, Stages, Watch, Covered, TypeOK, StoreTypeOK, At,
           Receiver, Over, Ends, Running, Steps, runnerVars, State
  <2>2. CASE Becomes(d, "gone") /\ Unknown(d, {"accepted"}) /\ Steps(d, "telling")
    <3>1. State(d) = "accepted" /\ State(d)' = "unknown" /\ record'[d].process = record[d].process
      BY <2>2, MovedSets DEF Unknown
    <3> QED BY <1>1, <2>2, <3>1 DEF RecordRun, Here, Stages, Watch, Covered, TypeOK,
                  StoreTypeOK, At, Receiver, Over, Ends, Steps, Becomes, runnerVars
  <2>3. CASE Becomes(d, "gone") /\ Steps(d, "ended") /\ UNCHANGED <<record, holder>>
    BY <1>1, <2>3 DEF RecordRun, Here, Stages, Watch, Covered, TypeOK, StoreTypeOK, At,
           Receiver, Over, Ends, Steps, Becomes, runnerVars, State
  <2> QED BY <2>1, <2>2, <2>3 DEF RecordRun
<1> QED BY <1>2, <1>3, <1>4, <1>5, Assemble

\* The running report follows the running record.
LEMMA TellRunningKeeps ==
  ASSUME NEW d \in Dispatch, TypeOK, Everywhere, NoneForgotten, TellRunning(d)
  PROVE  TypeOK' /\ Everywhere' /\ NoneForgotten'
<1>1. Here(d) /\ \A e \in Dispatch : Index(e)
  BY DEF Everywhere, NoneForgotten, Here
<1>2. StoreKept(d)
  BY <1>1, WritesKeep DEF TellRunning, Writes, storeVars
<1>3. TypeOK'
  <2>1. StoreTypeOK'
    BY <1>2 DEF TellRunning, TypeOK, StoreTypeOK, StoreKept, Records, Holding, CallClosed,
       storeVars, State
  <2>2. launch' \in [Dispatch -> [step : LaunchSteps, lost : BOOLEAN]]
    BY DEF TellRunning, Goes, TypeOK, LaunchSteps, runnerVars
  <2>3. recv' \in [Dispatch -> ReceiverSteps]
    BY DEF TellRunning, Steps, TypeOK, ReceiverSteps, receiverVars
  <2>4. /\ pend' \subseteq Dispatch /\ orphans' \in [Dispatch -> {"none", "owed", "stopped"}]
        /\ told' \in [Dispatch -> [event : {"nothing", "running", "ended"}, group : BOOLEAN]]
        /\ run' \in [Dispatch -> {"none", "wrapped", "alive", "left", "gone"}]
        /\ misjudged' \subseteq Dispatch
    BY DEF TellRunning, TypeOK, Becomes, runnerVars, receiverVars
  <2> QED BY <2>1, <2>2, <2>3, <2>4 DEF TypeOK, LaunchSteps, ReceiverSteps
<1>4. \A e \in Dispatch \ {d} : Same(e)
  BY <1>2 DEF TellRunning, Same, StoreKept, TypeOK, StoreTypeOK, Steps, runnerVars,
              storeVars
<1>5. Here(d)'
  BY <1>1 DEF TellRunning, Here, Stages, Watch, Covered, TypeOK, StoreTypeOK, At, Receiver,
              Over, State, Ends, runnerVars, PipeOpen, Steps, storeVars
<1> QED BY <1>2, <1>3, <1>4, <1>5, Assemble

\* A worker is reaped with its group or not at all.
LEMMA ReapKeeps ==
  ASSUME NEW d \in Dispatch, TypeOK, Everywhere, NoneForgotten, Reap(d)
  PROVE  TypeOK' /\ Everywhere' /\ NoneForgotten'
<1>1. Here(d) /\ \A e \in Dispatch : Index(e)
  BY DEF Everywhere, NoneForgotten, Here
<1>2. StoreKept(d)
  BY <1>1, WritesKeep DEF Reap, Writes, storeVars
<1>3. TypeOK'
  <2>1. StoreTypeOK'
    BY <1>2 DEF Reap, TypeOK, StoreTypeOK, StoreKept, Records, Holding, CallClosed, storeVars,
       State
  <2>2. launch' \in [Dispatch -> [step : LaunchSteps, lost : BOOLEAN]]
    BY DEF Reap, Goes, TypeOK, LaunchSteps, runnerVars
  <2>3. recv' \in [Dispatch -> ReceiverSteps]
    BY DEF Reap, Steps, TypeOK, ReceiverSteps, receiverVars
  <2>4. /\ pend' \subseteq Dispatch /\ orphans' \in [Dispatch -> {"none", "owed", "stopped"}]
        /\ told' \in [Dispatch -> [event : {"nothing", "running", "ended"}, group : BOOLEAN]]
        /\ run' \in [Dispatch -> {"none", "wrapped", "alive", "left", "gone"}]
        /\ misjudged' \subseteq Dispatch
    BY DEF Reap, TypeOK, Becomes, runnerVars, receiverVars
  <2> QED BY <2>1, <2>2, <2>3, <2>4 DEF TypeOK, LaunchSteps, ReceiverSteps
<1>4. \A e \in Dispatch \ {d} : Same(e)
  BY <1>2 DEF Reap, Same, StoreKept, TypeOK, StoreTypeOK, Steps, Becomes, runnerVars,
              storeVars
<1>5. Here(d)'
  BY <1>1 DEF Reap, Here, Stages, Watch, Covered, TypeOK, StoreTypeOK, At, Receiver, Over,
              State, Ends, runnerVars, Steps, Becomes, storeVars
<1> QED BY <1>2, <1>3, <1>4, <1>5, Assemble

\* The final report comes before the end, and changes no record.
LEMMA SettleCallKeeps ==
  ASSUME NEW d \in Dispatch, TypeOK, Everywhere, NoneForgotten, SettleCall(d)
  PROVE  TypeOK' /\ Everywhere' /\ NoneForgotten'
<1>1. Here(d) /\ \A e \in Dispatch : Index(e)
  BY DEF Everywhere, NoneForgotten, Here
<1>2. StoreKept(d)
  BY <1>1, WritesKeep DEF SettleCall, Writes
<1>3. TypeOK'
  <2>1. StoreTypeOK'
    BY <1>2 DEF SettleCall, TypeOK, StoreTypeOK, StoreKept, Records, Holding, CallClosed,
       storeVars, State
  <2>2. launch' \in [Dispatch -> [step : LaunchSteps, lost : BOOLEAN]]
    BY DEF SettleCall, Goes, TypeOK, LaunchSteps, runnerVars
  <2>3. recv' \in [Dispatch -> ReceiverSteps]
    BY DEF SettleCall, Steps, TypeOK, ReceiverSteps, receiverVars
  <2>4. /\ pend' \subseteq Dispatch /\ orphans' \in [Dispatch -> {"none", "owed", "stopped"}]
        /\ told' \in [Dispatch -> [event : {"nothing", "running", "ended"}, group : BOOLEAN]]
        /\ run' \in [Dispatch -> {"none", "wrapped", "alive", "left", "gone"}]
        /\ misjudged' \subseteq Dispatch
    BY DEF SettleCall, TypeOK, Becomes, runnerVars, receiverVars
  <2> QED BY <2>1, <2>2, <2>3, <2>4 DEF TypeOK, LaunchSteps, ReceiverSteps
<1>4. \A e \in Dispatch \ {d} : Same(e)
  BY <1>2 DEF SettleCall, Same, StoreKept, TypeOK, StoreTypeOK, CallClosed, Steps,
              runnerVars
<1>5. Here(d)'
  BY <1>1 DEF SettleCall, Here, Stages, Watch, Covered, TypeOK, StoreTypeOK, At, Receiver,
              Over, State, Ends, runnerVars, CallClosed, Steps
<1> QED BY <1>2, <1>3, <1>4, <1>5, Assemble

\* An exit is recorded of a worker that is gone, and nothing else is an exit.
LEMMA RecordEndKeeps ==
  ASSUME NEW d \in Dispatch, TypeOK, Everywhere, NoneForgotten, RecordEnd(d)
  PROVE  TypeOK' /\ Everywhere' /\ NoneForgotten'
<1>1. Here(d) /\ \A e \in Dispatch : Index(e)
  BY DEF Everywhere, NoneForgotten, Here
<1>2. StoreKept(d)
  BY <1>1, WritesKeep DEF RecordEnd, Writes
<1>3. TypeOK'
  <2>1. StoreTypeOK'
    BY <1>2 DEF RecordEnd, TypeOK, StoreTypeOK, StoreKept, Records, Holding, CallClosed,
       storeVars, State
  <2>2. launch' \in [Dispatch -> [step : LaunchSteps, lost : BOOLEAN]]
    BY DEF RecordEnd, Goes, TypeOK, LaunchSteps, runnerVars
  <2>3. recv' \in [Dispatch -> ReceiverSteps]
    BY DEF RecordEnd, Steps, TypeOK, ReceiverSteps, receiverVars
  <2>4. /\ pend' \subseteq Dispatch /\ orphans' \in [Dispatch -> {"none", "owed", "stopped"}]
        /\ told' \in [Dispatch -> [event : {"nothing", "running", "ended"}, group : BOOLEAN]]
        /\ run' \in [Dispatch -> {"none", "wrapped", "alive", "left", "gone"}]
        /\ misjudged' \subseteq Dispatch
    BY DEF RecordEnd, TypeOK, Becomes, runnerVars, receiverVars
  <2> QED BY <2>1, <2>2, <2>3, <2>4 DEF TypeOK, LaunchSteps, ReceiverSteps
<1>4. \A e \in Dispatch \ {d} : Same(e)
  BY <1>2 DEF RecordEnd, Same, StoreKept, TypeOK, StoreTypeOK, Steps, runnerVars
<1>5. Here(d)'
  <2>1. CASE Receiver(d, "exiting") /\ Exited(d)
    <3>1. State(d) = "running" /\ State(d)' = "exited" /\ record'[d].process = record[d].process
      BY <2>1, MovedSets DEF Exited
    <3> QED BY <1>1, <2>1, <3>1 DEF RecordEnd, Here, Stages, Watch, Covered, TypeOK,
                  StoreTypeOK, At, Receiver, Over, Ends, Steps, runnerVars
  <2>2. CASE Receiver(d, "abandoning") /\ Unknown(d, {"running"})
    <3>1. State(d) = "running" /\ State(d)' = "unknown" /\ record'[d].process = record[d].process
      BY <2>2, MovedSets DEF Unknown
    <3> QED BY <1>1, <2>2, <3>1 DEF RecordEnd, Here, Stages, Watch, Covered, TypeOK,
                  StoreTypeOK, At, Receiver, Over, Ends, Steps, runnerVars
  <2> QED BY <2>1, <2>2 DEF RecordEnd
<1> QED BY <1>2, <1>3, <1>4, <1>5, Assemble

\* The end is told once it is recorded.
LEMMA TellKeeps ==
  ASSUME NEW d \in Dispatch, TypeOK, Everywhere, NoneForgotten, Tell(d)
  PROVE  TypeOK' /\ Everywhere' /\ NoneForgotten'
<1>1. Here(d) /\ \A e \in Dispatch : Index(e)
  BY DEF Everywhere, NoneForgotten, Here
<1>2. StoreKept(d)
  BY <1>1, WritesKeep DEF Tell, Writes, storeVars
<1>3. TypeOK'
  <2>1. StoreTypeOK'
    BY <1>2 DEF Tell, TypeOK, StoreTypeOK, StoreKept, Records, Holding, CallClosed, storeVars,
       State
  <2>2. launch' \in [Dispatch -> [step : LaunchSteps, lost : BOOLEAN]]
    BY DEF Tell, Goes, TypeOK, LaunchSteps, runnerVars
  <2>3. recv' \in [Dispatch -> ReceiverSteps]
    BY DEF Tell, Steps, TypeOK, ReceiverSteps, receiverVars
  <2>4. /\ pend' \subseteq Dispatch /\ orphans' \in [Dispatch -> {"none", "owed", "stopped"}]
        /\ told' \in [Dispatch -> [event : {"nothing", "running", "ended"}, group : BOOLEAN]]
        /\ run' \in [Dispatch -> {"none", "wrapped", "alive", "left", "gone"}]
        /\ misjudged' \subseteq Dispatch
    BY DEF Tell, TypeOK, Becomes, runnerVars, receiverVars
  <2> QED BY <2>1, <2>2, <2>3, <2>4 DEF TypeOK, LaunchSteps, ReceiverSteps
<1>4. \A e \in Dispatch \ {d} : Same(e)
  BY <1>2 DEF Tell, Same, StoreKept, TypeOK, StoreTypeOK, Steps, runnerVars, storeVars
<1>5. Here(d)'
  BY <1>1 DEF Tell, Here, Stages, Watch, Covered, TypeOK, StoreTypeOK, At, Receiver, Over,
              State, Ends, runnerVars, PipeOpen, Steps, storeVars
<1> QED BY <1>2, <1>3, <1>4, <1>5, Assemble

\* A receiver may die after any step: the invariant speaks of what it left.
LEMMA ReceiverDiesKeeps ==
  ASSUME NEW d \in Dispatch, TypeOK, Everywhere, NoneForgotten, ReceiverDies(d)
  PROVE  TypeOK' /\ Everywhere' /\ NoneForgotten'
<1>1. Here(d) /\ \A e \in Dispatch : Index(e)
  BY DEF Everywhere, NoneForgotten, Here
<1>2. StoreKept(d)
  BY <1>1, WritesKeep DEF ReceiverDies, Writes, storeVars
<1>3. TypeOK'
  <2>1. StoreTypeOK'
    BY <1>2 DEF ReceiverDies, TypeOK, StoreTypeOK, StoreKept, Records, Holding, CallClosed,
       storeVars, State
  <2>2. launch' \in [Dispatch -> [step : LaunchSteps, lost : BOOLEAN]]
    BY DEF ReceiverDies, Goes, TypeOK, LaunchSteps, runnerVars
  <2>3. recv' \in [Dispatch -> ReceiverSteps]
    BY DEF ReceiverDies, Steps, TypeOK, ReceiverSteps, receiverVars
  <2>4. /\ pend' \subseteq Dispatch /\ orphans' \in [Dispatch -> {"none", "owed", "stopped"}]
        /\ told' \in [Dispatch -> [event : {"nothing", "running", "ended"}, group : BOOLEAN]]
        /\ run' \in [Dispatch -> {"none", "wrapped", "alive", "left", "gone"}]
        /\ misjudged' \subseteq Dispatch
    BY DEF ReceiverDies, TypeOK, Becomes, runnerVars, receiverVars
  <2> QED BY <2>1, <2>2, <2>3, <2>4 DEF TypeOK, LaunchSteps, ReceiverSteps
<1>4. \A e \in Dispatch \ {d} : Same(e)
  BY <1>2 DEF ReceiverDies, Same, StoreKept, TypeOK, StoreTypeOK, Steps, runnerVars,
              storeVars
<1>5. Here(d)'
  BY <1>1 DEF ReceiverDies, Here, Stages, Watch, Covered, TypeOK, StoreTypeOK, At, Receiver,
              Over, State, Ends, runnerVars, Steps, storeVars
<1> QED BY <1>2, <1>3, <1>4, <1>5, Assemble

\* A wrapper without its receiver ends.
LEMMA WrapperEndsKeeps ==
  ASSUME NEW d \in Dispatch, TypeOK, Everywhere, NoneForgotten, WrapperEnds(d)
  PROVE  TypeOK' /\ Everywhere' /\ NoneForgotten'
<1>1. Here(d) /\ \A e \in Dispatch : Index(e)
  BY DEF Everywhere, NoneForgotten, Here
<1>2. StoreKept(d)
  BY <1>1, WritesKeep DEF WrapperEnds, Writes, storeVars
<1>3. TypeOK'
  <2>1. StoreTypeOK'
    BY <1>2 DEF WrapperEnds, TypeOK, StoreTypeOK, StoreKept, Records, Holding, CallClosed,
       storeVars, State
  <2>2. launch' \in [Dispatch -> [step : LaunchSteps, lost : BOOLEAN]]
    BY DEF WrapperEnds, Goes, TypeOK, LaunchSteps, runnerVars
  <2>3. recv' \in [Dispatch -> ReceiverSteps]
    BY DEF WrapperEnds, Steps, TypeOK, ReceiverSteps, receiverVars
  <2>4. /\ pend' \subseteq Dispatch /\ orphans' \in [Dispatch -> {"none", "owed", "stopped"}]
        /\ told' \in [Dispatch -> [event : {"nothing", "running", "ended"}, group : BOOLEAN]]
        /\ run' \in [Dispatch -> {"none", "wrapped", "alive", "left", "gone"}]
        /\ misjudged' \subseteq Dispatch
    BY DEF WrapperEnds, TypeOK, Becomes, runnerVars, receiverVars
  <2> QED BY <2>1, <2>2, <2>3, <2>4 DEF TypeOK, LaunchSteps, ReceiverSteps
<1>4. \A e \in Dispatch \ {d} : Same(e)
  BY <1>2 DEF WrapperEnds, Same, StoreKept, TypeOK, StoreTypeOK, Becomes, runnerVars,
              storeVars
<1>5. Here(d)'
  BY <1>1 DEF WrapperEnds, Here, Stages, Watch, Covered, TypeOK, StoreTypeOK, At, Receiver,
              Over, State, Ends, runnerVars, Becomes, storeVars
<1> QED BY <1>2, <1>3, <1>4, <1>5, Assemble

\* A worker's own end empties and never fills.
LEMMA WorkerExitsKeeps ==
  ASSUME NEW d \in Dispatch, TypeOK, Everywhere, NoneForgotten, WorkerExits(d)
  PROVE  TypeOK' /\ Everywhere' /\ NoneForgotten'
<1>1. Here(d) /\ \A e \in Dispatch : Index(e)
  BY DEF Everywhere, NoneForgotten, Here
<1>2. StoreKept(d)
  BY <1>1, WritesKeep DEF WorkerExits, Writes, storeVars
<1>3. TypeOK'
  <2>1. StoreTypeOK'
    BY <1>2 DEF WorkerExits, TypeOK, StoreTypeOK, StoreKept, Records, Holding, CallClosed,
       storeVars, State
  <2>2. launch' \in [Dispatch -> [step : LaunchSteps, lost : BOOLEAN]]
    BY DEF WorkerExits, Goes, TypeOK, LaunchSteps, runnerVars
  <2>3. recv' \in [Dispatch -> ReceiverSteps]
    BY DEF WorkerExits, Steps, TypeOK, ReceiverSteps, receiverVars
  <2>4. /\ pend' \subseteq Dispatch /\ orphans' \in [Dispatch -> {"none", "owed", "stopped"}]
        /\ told' \in [Dispatch -> [event : {"nothing", "running", "ended"}, group : BOOLEAN]]
        /\ run' \in [Dispatch -> {"none", "wrapped", "alive", "left", "gone"}]
        /\ misjudged' \subseteq Dispatch
    BY DEF WorkerExits, TypeOK, Becomes, runnerVars, receiverVars
  <2> QED BY <2>1, <2>2, <2>3, <2>4 DEF TypeOK, LaunchSteps, ReceiverSteps
<1>4. \A e \in Dispatch \ {d} : Same(e)
  BY <1>2 DEF WorkerExits, Same, StoreKept, TypeOK, StoreTypeOK, Becomes, runnerVars,
              storeVars
<1>5. Here(d)'
  BY <1>1 DEF WorkerExits, Here, Stages, Watch, Covered, TypeOK, StoreTypeOK, At, Receiver,
              Over, State, Ends, runnerVars, Becomes, storeVars
<1> QED BY <1>2, <1>3, <1>4, <1>5, Assemble

\* A receiver is started for a prepared record only.
LEMMA SubmitKeeps ==
  ASSUME NEW d \in Dispatch, TypeOK, Everywhere, NoneForgotten, Submit(d)
  PROVE  TypeOK' /\ Everywhere' /\ NoneForgotten'
<1>1. Here(d) /\ \A e \in Dispatch : Index(e)
  BY DEF Everywhere, NoneForgotten, Here
<1>2. StoreKept(d)
  BY <1>1, WritesKeep DEF Submit, Writes, storeVars
<1>3. TypeOK'
  <2>1. StoreTypeOK'
    BY <1>2 DEF Submit, TypeOK, StoreTypeOK, StoreKept, Records, Holding, CallClosed, storeVars,
       State
  <2>2. launch' \in [Dispatch -> [step : LaunchSteps, lost : BOOLEAN]]
    BY DEF Submit, Goes, TypeOK, LaunchSteps, runnerVars
  <2>3. recv' \in [Dispatch -> ReceiverSteps]
    BY DEF Submit, Steps, TypeOK, ReceiverSteps, receiverVars
  <2>4. /\ pend' \subseteq Dispatch /\ orphans' \in [Dispatch -> {"none", "owed", "stopped"}]
        /\ told' \in [Dispatch -> [event : {"nothing", "running", "ended"}, group : BOOLEAN]]
        /\ run' \in [Dispatch -> {"none", "wrapped", "alive", "left", "gone"}]
        /\ misjudged' \subseteq Dispatch
    BY DEF Submit, TypeOK, Becomes, runnerVars, receiverVars
  <2> QED BY <2>1, <2>2, <2>3, <2>4 DEF TypeOK, LaunchSteps, ReceiverSteps
<1>4. \A e \in Dispatch \ {d} : Same(e)
  BY <1>2 DEF Submit, Same, StoreKept, TypeOK, StoreTypeOK, Goes, Steps, storeVars
<1>5. Here(d)'
  <2>1. CASE Steps(d, "started") /\ Goes(d, "starting")
    BY <1>1, <2>1 DEF Submit, Here, Stages, Watch, Covered, TypeOK, StoreTypeOK, At,
           Receiver, Over, Ends, Steps, Goes, storeVars, State
  <2>2. CASE Steps(d, "ended") /\ Goes(d, "silent")
    BY <1>1, <2>2 DEF Submit, Here, Stages, Watch, Covered, TypeOK, StoreTypeOK, At,
           Receiver, Over, Ends, Steps, Goes, storeVars, State
  <2> QED BY <2>1, <2>2 DEF Submit
<1> QED BY <1>2, <1>3, <1>4, <1>5, Assemble

\* A report finds the record it follows.
LEMMA HearsKeeps ==
  ASSUME NEW d \in Dispatch, TypeOK, Everywhere, NoneForgotten, Hears(d)
  PROVE  TypeOK' /\ Everywhere' /\ NoneForgotten'
<1>1. Here(d) /\ \A e \in Dispatch : Index(e)
  BY DEF Everywhere, NoneForgotten, Here
<1>2. StoreKept(d)
  BY <1>1, WritesKeep DEF Hears, Writes, storeVars
<1>3. TypeOK'
  <2>1. StoreTypeOK'
    BY <1>2 DEF Hears, TypeOK, StoreTypeOK, StoreKept, Records, Holding, CallClosed, storeVars,
       State
  <2>2. launch' \in [Dispatch -> [step : LaunchSteps, lost : BOOLEAN]]
    <3>1. \E s \in LaunchSteps : Goes(d, s)
      BY DEF Hears, LaunchSteps
    <3> QED BY <3>1 DEF Goes, TypeOK, LaunchSteps
  <2>3. recv' \in [Dispatch -> ReceiverSteps]
    BY DEF Hears, Steps, TypeOK, ReceiverSteps, receiverVars
  <2>4. /\ pend' \subseteq Dispatch /\ orphans' \in [Dispatch -> {"none", "owed", "stopped"}]
        /\ told' \in [Dispatch -> [event : {"nothing", "running", "ended"}, group : BOOLEAN]]
        /\ run' \in [Dispatch -> {"none", "wrapped", "alive", "left", "gone"}]
        /\ misjudged' \subseteq Dispatch
    BY DEF Hears, TypeOK, Becomes, runnerVars, receiverVars
  <2> QED BY <2>1, <2>2, <2>3, <2>4 DEF TypeOK, LaunchSteps, ReceiverSteps
<1>4. \A e \in Dispatch \ {d} : Same(e)
  BY <1>2 DEF Hears, Same, StoreKept, TypeOK, StoreTypeOK, Goes, Steps, storeVars
<1>5. Here(d)'
  <2>1. CASE State(d) = "running" /\ Goes(d, "watched") /\ UNCHANGED recv
    BY <1>1, <2>1 DEF Hears, Here, Stages, Watch, Covered, TypeOK, StoreTypeOK, At,
           Receiver, Over, Ends, Goes, storeVars, State
  <2>2. CASE State(d) = "refused" /\ Goes(d, "cancelling") /\ Steps(d, "ended")
    BY <1>1, <2>2 DEF Hears, Here, Stages, Watch, Covered, TypeOK, StoreTypeOK, At,
           Receiver, Over, Ends, Steps, Goes, storeVars, State
  <2>3. CASE State(d) \notin {"running", "refused"} /\ Goes(d, "closing") /\ Steps(d, "ended")
    BY <1>1, <2>3 DEF Hears, Here, Stages, Watch, Covered, TypeOK, StoreTypeOK, At,
           Receiver, Over, Ends, Steps, Goes, storeVars, State
  <2> QED BY <2>1, <2>2, <2>3 DEF Hears
<1> QED BY <1>2, <1>3, <1>4, <1>5, Assemble

\* The Runner gives up with its receiver killed.
LEMMA GivesUpKeeps ==
  ASSUME NEW d \in Dispatch, TypeOK, Everywhere, NoneForgotten, GivesUp(d)
  PROVE  TypeOK' /\ Everywhere' /\ NoneForgotten'
<1>1. Here(d) /\ \A e \in Dispatch : Index(e)
  BY DEF Everywhere, NoneForgotten, Here
<1>2. StoreKept(d)
  BY <1>1, WritesKeep DEF GivesUp, Writes, storeVars
<1>3. TypeOK'
  <2>1. StoreTypeOK'
    BY <1>2 DEF GivesUp, TypeOK, StoreTypeOK, StoreKept, Records, Holding, CallClosed,
       storeVars, State
  <2>2. launch' \in [Dispatch -> [step : LaunchSteps, lost : BOOLEAN]]
    BY DEF GivesUp, Goes, TypeOK, LaunchSteps, runnerVars
  <2>3. recv' \in [Dispatch -> ReceiverSteps]
    BY DEF GivesUp, Steps, TypeOK, ReceiverSteps, receiverVars
  <2>4. /\ pend' \subseteq Dispatch /\ orphans' \in [Dispatch -> {"none", "owed", "stopped"}]
        /\ told' \in [Dispatch -> [event : {"nothing", "running", "ended"}, group : BOOLEAN]]
        /\ run' \in [Dispatch -> {"none", "wrapped", "alive", "left", "gone"}]
        /\ misjudged' \subseteq Dispatch
    BY DEF GivesUp, TypeOK, Becomes, runnerVars, receiverVars
  <2> QED BY <2>1, <2>2, <2>3, <2>4 DEF TypeOK, LaunchSteps, ReceiverSteps
<1>4. \A e \in Dispatch \ {d} : Same(e)
  BY <1>2 DEF GivesUp, Same, StoreKept, TypeOK, StoreTypeOK, Goes, Steps, storeVars
<1>5. Here(d)'
  BY <1>1 DEF GivesUp, Here, Stages, Watch, Covered, TypeOK, StoreTypeOK, At, Receiver,
              Over, State, Ends, Goes, Steps, storeVars
<1> QED BY <1>2, <1>3, <1>4, <1>5, Assemble

\* A lost answer is settled from the record, of a receiver that has ended.
LEMMA SettleLostKeeps ==
  ASSUME NEW d \in Dispatch, TypeOK, Everywhere, NoneForgotten, SettleLost(d)
  PROVE  TypeOK' /\ Everywhere' /\ NoneForgotten'
<1>1. Here(d) /\ \A e \in Dispatch : Index(e)
  BY DEF Everywhere, NoneForgotten, Here
<1>2. StoreKept(d)
  BY <1>1, WritesKeep DEF SettleLost, Writes
<1>3. TypeOK'
  <2>1. StoreTypeOK'
    BY <1>2 DEF SettleLost, TypeOK, StoreTypeOK, StoreKept, Records, Holding, CallClosed,
       storeVars, State
  <2>2. launch' \in [Dispatch -> [step : LaunchSteps, lost : BOOLEAN]]
    <3>1. \E s \in LaunchSteps : Goes(d, s)
      BY DEF SettleLost, LaunchSteps
    <3> QED BY <3>1 DEF Goes, TypeOK, LaunchSteps
  <2>3. recv' \in [Dispatch -> ReceiverSteps]
    BY DEF SettleLost, Steps, TypeOK, ReceiverSteps, receiverVars
  <2>4. /\ pend' \subseteq Dispatch /\ orphans' \in [Dispatch -> {"none", "owed", "stopped"}]
        /\ told' \in [Dispatch -> [event : {"nothing", "running", "ended"}, group : BOOLEAN]]
        /\ run' \in [Dispatch -> {"none", "wrapped", "alive", "left", "gone"}]
        /\ misjudged' \subseteq Dispatch
    BY DEF SettleLost, TypeOK, Becomes, runnerVars, receiverVars
  <2> QED BY <2>1, <2>2, <2>3, <2>4 DEF TypeOK, LaunchSteps, ReceiverSteps
<1>4. \A e \in Dispatch \ {d} : Same(e)
  BY <1>2 DEF SettleLost, Same, StoreKept, TypeOK, StoreTypeOK, Goes, receiverVars
<1>5. Here(d)'
  <2>0. launch'[d].lost = launch[d].lost /\ State(d) # "none"
    BY <1>1 DEF SettleLost, Goes, TypeOK, Here, Stages, Watch, At, Receiver
  <2>1. CASE Refused(d, {"prepared"}) /\ Goes(d, "cancelling")
    <3>1. State(d) = "prepared" /\ State(d)' = "refused" /\ record'[d].process = record[d].process
      BY <2>1, MovedSets DEF Refused
    <3>2. launch'[d].step = "cancelling"
      BY <2>1 DEF Goes, TypeOK
    <3> QED BY <1>1, <2>0, <3>1, <3>2 DEF SettleLost, Here, Stages, Watch, Covered, At,
            Receiver, Over, Ends, receiverVars
  <2>2. CASE Unknown(d, {"accepted"}) /\ Goes(d, "closing")
    <3>1. State(d) = "accepted" /\ State(d)' = "unknown" /\ record'[d].process = record[d].process
      BY <2>2, MovedSets DEF Unknown
    <3>2. launch'[d].step = "closing"
      BY <2>2 DEF Goes, TypeOK
    <3> QED BY <1>1, <2>0, <3>1, <3>2 DEF SettleLost, Here, Stages, Watch, Covered, At,
            Receiver, Over, Ends, receiverVars
  <2>3. CASE /\ State(d) \notin {"prepared", "accepted"}
             /\ Goes(d, CASE State(d) = "running" -> "watched"
                          [] State(d) = "refused" -> "cancelling"
                          [] OTHER -> "closing")
             /\ UNCHANGED <<record, holder>>
    <3>1. State(d) \in {"running", "refused", "exited", "unknown"}
      BY <2>0, <2>3 DEF TypeOK, StoreTypeOK, State, Holding
    <3>2. launch'[d].step = CASE State(d) = "running" -> "watched"
                             [] State(d) = "refused" -> "cancelling"
                             [] OTHER -> "closing"
      BY <2>3 DEF Goes, TypeOK
    <3> QED BY <1>1, <2>0, <2>3, <3>1, <3>2 DEF SettleLost, Here, Stages, Watch, Covered, At,
            Receiver, Over, State, Ends, receiverVars
  <2> QED BY <2>1, <2>2, <2>3 DEF SettleLost
<1> QED BY <1>2, <1>3, <1>4, <1>5, Assemble

\* The end of the pipe is the end of the receiver.
LEMMA SeesEndKeeps ==
  ASSUME NEW d \in Dispatch, TypeOK, Everywhere, NoneForgotten, SeesEnd(d)
  PROVE  TypeOK' /\ Everywhere' /\ NoneForgotten'
<1>1. Here(d) /\ \A e \in Dispatch : Index(e)
  BY DEF Everywhere, NoneForgotten, Here
<1>2. StoreKept(d)
  BY <1>1, WritesKeep DEF SeesEnd, Writes, storeVars
<1>3. TypeOK'
  <2>1. StoreTypeOK'
    BY <1>2 DEF SeesEnd, TypeOK, StoreTypeOK, StoreKept, Records, Holding, CallClosed,
       storeVars, State
  <2>2. launch' \in [Dispatch -> [step : LaunchSteps, lost : BOOLEAN]]
    BY DEF SeesEnd, Goes, TypeOK, LaunchSteps, runnerVars
  <2>3. recv' \in [Dispatch -> ReceiverSteps]
    BY DEF SeesEnd, Steps, TypeOK, ReceiverSteps, receiverVars
  <2>4. /\ pend' \subseteq Dispatch /\ orphans' \in [Dispatch -> {"none", "owed", "stopped"}]
        /\ told' \in [Dispatch -> [event : {"nothing", "running", "ended"}, group : BOOLEAN]]
        /\ run' \in [Dispatch -> {"none", "wrapped", "alive", "left", "gone"}]
        /\ misjudged' \subseteq Dispatch
    BY DEF SeesEnd, TypeOK, Becomes, runnerVars, receiverVars
  <2> QED BY <2>1, <2>2, <2>3, <2>4 DEF TypeOK, LaunchSteps, ReceiverSteps
<1>4. \A e \in Dispatch \ {d} : Same(e)
  BY <1>2 DEF SeesEnd, Same, StoreKept, TypeOK, StoreTypeOK, Steps, storeVars
<1>5. Here(d)'
  BY <1>1 DEF SeesEnd, Here, Stages, Watch, Covered, TypeOK, StoreTypeOK, At, Receiver,
              Over, State, Ends, Steps, storeVars
<1> QED BY <1>2, <1>3, <1>4, <1>5, Assemble

\* A run that is still recorded running when its receiver ended is unknown.
LEMMA CloseRecordKeeps ==
  ASSUME NEW d \in Dispatch, TypeOK, Everywhere, NoneForgotten, CloseRecord(d)
  PROVE  TypeOK' /\ Everywhere' /\ NoneForgotten'
<1>1. Here(d) /\ \A e \in Dispatch : Index(e)
  BY DEF Everywhere, NoneForgotten, Here
<1>2. StoreKept(d)
  BY <1>1, WritesKeep DEF CloseRecord, Writes
<1>3. TypeOK'
  <2>1. StoreTypeOK'
    BY <1>2 DEF CloseRecord, TypeOK, StoreTypeOK, StoreKept, Records, Holding, CallClosed,
       storeVars, State
  <2>2. launch' \in [Dispatch -> [step : LaunchSteps, lost : BOOLEAN]]
    BY DEF CloseRecord, Goes, TypeOK, LaunchSteps, runnerVars
  <2>3. recv' \in [Dispatch -> ReceiverSteps]
    BY DEF CloseRecord, Steps, TypeOK, ReceiverSteps, receiverVars
  <2>4. /\ pend' \subseteq Dispatch /\ orphans' \in [Dispatch -> {"none", "owed", "stopped"}]
        /\ told' \in [Dispatch -> [event : {"nothing", "running", "ended"}, group : BOOLEAN]]
        /\ run' \in [Dispatch -> {"none", "wrapped", "alive", "left", "gone"}]
        /\ misjudged' \subseteq Dispatch
    BY DEF CloseRecord, TypeOK, Becomes, runnerVars, receiverVars
  <2> QED BY <2>1, <2>2, <2>3, <2>4 DEF TypeOK, LaunchSteps, ReceiverSteps
<1>4. \A e \in Dispatch \ {d} : Same(e)
  BY <1>2 DEF CloseRecord, Same, StoreKept, TypeOK, StoreTypeOK, Goes, Steps
<1>5. Here(d)'
  <2>1. CASE State(d) = "running" /\ Unknown(d, {"running"})
    <3>1. State(d)' = "unknown" /\ record'[d].process = record[d].process
      BY <2>1, MovedSets DEF Unknown
    <3> QED BY <1>1, <2>1, <3>1 DEF CloseRecord, Here, Stages, Watch, Covered, TypeOK,
                  StoreTypeOK, At, Receiver, Over, Ends, Steps, Goes
  <2>2. CASE State(d) # "running" /\ UNCHANGED <<record, holder>>
    BY <1>1, <2>2 DEF CloseRecord, Here, Stages, Watch, Covered, TypeOK, StoreTypeOK, At,
           Receiver, Over, Ends, Steps, Goes, State
  <2> QED BY <2>1, <2>2 DEF CloseRecord
<1> QED BY <1>2, <1>3, <1>4, <1>5, Assemble

\* A stop kills the group or the process of a run of unknown outcome.
LEMMA StopOrphanKeeps ==
  ASSUME NEW d \in Dispatch, TypeOK, Everywhere, NoneForgotten, StopOrphan(d)
  PROVE  TypeOK' /\ Everywhere' /\ NoneForgotten'
<1>1. Here(d) /\ \A e \in Dispatch : Index(e)
  BY DEF Everywhere, NoneForgotten, Here
<1>2. StoreKept(d)
  BY <1>1, WritesKeep DEF StopOrphan, Writes, storeVars
<1>3. TypeOK'
  <2>1. StoreTypeOK'
    BY <1>2 DEF StopOrphan, TypeOK, StoreTypeOK, StoreKept, Records, Holding, CallClosed,
       storeVars, State
  <2>2. launch' \in [Dispatch -> [step : LaunchSteps, lost : BOOLEAN]]
    BY DEF StopOrphan, Goes, TypeOK, LaunchSteps, runnerVars
  <2>3. recv' \in [Dispatch -> ReceiverSteps]
    BY DEF StopOrphan, Steps, TypeOK, ReceiverSteps, receiverVars
  <2>4. /\ pend' \subseteq Dispatch /\ orphans' \in [Dispatch -> {"none", "owed", "stopped"}]
        /\ told' \in [Dispatch -> [event : {"nothing", "running", "ended"}, group : BOOLEAN]]
    BY DEF StopOrphan, TypeOK
  <2>5. /\ run' \in [Dispatch -> {"none", "wrapped", "alive", "left", "gone"}]
        /\ misjudged' \subseteq Dispatch
    <3>1. run[d] \in {"none", "wrapped", "alive", "left", "gone"}
      BY DEF TypeOK
    <3>2. \/ UNCHANGED <<run, misjudged>>
          \/ \E s \in {"none", "wrapped", "alive", "left", "gone"} : Becomes(d, s)
      BY <3>1 DEF StopOrphan
    <3> QED BY <3>2 DEF Becomes, TypeOK
  <2> QED BY <2>1, <2>2, <2>3, <2>4, <2>5 DEF TypeOK, LaunchSteps, ReceiverSteps
<1>4. \A e \in Dispatch \ {d} : Same(e)
  BY <1>2 DEF StopOrphan, Same, StoreKept, TypeOK, StoreTypeOK, Becomes, storeVars
<1>5. Here(d)'
  <2>1. CASE Becomes(d, IF Over(d) THEN run[d] ELSE "gone")
    <3>1. run'[d] = IF Over(d) THEN run[d] ELSE "gone"
      BY <2>1, TRUE DEF Becomes, TypeOK
    <3>2. orphans'[d] = "stopped" /\ record[d].process
      BY <1>1 DEF StopOrphan, Here, Watch, TypeOK
    <3>3. CASE Over(d)
      BY <1>1, <3>1, <3>2, <3>3 DEF StopOrphan, Here, Stages, Watch, Covered, At, Receiver,
         State,
         Over, Ends, storeVars
    <3>4. CASE ~Over(d)
      BY <1>1, <3>1, <3>2, <3>4 DEF StopOrphan, Here, Stages, Watch, Covered, At, Receiver,
         State,
         Over, Ends, storeVars
    <3> QED BY <3>3, <3>4
  <2>2. CASE run[d] = "alive" /\ \E s \in {"left", "gone"} : Becomes(d, s)
    BY <1>1, <2>2 DEF StopOrphan, Here, Stages, Watch, Covered, TypeOK, StoreTypeOK, At,
           Receiver, Over, Ends, Becomes, storeVars, State
  <2>3. CASE UNCHANGED <<run, misjudged>>
    BY <1>1, <2>3 DEF StopOrphan, Here, Stages, Watch, Covered, TypeOK, StoreTypeOK, At,
           Receiver, Over, Ends, storeVars, State
  <2> QED BY <2>1, <2>2, <2>3 DEF StopOrphan
<1> QED BY <1>2, <1>3, <1>4, <1>5, Assemble

\* A new record takes the index of its unit, which no holding record had.
LEMMA PreparedKeeps ==
  ASSUME NEW d \in Dispatch, NEW u \in Unit, TypeOK, \A e \in Dispatch : Index(e), Prepared(d, u)
  PROVE  /\ StoreKept(d)
         /\ State(d)' = "prepared" /\ ~record'[d].process /\ slot[d].state = "held"
<1> DEFINE new == [NoRecord EXCEPT !.state = "prepared", !.unit = u]
<1>1. /\ record' = [record EXCEPT ![d] = new] /\ holder' = [holder EXCEPT ![u] = d]
      /\ slot[d].state = "held"
  BY DEF Prepared
<1>0. /\ new \in [state : {"prepared"}, unit : Unit, process : BOOLEAN]
      /\ new.state = "prepared" /\ new.unit = u /\ ~new.process
  BY DEF NoRecord
<1>2. record \in Records /\ holder \in [Unit -> Dispatch \cup {NoDispatch}]
  BY DEF TypeOK, StoreTypeOK, Records
<1>3. /\ record' \in Records /\ holder' \in [Unit -> Dispatch \cup {NoDispatch}]
      /\ record'[d] = new
      /\ \A e \in Dispatch \ {d} : record'[e] = record[e]
  <2> HIDE DEF new
  <2> QED BY <1>0, <1>1, <1>2 DEF Records, Holding
<1>4. \A e \in Dispatch : record'[e].state # "none" => record'[e].unit \in Unit
  <2> HIDE DEF new
  <2> QED BY <1>0, <1>3 DEF TypeOK, StoreTypeOK, State
<1>5. ASSUME NEW e \in Dispatch, record'[e].state \in Holding
      PROVE  holder'[record'[e].unit] = e
  <2>1. CASE e = d
    BY <2>1, <1>0, <1>1, <1>2, <1>3
  <2>2. CASE e # d
    <3>1. record[e].state \in Holding /\ record[e].unit \in Unit /\ holder[record[e].unit] = e
      BY <2>2, <1>3, <1>5 DEF Index, State, TypeOK, StoreTypeOK, Holding
    <3>2. record[e].unit # u
      BY <3>1, DispatchesAssumption DEF Prepared, Held, State
    <3> QED BY <2>2, <3>1, <3>2, <1>1, <1>2, <1>3
  <2> QED BY <2>1, <2>2
<1> QED BY <1>0, <1>1, <1>3, <1>4, <1>5 DEF StoreKept, Index, State

\* A prepared record has a slot; a preparation that failed has none to run.
LEMMA PrepareKeeps ==
  ASSUME NEW d \in Dispatch, NEW u \in Unit, TypeOK, Everywhere, NoneForgotten, Prepare(d, u)
  PROVE  TypeOK' /\ Everywhere' /\ NoneForgotten'
<1>1. Here(d) /\ \A e \in Dispatch : Index(e)
  BY DEF Everywhere, NoneForgotten, Here
<1>2. StoreKept(d)
  BY <1>1, PreparedKeeps, WritesKeep DEF Prepare, Writes
<1>3. TypeOK'
  <2>1. StoreTypeOK'
    BY <1>2 DEF Prepare, TypeOK, StoreTypeOK, StoreKept, Records, State
  <2>2. launch' \in [Dispatch -> [step : LaunchSteps, lost : BOOLEAN]]
    BY DEF Prepare, Goes, TypeOK, LaunchSteps
  <2> QED BY <2>1, <2>2 DEF Prepare, TypeOK, LaunchSteps, receiverVars
<1>4. \A e \in Dispatch \ {d} : Same(e)
  BY <1>2 DEF Prepare, Same, StoreKept, TypeOK, StoreTypeOK, Goes, receiverVars
<1>5. Here(d)'
  <2>1. CASE Prepared(d, u) /\ Goes(d, "prepared")
    <3>1. State(d)' = "prepared" /\ ~record'[d].process /\ slot[d].state = "held"
      BY <1>1, <2>1, PreparedKeeps
    <3>2. launch'[d].step = "prepared" /\ launch'[d].lost = launch[d].lost
      BY <2>1 DEF Goes, TypeOK
    <3>3. At(d, "reserved") /\ State(d) = "none" /\ ~launch[d].lost /\ orphans[d] = "none"
      BY <1>1, <2>1 DEF Prepare, Prepared, Here, Watch, Stages, TypeOK
    <3> QED BY <1>1, <2>1, <3>1, <3>2, <3>3 DEF Prepare, Here, Stages, Watch, Covered,
               At, Receiver, Over, Ends, receiverVars
  <2>2. CASE Goes(d, "cancelling") /\ UNCHANGED <<record, holder>>
    BY <1>1, <2>2 DEF Prepare, Here, Stages, Watch, Covered, TypeOK, StoreTypeOK,
               At, Goes, Receiver, Over, State, Ends, receiverVars
  <2> QED BY <2>1, <2>2 DEF Prepare
<1> QED BY <1>2, <1>3, <1>4, <1>5, Assemble

\* Retiring a set of slots changes nothing else of them, and nothing of the others.
LEMMA RetireDoes ==
  ASSUME TypeOK, NEW R \in SUBSET Dispatch
  PROVE  /\ Retire(R) \in Slots
         /\ \A e \in R : Retire(R)[e] = [slot[e] EXCEPT !.state = "retired"]
         /\ \A e \in Dispatch \ R : Retire(R)[e] = slot[e]
<1>1. slot \in Slots
  BY DEF TypeOK, StoreTypeOK, Slots
<1> QED BY <1>1 DEF Retire, Slots

\* A late report settles a call; of the slots it can retire only the one that waited.
LEMMA LateReportKeeps ==
  ASSUME NEW d \in Dispatch, TypeOK, Everywhere, NoneForgotten, LateReport(d)
  PROVE  TypeOK' /\ Everywhere' /\ NoneForgotten'
<1>1. Here(d) /\ \A e \in Dispatch : Index(e)
  BY DEF Everywhere, NoneForgotten, Here
<1>2. StoreKept(d)
  BY <1>1, WritesKeep DEF LateReport, Writes
<1>3. calls' = [calls EXCEPT ![d] = "closed"]
  BY DEF LateReport, CallClosed, TypeOK, StoreTypeOK
<1>4. \/ /\ d \in pend /\ OutcomeKnown(d) /\ pend' = pend \ {d} /\ slot' \in Slots
         /\ slot'[d] = [slot[d] EXCEPT !.state = "retired"]
         /\ \A e \in Dispatch \ {d} : slot'[e] = slot[e]
      \/ UNCHANGED <<slot, pend>>
  BY RetireDoes DEF LateReport
<1>5. TypeOK'
  <2>1. StoreTypeOK'
    BY <1>2, <1>3, <1>4 DEF TypeOK, StoreTypeOK, StoreKept, Records, Slots, State
  <2> QED BY <2>1, <1>4 DEF LateReport, TypeOK, receiverVars
<1>6. \A e \in Dispatch \ {d} : Same(e)
  BY <1>2, <1>3, <1>4 DEF LateReport, Same, StoreKept, TypeOK, StoreTypeOK, receiverVars
<1>7. Here(d)'
  <2>1. calls'[d] # "pending"
    BY <1>3 DEF TypeOK, StoreTypeOK
  <2>2. CASE UNCHANGED <<slot, pend>>
    BY <1>1, <2>1, <2>2 DEF LateReport, Here, Stages, Watch, Covered, At, Receiver, Over, State,
       Ends, receiverVars
  <2>3. CASE /\ d \in pend /\ OutcomeKnown(d) /\ pend' = pend \ {d} /\ slot' \in Slots
             /\ slot'[d] = [slot[d] EXCEPT !.state = "retired"]
    <3>1. slot'[d].state = "retired" /\ d \notin pend'
      BY <2>3 DEF TypeOK, StoreTypeOK
    <3>2. State(d) \in {"none", "exited", "refused"} /\ launch[d].step \in {"closing", "closed", "done"}
      BY <1>1, <2>3 DEF Here, Watch, OutcomeKnown, Ends
    <3> QED BY <1>1, <2>1, <3>1, <3>2 DEF LateReport, Here, Stages, Watch, Covered, At,
            Receiver,
               Over, State, Ends, receiverVars
  <2> QED BY <1>4, <2>2, <2>3
<1> QED BY <1>2, <1>5, <1>6, <1>7, Assemble

\* An account slot is released of a worker that no longer lives.
LEMMA ReleaseOrphanKeeps ==
  ASSUME NEW d \in Dispatch, TypeOK, Everywhere, NoneForgotten, ReleaseOrphan(d)
  PROVE  TypeOK' /\ Everywhere' /\ NoneForgotten'
<1>1. Here(d) /\ \A e \in Dispatch : Index(e)
  BY DEF Everywhere, NoneForgotten, Here
<1>2. StoreKept(d)
  BY <1>1, WritesKeep DEF ReleaseOrphan, Writes
<1>3. slot' = [slot EXCEPT ![d].state = "released"] /\ orphans' = [orphans EXCEPT ![d] = "none"]
  BY DEF ReleaseOrphan, ReleaseAccount
<1>4. slot' \in Slots /\ slot'[d].state = "released" /\ \A e \in Dispatch \ {d} : slot'[e] = slot[e]
  BY <1>3 DEF TypeOK, StoreTypeOK, Slots
<1>5. TypeOK'
  <2>1. StoreTypeOK'
    BY <1>2, <1>4 DEF ReleaseOrphan, TypeOK, StoreTypeOK, StoreKept, Records, Slots, State
  <2> QED BY <2>1, <1>3 DEF ReleaseOrphan, TypeOK, receiverVars
<1>6. \A e \in Dispatch \ {d} : Same(e)
  BY <1>2, <1>3, <1>4 DEF ReleaseOrphan, Same, StoreKept, TypeOK, receiverVars
<1>7. Here(d)'
  <2>1. State(d) = "unknown" /\ run[d] # "alive" /\ orphans'[d] = "none"
    BY <1>1, <1>3 DEF ReleaseOrphan, Here, Watch, Terminated, TypeOK
  <2> QED BY <1>1, <1>4, <2>1 DEF ReleaseOrphan, Here, Stages, Watch, Covered, At, Receiver,
             Over, State, Ends, receiverVars
<1> QED BY <1>2, <1>5, <1>6, <1>7, Assemble

\* Attempts retire closed members of A and keep the others pending: the frame of
\* the dispatches other than d, and what becomes of d.
LEMMA AttemptsDo ==
  ASSUME NEW d \in Dispatch, TypeOK, NEW A \in {pend, pend \cup {d}}, Attempts(A)
  PROVE  /\ slot' \in Slots /\ pend' \subseteq Dispatch
         /\ \A e \in Dispatch \ {d} :
              \/ slot'[e] = slot[e] /\ (e \in pend' <=> e \in pend)
              \/ /\ e \in pend /\ Closed(e) /\ e \notin pend'
                 /\ slot'[e] = [slot[e] EXCEPT !.state = "retired"]
         /\ \/ slot'[d] = slot[d] /\ (d \in pend' <=> d \in A)
            \/ d \in A /\ Closed(d) /\ slot'[d].state = "retired" /\ d \notin pend'
<1>1. PICK R \in SUBSET {x \in A : Closed(x)} : slot' = Retire(R) /\ pend' = A \ R
  BY DEF Attempts, HeldOn
<1>2. A \subseteq Dispatch /\ R \in SUBSET Dispatch
  BY <1>1 DEF TypeOK
<1>3. /\ slot' \in Slots
      /\ \A e \in R : slot'[e] = [slot[e] EXCEPT !.state = "retired"]
      /\ \A e \in Dispatch \ R : slot'[e] = slot[e]
  BY <1>1, <1>2, RetireDoes
<1>4. \A e \in R : slot'[e].state = "retired"
  <2>1. slot \in Slots
    BY DEF TypeOK, StoreTypeOK, Slots
  <2> QED BY <1>2, <1>3, <2>1 DEF Slots
<1> QED BY <1>1, <1>2, <1>3, <1>4

\* A launch that never ran is retired or pending.
LEMMA CancelKeeps ==
  ASSUME NEW d \in Dispatch, TypeOK, Everywhere, NoneForgotten, Cancel(d)
  PROVE  TypeOK' /\ Everywhere' /\ NoneForgotten'
<1>1. Here(d) /\ \A e \in Dispatch : Index(e)
  BY DEF Everywhere, NoneForgotten, Here
<1>2. StoreKept(d)
  BY <1>1, WritesKeep DEF Cancel, Writes
<1>3. /\ slot' \in Slots /\ pend' \subseteq Dispatch
      /\ \A e \in Dispatch \ {d} :
           \/ slot'[e] = slot[e] /\ (e \in pend' <=> e \in pend)
           \/ /\ e \in pend /\ Closed(e) /\ e \notin pend'
              /\ slot'[e] = [slot[e] EXCEPT !.state = "retired"]
      /\ \/ slot'[d] = slot[d] /\ d \in pend'
         \/ Closed(d) /\ slot'[d].state = "retired" /\ d \notin pend'
  BY AttemptsDo DEF Cancel
<1>4. TypeOK'
  <2>1. StoreTypeOK'
    BY <1>2, <1>3 DEF Cancel, TypeOK, StoreTypeOK, StoreKept, Records, Slots, State
  <2>2. launch' \in [Dispatch -> [step : LaunchSteps, lost : BOOLEAN]]
    BY DEF Cancel, Goes, TypeOK, LaunchSteps
  <2> QED BY <2>1, <2>2, <1>3 DEF Cancel, TypeOK, LaunchSteps, receiverVars
<1>5. \A e \in Dispatch \ {d} : Same(e)
  BY <1>2, <1>3 DEF Cancel, Same, StoreKept, Goes, TypeOK, receiverVars
<1>6. Here(d)'
  <2>1. State(d) \in {"none", "refused"}
    BY <1>1 DEF Cancel, Here, Watch
  <2>2. launch'[d].lost = launch[d].lost
        /\ launch'[d].step = IF State(d) = "none" THEN "done" ELSE "closing"
    BY DEF Cancel, Goes, TypeOK
  <2>3. CASE slot'[d] = slot[d] /\ d \in pend'
    BY <1>1, <2>1, <2>2, <2>3 DEF Cancel, Here, Stages, Watch, Covered, At, Receiver, Over,
       State,
       Ends, receiverVars
  <2>4. CASE Closed(d) /\ slot'[d].state = "retired" /\ d \notin pend'
    BY <1>1, <2>1, <2>2, <2>4 DEF Cancel, Here, Stages, Watch, Covered, Closed, Accounted, At,
       Receiver, Over, State, Ends, receiverVars
  <2> QED BY <1>3, <2>3, <2>4
<1> QED BY <1>2, <1>4, <1>5, <1>6, Assemble

\* A launch that ended is retired or pending, and may leave an orphan.
LEMMA CloseKeeps ==
  ASSUME NEW d \in Dispatch, TypeOK, Everywhere, NoneForgotten, Close(d)
  PROVE  TypeOK' /\ Everywhere' /\ NoneForgotten'
<1>1. Here(d) /\ \A e \in Dispatch : Index(e)
  BY DEF Everywhere, NoneForgotten, Here
<1>2. StoreKept(d)
  BY <1>1, WritesKeep DEF Close, Writes
<1> DEFINE A == IF State(d) \in {"exited", "unknown"} THEN pend \cup {d} ELSE pend
<1>3. /\ slot' \in Slots /\ pend' \subseteq Dispatch
      /\ \A e \in Dispatch \ {d} :
           \/ slot'[e] = slot[e] /\ (e \in pend' <=> e \in pend)
           \/ /\ e \in pend /\ Closed(e) /\ e \notin pend'
              /\ slot'[e] = [slot[e] EXCEPT !.state = "retired"]
      /\ \/ slot'[d] = slot[d] /\ (d \in pend' <=> d \in A)
         \/ d \in A /\ Closed(d) /\ slot'[d].state = "retired" /\ d \notin pend'
  <2>1. Attempts(A) /\ A \in {pend, pend \cup {d}}
    BY DEF Close
  <2> HIDE DEF A
  <2> QED BY <2>1, AttemptsDo
<1>4. TypeOK'
  <2>1. StoreTypeOK'
    BY <1>2, <1>3 DEF Close, TypeOK, StoreTypeOK, StoreKept, Records, Slots, State
  <2>2. launch' \in [Dispatch -> [step : LaunchSteps, lost : BOOLEAN]]
    BY DEF Close, Goes, TypeOK, LaunchSteps
  <2>3. orphans' \in [Dispatch -> {"none", "owed", "stopped"}]
    BY DEF Close, TypeOK
  <2> QED BY <2>1, <2>2, <2>3, <1>3 DEF Close, TypeOK, LaunchSteps, receiverVars
<1>5. \A e \in Dispatch \ {d} : Same(e)
  BY <1>2, <1>3 DEF Close, Same, StoreKept, Goes, TypeOK, receiverVars
<1>6. Here(d)'
  <2>1. State(d) \in Ends /\ At(d, "closed")
    BY <1>1 DEF Close, Here, Watch
  <2>2. launch'[d].lost = launch[d].lost /\ launch'[d].step = "done"
    BY DEF Close, Goes, TypeOK
  <2>3. orphans'[d] = orphans[d] \/ (State(d) = "unknown" /\ record[d].process)
    BY <1>1 DEF Close, Here, Watch, TypeOK
  <2>4. CASE slot'[d] = slot[d] /\ (d \in pend' <=> d \in A)
    BY <1>1, <2>1, <2>2, <2>3, <2>4 DEF Close, Here, Stages, Watch, Covered, At, Receiver, Over,
       State, Ends, receiverVars
  <2>5. CASE d \in A /\ Closed(d) /\ slot'[d].state = "retired" /\ d \notin pend'
    BY <1>1, <2>1, <2>2, <2>3, <2>5 DEF Close, Here, Stages, Watch, Covered, Closed,
       OutcomeKnown,
       Accounted, At, Receiver, Over, State, Ends, receiverVars
  <2> QED BY <1>3, <2>4, <2>5
<1> QED BY <1>2, <1>4, <1>5, <1>6, Assemble

\* A slot is reserved for a launch that nothing is known of yet.
LEMMA OfferKeeps ==
  ASSUME NEW d \in Dispatch, NEW u \in Unit, NEW a \in Account,
         TypeOK, Everywhere, NoneForgotten, Offer(d, u, a)
  PROVE  TypeOK' /\ Everywhere' /\ NoneForgotten'
<1>1. Here(d) /\ \A e \in Dispatch : Index(e)
  BY DEF Everywhere, NoneForgotten, Here
<1>2. StoreKept(d)
  BY <1>1, WritesKeep DEF Offer, Writes
<1>3. PICK R \in SUBSET {x \in pend : Closed(x)} :
        slot' = Reserve(Retire(R), d, a) /\ pend' = pend \ R
  BY DEF Offer
<1>4. R \in SUBSET Dispatch /\ d \notin pend
  BY <1>1, <1>3 DEF Offer, Here, Watch, At, TypeOK
<1>5. /\ slot' \in Slots /\ slot'[d].state = "held"
      /\ \A e \in R : slot'[e] = [slot[e] EXCEPT !.state = "retired"]
      /\ \A e \in Dispatch \ (R \cup {d}) : slot'[e] = slot[e]
  <2>1. /\ Retire(R) \in Slots
        /\ \A e \in R : Retire(R)[e] = [slot[e] EXCEPT !.state = "retired"]
        /\ \A e \in Dispatch \ R : Retire(R)[e] = slot[e]
    BY <1>4, RetireDoes
  <2>2. slot' = [Retire(R) EXCEPT ![d] = [state |-> "held", account |-> a]]
    BY <1>3 DEF Reserve
  <2> HIDE DEF Retire
  <2> QED BY <1>3, <1>4, <2>1, <2>2 DEF Slots
<1>6. TypeOK'
  <2>1. StoreTypeOK'
    BY <1>2, <1>5 DEF Offer, TypeOK, StoreTypeOK, StoreKept, Records, Slots, State
  <2>2. launch' \in [Dispatch -> [step : LaunchSteps, lost : BOOLEAN]]
    BY DEF Offer, TypeOK, LaunchSteps
  <2> QED BY <2>1, <2>2, <1>3 DEF Offer, TypeOK, LaunchSteps, receiverVars
<1>7. \A e \in Dispatch \ {d} : Same(e)
  BY <1>2, <1>3, <1>5 DEF Offer, Same, StoreKept, TypeOK, receiverVars
<1>8. Here(d)'
  <2>1. launch'[d].lost = launch[d].lost /\ launch'[d].step = "reserved" /\ d \notin pend'
    BY <1>3, <1>4 DEF Offer, TypeOK
  <2> QED BY <1>1, <1>5, <2>1 DEF Offer, Here, Stages, Watch, Covered, At, Receiver, Over,
          State,
             Ends, receiverVars
<1> QED BY <1>2, <1>6, <1>7, <1>8, Assemble

\* A Runner that dies forgets, and changes no record, slot or worker.
LEMMA RunnerDiesKeeps ==
  ASSUME TypeOK, Everywhere, NoneForgotten, RunnerDies
  PROVE  TypeOK' /\ Everywhere' /\ NoneForgotten'
<1>1. TypeOK'
  <2>1. StoreTypeOK'
    BY DEF RunnerDies, TypeOK, StoreTypeOK, State, storeVars
  <2> QED BY <2>1 DEF RunnerDies, TypeOK, receiverVars
<1>2. ASSUME NEW e \in Dispatch
      PROVE  Here(e)' /\ Index(e)'
  <2>1. Here(e) /\ Index(e)
    BY DEF Everywhere, NoneForgotten, Here
  <2>2. /\ launch'[e].step = IF At(e, "none") THEN "none" ELSE "lost"
        /\ ~launch'[e].lost /\ orphans'[e] = "none" /\ pend' = {}
    BY DEF RunnerDies
  <2>3. UNCHANGED <<record, holder, slot, calls, recv, told, run, misjudged>>
    BY DEF RunnerDies, storeVars, receiverVars
  <2> QED BY <2>1, <2>2, <2>3 DEF Here, Stages, Watch, Covered, Index, At, Receiver, Over,
          State,
             Ends
<1> QED BY <1>1, <1>2 DEF Everywhere, NoneForgotten, Here

-----------------------------------------------------------------------------
\* Every step of Next keeps the part of the invariant that is about dispatches.
LEMMA NextKeeps ==
  ASSUME TypeOK, Everywhere, NoneForgotten, [Next]_vars
  PROVE  TypeOK' /\ Everywhere' /\ NoneForgotten'
<1>1. ASSUME NEW d \in Dispatch, NEW u \in Unit, NEW a \in Account, Offer(d, u, a)
      PROVE  TypeOK' /\ Everywhere' /\ NoneForgotten'
  BY <1>1, OfferKeeps
<1>2. ASSUME NEW d \in Dispatch, RunnerActs(d)
      PROVE  TypeOK' /\ Everywhere' /\ NoneForgotten'
  BY <1>2, PrepareKeeps, SubmitKeeps, HearsKeeps, GivesUpKeeps, SettleLostKeeps, CancelKeeps,
     SeesEndKeeps, CloseRecordKeeps, CloseKeeps DEF RunnerActs
<1>3. ASSUME NEW d \in Dispatch, Launches(d)
      PROVE  TypeOK' /\ Everywhere' /\ NoneForgotten'
  BY <1>3, CheckKeeps, AcceptKeeps, ReserveCallKeeps, SpawnKeeps, ReleaseKeeps,
     ReceiptsFailKeeps, DiscardKeeps, NotExecutedKeeps, RefuseAcceptedKeeps, RecordRunKeeps,
     TellRunningKeeps DEF Launches
<1>4. ASSUME NEW d \in Dispatch, Supervises(d)
      PROVE  TypeOK' /\ Everywhere' /\ NoneForgotten'
  BY <1>4, ReapKeeps, SettleCallKeeps, RecordEndKeeps, TellKeeps DEF Supervises
<1>5. ASSUME NEW d \in Dispatch,
             \/ StopOrphan(d) \/ ReleaseOrphan(d) \/ LateReport(d)
             \/ ReceiverDies(d) \/ WrapperEnds(d) \/ WorkerExits(d)
      PROVE  TypeOK' /\ Everywhere' /\ NoneForgotten'
  BY <1>5, StopOrphanKeeps, ReleaseOrphanKeeps, LateReportKeeps, ReceiverDiesKeeps,
     WrapperEndsKeeps, WorkerExitsKeeps
<1>6. CASE RunnerDies
  BY <1>6, RunnerDiesKeeps
<1>7. CASE UNCHANGED vars
  <2>1. /\ UNCHANGED <<record, holder, slot, calls, launch, pend, orphans>>
        /\ UNCHANGED <<recv, told, run, misjudged>>
    BY <1>7 DEF vars, storeVars, runnerVars, receiverVars
  <2>2. TypeOK'
    BY <2>1 DEF TypeOK, StoreTypeOK, State
  <2>3. \A e \in Dispatch : Here(e) => Here(e)'
    BY <2>1 DEF Here, Stages, Watch, Covered, At, Receiver, Over, State
  <2>4. \A e \in Dispatch : Index(e) => Index(e)'
    BY <2>1 DEF Index, State
  <2> QED BY <2>2, <2>3, <2>4 DEF Everywhere, NoneForgotten, Here
<1> QED BY <1>1, <1>2, <1>3, <1>4, <1>5, <1>6, <1>7 DEF Next

\* An account is only filled by Offer, which found room: no other step makes a
\* slot held or moves it to another account.
LEMMA SlotsOnlyEmpty ==
  ASSUME TypeOK, [Next]_vars
  PROVE  \/ \E d \in Dispatch, u \in Unit, a \in Account : Offer(d, u, a)
         \/ \A e \in Dispatch : slot'[e].state = "held" => slot'[e] = slot[e]
<1> DEFINE Emptier == \A e \in Dispatch : slot'[e].state = "held" => slot'[e] = slot[e]
<1>1. ASSUME NEW R \in SUBSET Dispatch, slot' = Retire(R)
      PROVE  Emptier
  BY <1>1 DEF Retire, TypeOK, StoreTypeOK
<1>2. ASSUME NEW A \in SUBSET Dispatch, Attempts(A)
      PROVE  Emptier
  BY <1>1, <1>2 DEF Attempts
<1>3. ASSUME NEW d \in Dispatch, Cancel(d) \/ Close(d) \/ LateReport(d) \/ ReleaseOrphan(d)
      PROVE  Emptier
  <2>1. pend \subseteq Dispatch
    BY DEF TypeOK
  <2>2. CASE Cancel(d)
    BY <1>2, <2>1, <2>2 DEF Cancel
  <2>3. CASE Close(d)
    BY <1>2, <2>1, <2>3 DEF Close
  <2>4. CASE LateReport(d)
    BY <1>1, <2>4 DEF LateReport
  <2>5. CASE ReleaseOrphan(d)
    BY <2>5 DEF ReleaseOrphan, ReleaseAccount, TypeOK, StoreTypeOK
  <2> QED BY <1>3, <2>2, <2>3, <2>4, <2>5
<1>4. ASSUME NEW d \in Dispatch, RunnerActs(d), ~Cancel(d), ~Close(d)
      PROVE  UNCHANGED slot
  BY <1>4 DEF RunnerActs, Prepare, Submit, Hears, GivesUp, SettleLost, SeesEnd, CloseRecord,
     storeVars
<1>5. ASSUME NEW d \in Dispatch, Launches(d)
      PROVE  UNCHANGED slot
  BY <1>5 DEF Launches, Check, Accept, ReserveCall, Spawn, Release, Discard, NotExecuted,
     Misjudges, ReceiptsFail, RefuseAccepted, RecordRun, TellRunning, storeVars
<1>6. ASSUME NEW d \in Dispatch, Supervises(d) \/ StopOrphan(d) \/ ReceiverDies(d) \/ WrapperEnds(d)
                                 \/ WorkerExits(d)
      PROVE  UNCHANGED slot
  BY <1>6 DEF Supervises, Reap, SettleCall, RecordEnd, Tell, StopOrphan, ReceiverDies,
     WrapperEnds,
     WorkerExits, storeVars
<1>7. CASE RunnerDies \/ UNCHANGED vars
  BY <1>7 DEF RunnerDies, vars, storeVars
<1> QED BY <1>3, <1>4, <1>5, <1>6, <1>7 DEF Next

\* No account is given more slots than it has room for.
LEMMA RoomKept ==
  ASSUME TypeOK, TypeOK', Room, [Next]_vars
  PROVE  Room'
<1> SUFFICES ASSUME NEW b \in Account PROVE Cardinality(Uses(slot', b)) <= Concurrency
  BY DEF Room
<1>1. IsFiniteSet(Dispatch) /\ Concurrency \in Nat
  BY DispatchesAssumption
<1>2. ASSUME NEW s, NEW c \in Account
      PROVE  IsFiniteSet(Uses(s, c)) /\ Cardinality(Uses(s, c)) \in Nat
  <2>1. Uses(s, c) \subseteq Dispatch
    BY DEF Uses
  <2> QED BY <1>1, <2>1, FS_Subset, FS_CardinalityType
<1>3. CASE \A e \in Dispatch : slot'[e].state = "held" => slot'[e] = slot[e]
  <2>1. Uses(slot', b) \subseteq Uses(slot, b)
    BY <1>3 DEF Uses
  <2>2. Cardinality(Uses(slot', b)) <= Cardinality(Uses(slot, b))
    BY <1>2, <2>1, FS_Subset
  <2> QED BY <1>1, <1>2, <2>2 DEF Room
<1>4. ASSUME NEW d \in Dispatch, NEW u \in Unit, NEW a \in Account, Offer(d, u, a)
      PROVE  Cardinality(Uses(slot', b)) <= Concurrency
  <2>1. PICK R \in SUBSET {x \in pend : Closed(x)} :
          HasRoom(Retire(R), a) /\ slot' = Reserve(Retire(R), d, a)
    BY <1>4 DEF Offer
  <2>2. R \in SUBSET Dispatch
    BY <2>1 DEF TypeOK
  <2> DEFINE s == Retire(R)
  <2>3. /\ s \in Slots
        /\ \A e \in Dispatch : s[e].state = "held" => s[e] = slot[e]
    <3>1. slot \in Slots
      BY DEF TypeOK, StoreTypeOK, Slots
    <3>2. /\ s \in Slots
          /\ \A e \in R : s[e] = [slot[e] EXCEPT !.state = "retired"]
          /\ \A e \in Dispatch \ R : s[e] = slot[e]
      BY <2>2, RetireDoes
    <3> QED BY <3>1, <3>2 DEF Slots
  <2> HIDE DEF s
  <2>4. Cardinality(Uses(s, b)) <= Concurrency
    <3>1. Uses(s, b) \subseteq Uses(slot, b)
      BY <2>3 DEF Uses
    <3>2. Cardinality(Uses(s, b)) <= Cardinality(Uses(slot, b))
      BY <1>2, <3>1, FS_Subset
    <3> QED BY <1>1, <1>2, <3>2 DEF Room
  <2>5. slot' = [s EXCEPT ![d] = [state |-> "held", account |-> a]]
    BY <2>1 DEF Reserve, s
  <2>6. CASE b = a
    <3>1. Uses(slot', b) \subseteq Uses(s, b) \cup {d}
      BY <2>3, <2>5 DEF Uses, Slots
    <3>2. /\ IsFiniteSet(Uses(s, b) \cup {d})
          /\ Cardinality(Uses(s, b) \cup {d}) <= Cardinality(Uses(s, b)) + 1
      <4>1. IsFiniteSet(Uses(s, b)) /\ Cardinality(Uses(s, b)) \in Nat
        BY <1>2
      <4>2. /\ IsFiniteSet(Uses(s, b) \cup {d})
            /\ \/ Cardinality(Uses(s, b) \cup {d}) = Cardinality(Uses(s, b))
               \/ Cardinality(Uses(s, b) \cup {d}) = Cardinality(Uses(s, b)) + 1
        BY <4>1, FS_AddElement, Zenon
      <4> QED BY <4>1, <4>2
    <3>3. Cardinality(Uses(slot', b)) <= Cardinality(Uses(s, b) \cup {d})
      BY <3>1, <3>2, FS_Subset
    <3>4. Cardinality(Uses(s, b)) < Concurrency
      BY <2>1, <2>6 DEF HasRoom, s
    <3>5. Cardinality(Uses(s, b) \cup {d}) \in Nat
      BY <3>2, FS_CardinalityType
    <3> QED BY <1>1, <1>2, <3>2, <3>3, <3>4, <3>5
  <2>7. CASE b # a
    <3>1. Uses(slot', b) \subseteq Uses(s, b)
      BY <2>3, <2>5, <2>7 DEF Uses, Slots
    <3>2. Cardinality(Uses(slot', b)) <= Cardinality(Uses(s, b))
      BY <1>2, <3>1, FS_Subset
    <3> QED BY <1>1, <1>2, <2>4, <3>2
  <2> QED BY <2>6, <2>7
<1> QED BY <1>3, <1>4, SlotsOnlyEmpty

\* Nothing is prepared, reserved or running at first.
LEMMA InitHolds == Init => IInv
<1> SUFFICES ASSUME Init PROVE IInv
  OBVIOUS
<1>1. TypeOK
  BY DEF Init, StoreInit, TypeOK, StoreTypeOK, NoRecord, NoSlot, Holding, State
<1>2. Everywhere /\ NoneForgotten
  BY DEF Init, StoreInit, Everywhere, NoneForgotten, Stages, Watch, Covered, Index, NoRecord,
         NoSlot, Holding, State, At, Receiver, Over, Ends
<1>3. \A a \in Account : Uses(slot, a) = {}
  BY DEF Init, StoreInit, NoSlot, Uses
<1>4. Room
  BY <1>3, FS_EmptySet, DispatchesAssumption DEF Room
<1> QED BY <1>1, <1>2, <1>4 DEF IInv

\* The inductive invariant of a launch.
THEOREM Invariant == Spec => []IInv
<1>1. IInv /\ [Next]_vars => IInv'
  BY NextKeeps, RoomKept DEF IInv
<1> QED BY <1>1, InitHolds, PTL DEF Spec

\* Records, slots, calls, reports and workers always have their types.
THEOREM TypeCorrect == Spec => []TypeOK
<1>1. IInv => TypeOK
  BY DEF IInv
<1> QED BY <1>1, Invariant, PTL

\* Two dispatches of a unit are never worked on at once unless one is disowned, and
\* what is recorded exited or refused runs nothing unless it is disowned.
THEOREM OneRun == Spec => []OnlyDisownedRunsDouble
<1>1. IInv => OnlyDisownedRunsDouble
  <2> SUFFICES ASSUME IInv PROVE OnlyDisownedRunsDouble
    OBVIOUS
  <2>1. \A d \in Dispatch : Stages(d) /\ Index(d)
    BY DEF IInv, Everywhere
  <2>2. \A d \in Dispatch : State(d) \in {"exited", "refused"} => Over(d) \/ Disowned(d)
    BY <2>1 DEF Stages, Disowned
  <2>3. \A d \in Dispatch : ~Over(d) /\ ~Disowned(d) => State(d) \in Holding
    BY <2>1, <2>2 DEF IInv, TypeOK, StoreTypeOK, Stages, State, Holding
  <2>4. \A d, e \in Dispatch :
          /\ d # e /\ record[d].unit = record[e].unit
          /\ ~Disowned(d) /\ ~Disowned(e)
          => Over(d) \/ Over(e)
    BY <2>1, <2>3 DEF Index
  <2> QED BY <2>2, <2>4 DEF OnlyDisownedRunsDouble
<1> QED BY <1>1, Invariant, PTL

\* A retired slot covers no run but a disowned one, its outcome is known and its
\* call is accounted for.
THEOREM SlotCovers == Spec => []SlotCoversOwnedRuns
<1>1. IInv => SlotCoversOwnedRuns
  <2> SUFFICES ASSUME IInv, NEW d \in Dispatch, slot[d].state = "retired"
               PROVE  /\ Over(d) \/ Disowned(d)
                      /\ State(d) \notin Holding
                      /\ calls[d] # "pending"
    BY DEF SlotCoversOwnedRuns
  <2>1. Stages(d) /\ Covered(d)
    BY DEF IInv, Everywhere
  <2>2. State(d) \in {"none", "exited", "refused"} /\ calls[d] # "pending"
    BY <2>1 DEF IInv, TypeOK, StoreTypeOK, Covered, State, Holding
  <2> QED BY <2>1, <2>2 DEF Stages, Holding, Disowned
<1> QED BY <1>1, Invariant, PTL

\* The workers alive on an account that are not disowned are never more than its
\* concurrency.
THEOREM Bounded == Spec => []AccountBoundsOwnedRuns
<1>1. IInv => AccountBoundsOwnedRuns
  <2> SUFFICES ASSUME IInv, NEW a \in Account
               PROVE  Cardinality({d \in Dispatch : /\ run[d] = "alive" /\ slot[d].account = a
                                                    /\ ~Disowned(d)}) <= Concurrency
    BY DEF AccountBoundsOwnedRuns
  <2> DEFINE Owned == {d \in Dispatch : run[d] = "alive" /\ slot[d].account = a /\ ~Disowned(d)}
  <2>1. Owned \subseteq Uses(slot, a) /\ Uses(slot, a) \subseteq Dispatch
    BY DEF IInv, Everywhere, Covered, Uses, Disowned
  <2>2. IsFiniteSet(Uses(slot, a))
    BY <2>1, DispatchesAssumption, FS_Subset
  <2>3. Cardinality(Owned) <= Cardinality(Uses(slot, a)) /\ IsFiniteSet(Owned)
    BY <2>1, <2>2, FS_Subset
  <2>4. Cardinality(Owned) \in Nat /\ Cardinality(Uses(slot, a)) \in Nat
    BY <2>2, <2>3, FS_CardinalityType
  <2>5. Cardinality(Uses(slot, a)) <= Concurrency
    BY DEF IInv, Room
  <2> QED BY <2>3, <2>4, <2>5, DispatchesAssumption
<1> QED BY <1>1, Invariant, PTL

\* A slot that is still held when the Runner is done with its launch is pending.
THEOREM Forgotten == Spec => []NoneForgotten
<1>1. IInv => NoneForgotten
  BY DEF IInv
<1> QED BY <1>1, Invariant, PTL
=============================================================================
