-------------------------------- MODULE Launch --------------------------------
(***************************************************************************)
(* The launch of a worker and the return of its slot: the Runner of the    *)
(* factory loop (.veldo/control_launch.py, .veldo/control_retirement.py,   *)
(* the pass of .veldo/control_service.py), one receiver process for each   *)
(* dispatch, the worker the receiver starts in a containment group, and    *)
(* the commands they write (module Dispatches).  Receivers are killed by   *)
(* the Runner's patience or die by themselves between any two steps, the   *)
(* service dies with everything its Runner remembers, and what a worker    *)
(* started outlives the worker, its receiver and the service.              *)
(*                                                                         *)
(* Abstracted: what a dispatch is eligible for and the receiver's checks   *)
(* (any may refuse); clones and run directories; the stop a Runner may     *)
(* ask for, which ends in Reap like every other.  A receiver and a Runner  *)
(* keep the authority to write their records.  External: the kernel, which *)
(* ends processes as it likes but never a group half killed by cgroup.kill.*)
(***************************************************************************)
EXTENDS Dispatches

VARIABLES
  launch,   \* what the Runner is doing with each dispatch, and if its pipe broke
  pend,     \* Retirements: the retirements refused and not yet released
  orphans,  \* Runner.orphans: the stop a dead receiver owed, and whether it was made
  recv,     \* where the receiver of each dispatch is
  told,     \* its last report on the launch pipe, and if one named the group
  run,      \* the worker: its wrapper, its processes, or what they left behind
  misjudged \* what still runs though its receiver took the launch for a failed spawn

runnerVars == <<launch, pend, orphans>>
receiverVars == <<recv, told, run, misjudged>>
vars == <<storeVars, runnerVars, receiverVars>>

Busy == {"reserved", "prepared", "starting", "silent", "cancelling", "closing", "closed"}

Init ==
  /\ StoreInit
  /\ launch = [d \in Dispatch |-> [step |-> "none", lost |-> FALSE]]
  /\ pend = {}
  /\ orphans = [d \in Dispatch |-> "none"]
  /\ recv = [d \in Dispatch |-> "none"]
  /\ told = [d \in Dispatch |-> [event |-> "nothing", group |-> FALSE]]
  /\ run = [d \in Dispatch |-> "none"]
  /\ misjudged = {}

At(d, s) == launch[d].step = s
Goes(d, s) == launch' = [launch EXCEPT ![d].step = s]
Idle == \A d \in Dispatch : launch[d].step \notin Busy
Receiver(d, s) == recv[d] = s
Steps(d, s) == recv' = [recv EXCEPT ![d] = s]
Becomes(d, s) ==
  /\ run' = [run EXCEPT ![d] = s]
  /\ misjudged' = IF s = "gone" THEN misjudged \ {d} ELSE misjudged

Over(d) == run[d] \in {"none", "gone"}
Ends == {"exited", "refused", "unknown"}

-----------------------------------------------------------------------------
\* Retirement.

\* What the kernel shows of a worker: its recorded process, and the group the
\* receiver reported, if it reported one.
Terminated(d) == record[d].process => run[d] # "alive"
Cleaned(d) == told[d].group => Over(d)

\* The obligations of a retirement: termination, group, outcome, accounting.
OutcomeAssumed(d) == TRUE
OutcomeKnown(d) == State(d) \in {"none", "prepared", "exited", "refused"}
Accounted(d) == calls[d] # "pending"
Closed(d) == Terminated(d) /\ Cleaned(d) /\ OutcomeKnown(d) /\ Accounted(d)

\* Attempts for the dispatches A: those whose obligations are closed are released,
\* unless an obligation could not be read; the others are pending.
HeldWhenWaiting(A) == {d \in A : ~Closed(d)}
HeldOn(A) == A
Attempts(A) ==
  \E R \in SUBSET {d \in A : Closed(d)} :
    /\ slot' = Retire(R)
    /\ pend' = HeldOn(A \ R)

\* A final report the reservation service accepts later, from a service that
\* shares the Runner's; the retirement that waits for it is tried at once.
LateReport(d) ==
  /\ Receiver(d, "ended")
  /\ calls[d] = "pending"
  /\ CallClosed(d)
  /\ \/ /\ d \in pend
        /\ Terminated(d) /\ Cleaned(d) /\ OutcomeKnown(d)
        /\ slot' = Retire({d})
        /\ pend' = pend \ {d}
     \/ UNCHANGED <<slot, pend>>
  /\ UNCHANGED <<record, holder, launch, orphans, receiverVars>>

-----------------------------------------------------------------------------
\* The Runner.  It is one thread: it prepares and starts one launch at a time.

\* Runner.prepare up to the reservation: the sweep, the decision, the unit's
\* active dispatch, and a slot on an account with room, chosen as it is taken.
Offer(d, u, a) ==
  /\ Idle
  /\ At(d, "none")
  /\ ~Held(u)
  /\ \E R \in SUBSET {x \in pend : Closed(x)} :
       /\ HasRoom(Retire(R), a)
       /\ slot' = Reserve(Retire(R), d, a)
       /\ pend' = pend \ R
  /\ launch' = [launch EXCEPT ![d].step = "reserved"]
  /\ UNCHANGED <<record, holder, calls, orphans, receiverVars>>

\* The contract and its record; if anything fails the slot goes back unspawned.
Prepare(d, u) ==
  /\ At(d, "reserved")
  /\ \/ Prepared(d, u) /\ Goes(d, "prepared")
     \/ Goes(d, "cancelling") /\ UNCHANGED <<record, holder>>
  /\ UNCHANGED <<slot, calls, pend, orphans, receiverVars>>

\* invoke: the receiver is started, if it can be.
Submit(d) ==
  /\ At(d, "prepared")
  /\ \/ Steps(d, "started") /\ Goes(d, "starting")
     \/ Steps(d, "ended") /\ Goes(d, "silent")
  /\ UNCHANGED <<storeVars, pend, orphans, told, run, misjudged>>

\* Launch.start: a report of the receiver, and the record it speaks of.
Hears(d) ==
  /\ At(d, "starting")
  /\ told[d].event # "nothing"
  /\ CASE State(d) = "running" -> Goes(d, "watched") /\ UNCHANGED recv
       [] State(d) = "refused" -> Goes(d, "cancelling") /\ Steps(d, "ended")
       [] OTHER                -> Goes(d, "closing") /\ Steps(d, "ended")
  /\ UNCHANGED <<storeVars, pend, orphans, told, run, misjudged>>

\* No report in time, or the end of the pipe: the receiver is killed.
GivesUp(d) ==
  /\ At(d, "starting")
  /\ told[d].event = "nothing"
  /\ Goes(d, "silent")
  /\ Steps(d, "ended")
  /\ UNCHANGED <<storeVars, pend, orphans, told, run, misjudged>>

\* Launch._settle after a receiver that ended without a word: what is still
\* prepared never ran, and of what was accepted nothing is known.
SettleLost(d) ==
  /\ At(d, "silent")
  /\ \/ Refused(d, {"prepared"}) /\ Goes(d, "cancelling")
     \/ Unknown(d, {"accepted"}) /\ Goes(d, "closing")
     \/ /\ State(d) \notin {"prepared", "accepted"}
        /\ Goes(d, CASE State(d) = "running" -> "watched"
                     [] State(d) = "refused" -> "cancelling"
                     [] OTHER -> "closing")
        /\ UNCHANGED <<record, holder>>
  /\ UNCHANGED <<slot, calls, pend, orphans, receiverVars>>

\* _retire of what never ran; a refused launch is waited for all the same.
Cancel(d) ==
  /\ At(d, "cancelling")
  /\ Attempts(pend \cup {d})
  /\ Goes(d, IF State(d) = "none" THEN "done" ELSE "closing")
  /\ UNCHANGED <<record, holder, calls, orphans, receiverVars>>

\* Launch.pump: the receiver reported the end, or the pipe reached its own; and
\* Launch.wait first makes sure that the receiver has ended.
PipeEndedByReport(d) == told[d].event = "ended"
PipeEnded(d) == told[d].event = "ended" \/ Receiver(d, "ended")
SeesEnd(d) ==
  /\ Idle
  /\ At(d, "watched")
  /\ PipeEnded(d)
  /\ launch' = [launch EXCEPT ![d] = [step |-> "closing", lost |-> told[d].event # "ended"]]
  /\ Steps(d, "ended")
  /\ UNCHANGED <<storeVars, pend, orphans, told, run, misjudged>>

\* Launch.wait: a run still recorded running has no known outcome.
CloseRecord(d) ==
  /\ At(d, "closing")
  /\ IF State(d) = "running"
     THEN Unknown(d, {"running"})
     ELSE UNCHANGED <<record, holder>>
  /\ Goes(d, "closed")
  /\ Steps(d, "ended")
  /\ UNCHANGED <<slot, calls, pend, orphans, told, run, misjudged>>

\* Runner.wait: the retirement of an end, and the sweep.  Line.run: a lost
\* receiver's run of unknown outcome is an orphan.
Close(d) ==
  /\ At(d, "closed")
  /\ Attempts(IF State(d) \in {"exited", "unknown"} THEN pend \cup {d} ELSE pend)
  /\ orphans' = IF launch[d].lost /\ State(d) = "unknown"
                THEN [orphans EXCEPT ![d] = "owed"] ELSE orphans
  /\ Goes(d, "done")
  /\ UNCHANGED <<record, holder, calls, receiverVars>>

\* _stop_orphan, once: the reported group is killed, or else the recorded
\* process, whose own processes stay.
StopOrphan(d) ==
  /\ Idle
  /\ orphans[d] = "owed"
  /\ orphans' = [orphans EXCEPT ![d] = "stopped"]
  /\ \/ (told[d].group \/ Over(d)) /\ Becomes(d, IF Over(d) THEN run[d] ELSE "gone")
     \/ ~told[d].group /\ run[d] = "alive" /\ \E s \in {"left", "gone"} : Becomes(d, s)
     \/ ~told[d].group /\ run[d] \in {"wrapped", "left"} /\ UNCHANGED <<run, misjudged>>
  /\ UNCHANGED <<storeVars, launch, pend, recv, told>>

\* release_orphans: the account, but not the slot, once nothing is seen of the run.
ReleaseOrphan(d) ==
  /\ Idle
  /\ orphans[d] = "stopped"
  /\ Terminated(d) /\ Cleaned(d) /\ State(d) = "unknown" /\ slot[d].state = "held"
  /\ slot' = ReleaseAccount(d)
  /\ orphans' = [orphans EXCEPT ![d] = "none"]
  /\ UNCHANGED <<record, holder, calls, launch, pend, receiverVars>>

\* The service dies and starts again: its Runner knows of no launch.
RunnerDies ==
  /\ launch' = [d \in Dispatch |->
       [step |-> IF At(d, "none") THEN "none" ELSE "lost", lost |-> FALSE]]
  /\ pend' = {}
  /\ orphans' = [d \in Dispatch |-> "none"]
  /\ UNCHANGED <<storeVars, receiverVars>>

-----------------------------------------------------------------------------
\* The receiver.  Between what it commits and what it reports it may die; a
\* report on a pipe that nobody reads any more kills it.

PipeOpen(d) == ~At(d, "lost")

\* launch: the contract is checked against the record, and refused or not.
Check(d) ==
  /\ Receiver(d, "started")
  /\ \/ Steps(d, "checked") /\ UNCHANGED <<record, holder>>
     \/ Refused(d, {"prepared"}) /\ Steps(d, "telling")
  /\ UNCHANGED <<slot, calls, runnerVars, told, run, misjudged>>

\* Accepted, and only then spawned.  A refused acceptance refuses the dispatch.
Accept(d) ==
  /\ Receiver(d, "checked")
  /\ \/ Accepted(d) /\ Steps(d, "accepted")
     \/ Refused(d, {"prepared"}) /\ Steps(d, "telling")
  /\ UNCHANGED <<slot, calls, runnerVars, told, run, misjudged>>

\* The call of a subscription engine is reserved, or the launch is unfunded.
ReserveCall(d) ==
  /\ Receiver(d, "accepted")
  /\ PipeOpen(d)
  /\ \/ /\ CallMade(d) \/ UNCHANGED calls
        /\ Steps(d, "funded")
        /\ UNCHANGED <<record, holder>>
     \/ Refused(d, {"accepted"}) /\ Steps(d, "telling") /\ UNCHANGED calls
  /\ UNCHANGED <<slot, runnerVars, told, run, misjudged>>

\* _spawn: the wrapper, in a containment group, waiting for its release line.
Spawn(d) ==
  /\ Receiver(d, "funded")
  /\ \/ Becomes(d, "wrapped") /\ Steps(d, "spawned")
     \/ Steps(d, "failed") /\ UNCHANGED <<run, misjudged>>
  /\ UNCHANGED <<storeVars, runnerVars, told>>

\* The release: from here the worker runs.
Release(d) ==
  /\ Receiver(d, "spawned") /\ run[d] = "wrapped"
  /\ Becomes(d, "alive")
  /\ Steps(d, "released")
  /\ UNCHANGED <<storeVars, runnerVars, told>>

\* An OSError out of _invoke reaches launch as the failure of a spawn: what is left
\* of the wrapper or of the worker is not stopped.
Misjudges(d) ==
  /\ misjudged' = IF Over(d) THEN misjudged ELSE misjudged \cup {d}
  /\ Steps(d, "failed")
  /\ UNCHANGED <<record, holder, run>>

\* Metering.started: a reserved call has its receipts opened once the worker runs;
\* if they cannot be, that is such an error.
ReceiptsFail(d) ==
  /\ Receiver(d, "released")
  /\ calls[d] # "none"
  /\ Misjudges(d)
  /\ UNCHANGED <<slot, calls, runnerVars, told>>

\* A worker not contained as declared is discarded with its group; a group that
\* cannot be emptied leaves the outcome unknown, and is named in the report.  The
\* wait for what was killed may itself fail.
Discard(d) ==
  /\ recv[d] \in {"spawned", "released"}
  /\ \/ Becomes(d, "gone") /\ Steps(d, "failed") /\ UNCHANGED <<record, holder>>
     \/ ~Over(d) /\ Unknown(d, {"accepted"}) /\ Steps(d, "disclosing")
        /\ UNCHANGED <<run, misjudged>>
     \/ Misjudges(d)
  /\ UNCHANGED <<slot, calls, runnerVars, told>>

\* "Nothing was executed": the call is settled so, if the report is taken, whatever
\* runs; and the dispatch refused, with no group named.
NotExecuted(d) ==
  /\ Receiver(d, "failed")
  /\ CallClosed(d) \/ UNCHANGED calls
  /\ Steps(d, "refusing")
  /\ UNCHANGED <<record, holder, slot, runnerVars, told, run, misjudged>>

RefuseAccepted(d) ==
  /\ Receiver(d, "refusing")
  /\ Refused(d, {"accepted"})
  /\ Steps(d, "telling")
  /\ UNCHANGED <<slot, calls, runnerVars, told, run, misjudged>>

\* The running record.  A worker without one is stopped with its group: its
\* identity could not be read, or the record was refused and the receiver ends.
RecordRun(d) ==
  /\ Receiver(d, "released")
  /\ \/ Running(d) /\ Steps(d, "recorded") /\ UNCHANGED <<run, misjudged>>
     \/ Becomes(d, "gone") /\ Unknown(d, {"accepted"}) /\ Steps(d, "telling")
     \/ Becomes(d, "gone") /\ Steps(d, "ended") /\ UNCHANGED <<record, holder>>
  /\ UNCHANGED <<slot, calls, runnerVars, told>>

\* The running report names the process and its group: it is the first to.
TellRunning(d) ==
  /\ Receiver(d, "recorded")
  /\ PipeOpen(d)
  /\ told' = [told EXCEPT ![d] = [event |-> "running", group |-> TRUE]]
  /\ Steps(d, "watching")
  /\ UNCHANGED <<storeVars, runnerVars, run, misjudged>>

\* _reap: the worker ends or is stopped, and its group with it, or else the group
\* is abandoned as not empty.
Reap(d) ==
  /\ Receiver(d, "watching")
  /\ \/ Becomes(d, "gone") /\ Steps(d, "reaped")
     \/ ~Over(d) /\ Steps(d, "abandoned") /\ UNCHANGED <<run, misjudged>>
  /\ UNCHANGED <<storeVars, runnerVars, told>>

\* _finish: the call's final report, which may be refused, before the end.
SettleCall(d) ==
  /\ \/ Receiver(d, "reaped") /\ Steps(d, "exiting")
     \/ Receiver(d, "abandoned") /\ Steps(d, "abandoning")
  /\ CallClosed(d) \/ UNCHANGED calls
  /\ UNCHANGED <<record, holder, slot, runnerVars, told, run, misjudged>>

RecordEnd(d) ==
  /\ \/ Receiver(d, "exiting") /\ Exited(d)
     \/ Receiver(d, "abandoning") /\ Unknown(d, {"running"})
  /\ Steps(d, "telling")
  /\ UNCHANGED <<slot, calls, runnerVars, told, run, misjudged>>

Tell(d) ==
  /\ recv[d] \in {"telling", "disclosing"}
  /\ PipeOpen(d)
  /\ told' = [told EXCEPT ![d] =
                [event |-> "ended", group |-> @.group \/ Receiver(d, "disclosing")]]
  /\ Steps(d, "ended")
  /\ UNCHANGED <<storeVars, runnerVars, run, misjudged>>

ReceiverDies(d) ==
  /\ recv[d] \notin {"none", "ended"}
  /\ Steps(d, "ended")
  /\ UNCHANGED <<storeVars, runnerVars, told, run, misjudged>>

-----------------------------------------------------------------------------
\* The kernel: a wrapper whose release line reached its end never becomes the
\* engine; a worker ends by itself, with or without leaving processes behind.

WrapperEnds(d) ==
  /\ run[d] = "wrapped" /\ Receiver(d, "ended")
  /\ Becomes(d, "gone")
  /\ UNCHANGED <<storeVars, runnerVars, recv, told>>

WorkerExits(d) ==
  /\ \/ run[d] = "alive" /\ Becomes(d, "left")
     \/ run[d] \in {"alive", "left"} /\ Becomes(d, "gone")
  /\ UNCHANGED <<storeVars, runnerVars, recv, told>>

-----------------------------------------------------------------------------
RunnerActs(d) ==
  \/ \E u \in Unit : Prepare(d, u)
  \/ Submit(d) \/ Hears(d) \/ GivesUp(d) \/ SettleLost(d) \/ Cancel(d)
  \/ SeesEnd(d) \/ CloseRecord(d) \/ Close(d)
Launches(d) ==
  \/ Check(d) \/ Accept(d) \/ ReserveCall(d) \/ Spawn(d) \/ Release(d) \/ ReceiptsFail(d)
  \/ Discard(d) \/ NotExecuted(d) \/ RefuseAccepted(d) \/ RecordRun(d) \/ TellRunning(d)
Supervises(d) == Reap(d) \/ SettleCall(d) \/ RecordEnd(d) \/ Tell(d)

Next ==
  \/ \E d \in Dispatch, u \in Unit, a \in Account : Offer(d, u, a)
  \/ \E d \in Dispatch :
       \/ RunnerActs(d) \/ StopOrphan(d) \/ ReleaseOrphan(d) \/ LateReport(d)
       \/ Launches(d) \/ Supervises(d) \/ ReceiverDies(d)
       \/ WrapperEnds(d) \/ WorkerExits(d)
  \/ RunnerDies

\* The Runner acts while it lives: its patience ends every start (accept_seconds).
\* A receiver is fair only once it supervises: the contract's deadline and the
\* graces of a stop end _reap.  No death is fair, no release of an orphan, no
\* late report, and no worker ends by itself.
Fairness == \A d \in Dispatch : WF_vars(RunnerActs(d)) /\ WF_vars(Supervises(d))

Spec == Init /\ [][Next]_vars /\ Fairness

-----------------------------------------------------------------------------
\* The records of Dispatches and the state of the Runner and of the receivers.
TypeOK ==
  /\ StoreTypeOK
  /\ launch \in [Dispatch -> [step : {"none", "starting", "silent", "watched", "done", "lost",
                                      "reserved", "prepared", "cancelling", "closing", "closed"},
                              lost : BOOLEAN]]
  /\ pend \subseteq Dispatch
  /\ orphans \in [Dispatch -> {"none", "owed", "stopped"}]
  /\ recv \in [Dispatch -> {"none", "started", "checked", "accepted", "funded", "spawned",
                            "released", "failed", "refusing", "recorded", "watching", "reaped",
                            "abandoned", "exiting", "abandoning", "telling", "disclosing", "ended"}]
  /\ told \in [Dispatch -> [event : {"nothing", "running", "ended"}, group : BOOLEAN]]
  /\ run \in [Dispatch -> {"none", "wrapped", "alive", "left", "gone"}]
  /\ misjudged \subseteq Dispatch

\* A launch refused by the receiver that misjudged it: what runs is nobody's.
Disowned(d) == d \in misjudged /\ State(d) = "refused"

\* A unit is worked on twice only beside a disowned run: whatever else was killed
\* in between, the processes of two dispatches of one unit never live at once, and
\* a dispatch recorded exited or refused has none (the index of transition, and
\* the order of acceptance, spawn and end in Receiver.launch).
OnlyDisownedRunsDouble ==
  /\ \A d, e \in Dispatch :
       /\ d # e /\ record[d].unit = record[e].unit
       /\ ~Disowned(d) /\ ~Disowned(e)
       => Over(d) \/ Over(e)
  /\ \A d \in Dispatch : State(d) \in {"exited", "refused"} => Over(d) \/ Disowned(d)

\* A slot is returned only under a disowned run: once it is retired nothing else
\* is left of its run, its outcome is known and its call is accounted for, however
\* the ends of processes, groups, records and reports were interleaved
\* (Retirements._observe and _try).
SlotCoversOwnedRuns ==
  \A d \in Dispatch :
    slot[d].state = "retired" =>
      /\ Over(d) \/ Disowned(d)
      /\ State(d) \notin Holding
      /\ calls[d] # "pending"

\* Of the workers that run on an account, those not disowned never exceed its
\* concurrency, though a slot may be released before it is retired (choose,
\* release_account).
AccountBoundsOwnedRuns ==
  \A a \in Account :
    Cardinality({d \in Dispatch : run[d] = "alive" /\ slot[d].account = a /\ ~Disowned(d)})
      <= Concurrency

\* Only a conclusive end frees a unit, "exited (the receiver reaped the worker) or
\* refused (nothing ran)", says the header of control_dispatch.py: a unit whose index
\* no longer names a dispatch has nothing of that dispatch running.  The receiver
\* breaks it, as Misjudges describes.
FreedUnitIsIdle ==
  \A d \in Dispatch :
    State(d) # "none" /\ holder[record[d].unit] # d => run[d] \notin {"alive", "left"}

\* No slot is forgotten: when the Runner is done with a launch, its slot is
\* retired or released, or its retirement is pending, to be tried again (_refused).
NoneForgotten ==
  \A d \in Dispatch : At(d, "done") /\ slot[d].state = "held" => d \in pend

\* Every launch comes to a recorded end, whoever dies: what was prepared ends
\* exited, refused or unknown, unless the service dies with its Runner.
EveryLaunchSettles ==
  \A d \in Dispatch : State(d) = "prepared" ~> State(d) \in Ends \/ At(d, "lost")

=============================================================================
