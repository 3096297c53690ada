# Veldo in TLA+

Veldo (`.veldo/`, Python) is a software factory. Agents work on units of a repository in
parallel; a *control plane*, one SQLite file per clone, decides who may do what and
journals every decision; a *fleet* of worker processes claims units, works on them and
lands the results on one trunk. This directory holds TLA+ models of the parts of it whose
correctness depends on the order things happen in, the TLC configurations that check them
on small instances, and theorems about them that TLAPS proves for every instance.

* [1 The system](#1-the-system): the inventory, and what makes each part hard.
* [2 The models](#2-the-models): which module is which code, and what is abstracted.
* [3 The runs](#3-the-runs): what TLC checks, at which bounds, under which fairness.
* [4 The proofs](#4-the-proofs): what holds for every value of the constants, and why.
* [5 Where code and words disagree](#5-where-code-and-words-disagree).
* [6 What is not modelled](#6-what-is-not-modelled) and [7 the plan](#7-the-plan).

Run from this directory: `tlc -config MCReplica.cfg MCReplica`, `tlapm ControlStoreProofs.tla`.
`PROJECT.json` lists components, runs, theorems, hazards, the source lines of every
definition, and for every checked property a plausible bug that breaks it.

## 1 The system

### The control plane

| Component | State | Operations | Why it is hard |
|---|---|---|---|
| **Control store** `control_store.py` | tables `entities`, `journal`, `commands`, `nonces`, `reservations`/`effects`, `entity_owners` in one SQLite file, opened by several processes | `execute` (one command, one `BEGIN IMMEDIATE` transaction), `declare_owners` | callers read versions outside the transaction and may be killed, retried, or rebuilt under the same id; services declare at run time which commands own which entities |
| **Journal replay** `control_replay.py` | none | `verify_chain`, `replay`, `compare_with_live` | the journal alone must rebuild the tables after every crash |
| **Publication cursor and audit replica** `control_replica.py`, `control_store.py` | the `publication` rows, the pause, a local audit ref, a remote ref | `publish_pending`, `reconcile`, `dispatch_pending`, `backfill_publication`, pause and resume | three places must agree although any answer can be lost, the publisher killed and either ref moved by others; a dispatch may leave only after its record is durable elsewhere |
| **Authority claims** `control_claim.py`, `control_claim_client.py` | claim records with a holder, a generation and a parking place, as entities | claim, renew, release, park, resume, unpark | a session of the same agent may act on a holding that is over; replies get lost; a late heartbeat makes ownership uncertain and never free |
| **Assignment inbox** `control_assignment.py` | assignments, the disposition questions about each, the records of applied dispositions, as entities | open, revise, answer, decline, cancel, resume, ask, dispose | each command decides on what it read and executes later; an answer is read after the person may have lost the right to give it; stopped work must not be forgotten |
| **Dispatch records, launch** `control_dispatch.py`, `control_launch.py`, `control_eligibility.py` | a record per dispatch and an index per unit and station; what the Runner knows of each launch; a receiver process per dispatch; a worker's processes | prepare, accept, run, exit, refuse, unknown; start, pump, wait; spawn, release, reap | four processes of one launch (Runner, receiver, worker, whatever the worker started) may each die between any two steps; the record must never say less than what may be alive |
| **Reservations, accounts, retirement** `control_reservations.py`, `control_account_pool.py`, `control_retirement.py` | a slot per dispatch, on an account; the call made under it; the obligations of a retirement | choose and reserve, settle, retire, sweep, release an orphan's account | obligations close in any order, some cannot be read, a restart forgets the attempts |
| **Protected effects, factory landing** `control_effects.py`, `control_effect_executor.py`, `control_landing.py`, `control_landing_station.py` | effect contracts and records, land dispatches, approvals, receipts; an executor process per publication | open, build, publish, complete, follow, grant; accept, list, push, judge, finish | the push outlives its executor, the executor its caller; an outcome nobody knows must block a second attempt; an approval must be spent on what was approved |
| **Engine upgrade** `control_factory_setup_upgrade.py`, ownership bindings of `control_store.py`, start of `control_service.py` | the engine directory and the one beside it, units, the installation's record, a step log; which module bytes own which commands, and the previous bindings | inspect, stage, exchange, rewrite, restart, remove; switch back, restore; rebind, attach, commit | nothing spans files, store and service: every run may be killed between two writes and the next has only files and log to go by; the previous engine must find its own bindings again |
| **Revocation, authorization** | keys, grants, memberships | recheck on use | a right withdrawn between decision and use |
| **Workflow** (projects, backlog, objectives, teams, andon) | entities of the store | one command each | lifecycles whose concurrency is the store's |
| **Service, API, channels** | none of their own | transport of commands | lost and repeated requests end in `execute`'s retry rules |

### The fleet

| Component | State | Operations | Why it is hard |
|---|---|---|---|
| **Claim ledger** `claim.py` | one file per unit, one flock file per unit | `claim`, `heartbeat`, `release`, lock-free readers | processes on different clocks; a record older than 90 s is free for the taking; kills with the flock held |
| **Worker loop** `work.py` | what one process has in hand, what it failed | snapshot, claim, recheck, dispatch, release, drain | a snapshot is stale when it is used; a dispatch may outlive its claim; a failed unit must come back |
| **Frontier** `frontier.py` | none | what is claimable now | read without locks |
| **Lander** `lander.py` | a workspace; two threads | take the land lock, fetch, merge, gate, join the heartbeat, check, push with a lease, release | the heartbeat races the main thread; the trunk moves between fetch and push; locks go stale |
| **Fleet sizing** `fleet.py`, `governor.py`, `accounts.py`, `supervisor.py` | processes, measured burn | start and stop workers | heuristic; correctness is the workers' |
| **Executor, run records** `executor.py`, `runlog.py` | one run | the stages of one agent run | sequential |

Around these: production support (`incident.py`, `action_executor.py`, `two_key.py`), human
decisions and the tracker (`request.py`, `tracker_*.py`), contracts and verification
(`validate.py`, `arch.py`, `plan.py`, `policy_check.py`), metrics and events, engine
adapters and containment.

### How they interact

```
 workers --claim/heartbeat/release--> claim ledger <--land lock-- landers --leased push--> trunk
    |  frontier reads unit files, the ledger          (a land lock is one more record of the ledger)
    v
 services --commands--> control store --publication rows--> publisher --leased push--> audit remote
                             |                                  '--dispatch, once durable--> launch
                             '--journal--> replay

 factory loop --prepares, starts--> receiver --spawns, stops--> worker's containment group
    |   ^----launch pipe: reports----'   '--dispatch record: accepted, running, ended--> control store
    '--land station--> Landing --contract, handle--> effect executor --leased push--> trunk

 setup --exchange, units, record--> installation --starts--> service --rebinds, attaches--> control store
    '--step log (read by the next setup)    '--restore-owners, while no service runs------------^
```

* Workers and landers share nothing but files: the ledger's records under flocks, and Git
  refs moved under a lease. There is no message between them.
* Control-plane processes share one SQLite file. Every change is one journaled command; a
  publication row is written in the same transaction.
* The publisher is the one process that talks to the audit remote. It remembers nothing
  between runs but the cursor and its local repository.
* A Runner and a receiver share the dispatch record and a one-way pipe. What the Runner does
  not hear it reads from the record, and what neither of them wrote nobody knows: that is the state
  `unknown`, and it keeps the unit.
* A Landing and its executor share the effect record. Landing writes the contract, the
  executor is the only one that touches the remote.
* Setup never opens the store: the service rebinds ownership when it starts, the new engine's
  `restore-owners` puts it back. What setup and service share are the files, the lock and systemd.
* In an enrolled repository the fleet's claims are forwarded to the authority's claims.

### What makes each modelled part correct

* Store: one command takes effect once, at an instant where all it read is current; whoever
  is told "committed" is told the truth; owned entities are written by their owners; nothing
  is handed out in a paused project; the journal explains the tables.
* Claims and inbox: only the present holding of a unit is given up or refreshed; a unit that
  waits for a person is held by nobody and taken again only by an answer that still admits;
  work that a decline or a cancel stopped is asked about; a disposition ends what it was
  asked about and nothing else.
* Launch and slots: no unit is worked on by two dispatches, whoever died; a slot comes back once
  nothing of its run is left and its outcome and call are known; an account's runs stay under its
  concurrency. The code keeps these three but for one error path, in which a receiver refuses a
  launch that runs (section 5). No slot and no launch is forgotten by a live Runner.
* Factory landing: one publication of a unit is unanswered at a time; what is recorded of a publication
  is true and stays so; what a receipt is about was approved as it landed; every
  land ends.
* Engine upgrade: an upgrade that failed or was killed leaves a factory that runs, and setup run
  again finishes it; at rest, engine, unit, ownership and running service are of one release.
* Replica: what the remote acknowledged it holds, in order and complete; nothing is pushed
  over a remote that lost or gained history; nothing is dispatched before it is durable;
  every obligation is met in the end.
* Ledger: a live claim is never stolen, nor prolonged by anybody but its holder.
* Worker loop: no second worker on a unit unless a claim was outlived; what is dispatched is
  still the work that was offered; no unit is stuck.
* Lander: the trunk only grows, by exactly what was gated; landers are serialized unless the
  lock went stale; heartbeats on time keep it from going stale.

## 2 The models

| Module | Models | Lines of code it stands for |
|---|---|---|
| `ControlStore` | `execute`, its refusals in order, kills, resent and rebuilt commands, `declare_owners`, the handout check | `control_store.py` |
| `AtomicStore` | the abstract promise: an atomic map from entities to records, changed at most once by each command | the contract of `execute` |
| `ControlStorePromise` | the refinement of the promise by the store | - |
| `ControlReplay` | `verify_chain`, `replay`, the comparison with the live tables, as one pass over the journal | `control_replay.py` |
| `ControlClaim` | the claim organ, its Receiver's commands, and the services that change what it reads | `control_claim.py`, `control_claim_client.py`, parts of `control_backlog.py`, `control_project.py`, `control_membership.py` |
| `Inbox` | the assignment inbox; extends the claims it parks and resumes | `control_assignment.py` |
| `Replica` | cursor, publisher, remote, pauses, tampering, kills | `control_replica.py`, the publication part of `control_store.py` |
| `Dispatches` | the commands on dispatch records, slots and calls | `control_dispatch.py`, `control_reservations.py`, `control_account_pool.py` |
| `Launch` | Runner, receivers, workers, retirement, kills; extends the records | `control_launch.py`, `control_retirement.py`, the pass of `control_service.py` |
| `ProtectedPublication` | the effect executor, its push, the remote | `control_effects.py`, `control_effect_executor.py` |
| `FactoryLanding` | a unit's land dispatches, `publish` and `complete`, approvals and revisions; extends the executor | `control_landing.py`, `control_landing_station.py` |
| `Ownership` | rebinding, restoring and dropping the ownership of modules | `control_store.py` |
| `EngineUpgrade` | setup's upgrade and switch back over the service, run after run; extends the bindings | `control_factory_setup_upgrade.py`, parts of `control_service.py`, `control_factory_setup.py` |
| `ClaimLedger` | the ledger, under any callers | `claim.py` |
| `WorkLoop` | workers; extends the ledger | `work.py`, `frontier.py` |
| `Lander` | landers and their heartbeat threads; extends the ledger | `lander.py` |
| `MC*` | the small instances | - |
| `*Proofs` | theorems and their proofs | - |

**Atomicity.** An action is what the code does between two points at which another process
can act or at which it can be killed. `execute` is therefore five actions: `Begin` (the
write lock), then `AnswerPrior`, `Refuse` or `Check` (reads under the lock), `Commit` (what
SQLite makes visible at once) and `Reply`; `Form` is the caller's read before the
transaction. A ledger call is `Call`, `Lock` (lock got and record read) and the write, with
time and kills between. A lock-free reader (`ClaimedFor`) reads in one step, since a record is
published by an atomic rename. A run of the publisher has one action per Git command or
transaction.

**Store.** An entity's row is `version`, `kind`, and a value with the retired flag. `Refusal`
lists the checks of `execute` in the code's order: the prior command first, then nonce,
declared versions, the origin of the code registered for an owned command, the transition's
own refusal, versions not declared for what is written, ownership, the handout check on the
state *about to be committed*, and the uniqueness of reservation and effect rows. A command's digest is its content. The
caller may resend the same command, or form it anew from fresh reads under the same id,
which is different content. `CodeOf` says which code a connection registered for a
command; `StandingRows` is the ownership the architecture contracts have without any
declaration.

**Claims and inbox.** Commands are steps of the atomic map: the store's five actions are
proved to be one (`StoreImplementsMap`). An inbox command is two: `Prepare` is its reads and
its decision (a *plan*), `Commit` its transaction, with whatever the transaction looks at
again; `Abandon` is a refusal or a kill between them. `Pins` are the entities whose versions
it declares, and `Overtakes` drops a plan as soon as another commit writes one of these: that
is the store's `stale_version`. One plan is on its way at a time. The other commands, inbox
commands of other processes included, are steps that read and commit at once: the store serializes
commits, so an interleaving in which two plans overlap shows each of them the commits of the
other, and these steps are those commits. `told` is what a session heard: the generation it
will send, and as history which handout it was; `Hears` also loses the reply. A late
heartbeat is `Expire`, which writes nothing. A question is an entry of the sequence of its
assignment: the round is its place. `unasked` is the event the code emits when it finds no
single project owner.

**Launch.** An operator of `Dispatches` that primes a variable is one store command;
`Launch` puts each into the step of the process that issues it, so a kill can fall before
or after every commit, spawn, release and report. A worker is one of: not there, a *wrapped* process that waits
for its release line, *alive*, *left* (the process ended and something it started did not), gone.
`told` is what reached the launch pipe: the Runner learns the worker's group from the running report and
from nowhere else. `Cleaned` therefore reads *no group reported* as clean, as
`control_containment.retirement` does, and `Terminated` sees a process only if the running record names
one. A retirement attempt releases some of the slots whose obligations are closed (`Attempts`; a
reading or a command may fail) and keeps the rest pending. `RunnerDies` is the service's death: all
its memory goes, the receivers and workers stay. A receiver whose pipe nobody reads dies of
its next report, which is `ReceiverDies` with `PipeOpen` false.

An `OSError` out of `_invoke` is taken for the failure of a spawn (`control_launch.py:1182-1187`):
nothing is stopped, the call is settled as not executed, the dispatch refused. It can also come
when the wrapper or the engine exists, from the wait of a discard (third disjunct of `Discard`) or from
the receipts of a reserved call, which `Metering.started` opens after the release
(`ReceiptsFail`). Both are `Misjudges`, and `misjudged` is the history of it: what still runs
though its receiver took the launch for a failed spawn. No guard reads it.

**Factory landing.** A candidate is named by its dispatch, a tree by the watermark the build
was merged onto, an approval by revision, build and watermark. One call of `publish` is alive at
a time, as publications run under the land lock (`Lander` shows what that lock is worth); the
record of a run that died stays running, and "again" is the same publication asked for a second time.
An executor is a process with its own kills, and its push one more: `push` flies on when
git, the executor and the landing process are all gone, and the swap at the remote can happen
long after. The destination may be unlistable, which refuses like a moved trunk (`List`), and
a publication refused as moved may end as a plain refusal when the tip cannot be read again (`Recorded`).
A command of the executor that the store refuses (an authority withdrawn) ends it: `WorkerEnds`.

**Engine upgrade.** An engine is its release, a directory is an engine, `NoEngine` or `Partial`: staging
and removal take two steps each, the exchange one (`renameat2`). `setup.pc` is the next write of
`run`, `switch_back` or `finish_switch_back`, and a file and its entry in the step log are two writes,
so a kill falls between them. `log` is `recovery()`: what the entries so far mean to the next run, and
as history whether the last restart was left to the owner. `Fails` is an exception inside the `try`
of `run`, which switches back after the exchange; `Killed` is also a failure outside it. The service is `Loading` (record and
code read), bound, and up if every module attaches; releases outside `Rebinds` know nothing of rebinding.
`Bytes` says which modules changed between releases. `cut` is a history variable: the kills that hit a
window (`Cuts`) after which files and log no longer say what happened; section 5 tells what follows.
The lock is not modelled as a variable: a service that is not down has it, and so has a setup that found it free (`locked`).

**Replica.** A commit is the sequence of exports it carries, so "is an ancestor of" is
`IsPrefix` and "push with a lease" is a compare-and-swap of the remote ref. A run that stops
early (unreachable, rejected, killed) forgets all but its cursor and repository. `TamperRemote`
and `ForgeLocal` are other people's doing: a foreign commit, lost history, a restored
history, a commit that claims to be an export. `Legacy` records were written before the
cursor existed and have no row until `Backfill`.

**Ledger.** Time is relative: a record has the age of its heartbeat, and a worker's clock is
ahead by `Skew[w]`, so what it reads is `age + Skew[w]`. Ages stop at `OldAge`, where every
reader says stale; this keeps the state space finite without changing any answer. A record
from further in the future than `Tolerance` is *unanswerable*: it is neither live nor stale,
and is not taken.

**Worker loop.** A dispatch is one state that may last any number of ticks, as nothing beats
for the claim. It may move the unit on (a build to review, a review to shipped or back to
ready) or fail and move nothing. `failed` is the set of units a loop will not try again.
`lapsed` and `overrun` are history variables: the claim of the unit in hand has gone stale by
somebody's clock.

**Lander.** Main thread and heartbeat thread are two processes of the ledger under one worker
id. Every stage succeeds or fails; `Finalize` pushes only while the trunk is the watermark.
`prompt` is a fixed choice of each behaviour: whether heartbeats are never late (no tick
passes while one is due). `BeatenLockStaysLive` is about those behaviours, all other
properties about both kinds.

**External code**, modelled from how it is used: SQLite (one writer, atomic commit, rollback
on death), flock (dropped on death), `os.replace`, Git and its remote (a lease is a
compare-and-swap; an answer may be lost after the ref moved).

## 3 The runs

| Run | Instance | Properties | States |
|---|---|---|---|
| `store` (MCControlStore) | 2 connections, one of which registered foreign code for an owned command; 3 entities (a document, a claim, its project); 9 requests; 3 journal records | `AnswersAreTrue DecidedFromItsPrefix OwnedByItsOwner ReplayRebuildsTheStore`, `HandoutsNeedALiveProject ImplementsAtomicStore` | 501,854 |
| `inbox` (MCInbox) | 1 agent in 2 sessions; 2 units, one of them appended later; 2 assignments; the owner who is asked and a member who is the only project owner; 2 handouts; asking again up to round 2 | `WaitingHoldsNothing StoppedWorkIsAsked ClosedItemHasNoOpenUnit`, `OnlyTheHoldingActs ResumedOnlyAdmitted OpeningStopsItsRequester DispositionsTouchNoLiveWork` | 886,716 |
| `replica` (MCReplica) | 2 records, 1 of them older than the cursor; both grades; 2 tamperings; 2 kills | `AcknowledgedIsHeld HistoryIsComplete DispatchedIsDurable`, `PushExtendsAcknowledged OwnPauseStops EventuallyDelivered` | 92,100 |
| `launch` (MCLaunch) | 2 dispatches, 2 units, 1 account with room for 1 run; kills of receivers, workers and the service without bound | `OnlyDisownedRunsDouble SlotCoversOwnedRuns AccountBoundsOwnedRuns NoneForgotten`, `EveryLaunchSettles` | 467,067 |
| `landing` (MCFactoryLanding) | 2 land dispatches, each publishable again after a kill; 1 commit of another factory; 2 revisions; kills without bound | `OneOpenPublication AnswersHold LandedAsApproved`, `EveryLandEnds` | 634,903 |
| `upgrade` (MCEngineUpgrade) | 3 releases, the oldest of which does not rebind; 2 modules, one changed by each release; 3 faults (a kill, a failed step, a lost answer, a death or stop of the service) | `OnlyACutIsStuck FinishedIsWhole`, `EveryUpgradeSettles` | 349,903 |
| `work` (MCWorkLoop) | 2 workers whose clocks differ by a tick, 1 unit, claims that live 2 ticks, no tolerance, 1 kill | `SecondWorkerMeansOverrun WorkIsCurrent`, `LiveClaimIsNeverStolen EveryUnitIsWorkedOn` | 373,878 |
| `land` (MCLander) | 2 landers of 2 threads, claims that live 2 ticks, a beat a tick, 1 lost beat in a row, 1 kill, 1 push by somebody else; symmetric landers | `OneLanderUnlessStale BeatenLockStaysLive`, `TrunkOnlyGrows EveryTipWasGated OnlyTheHolderRefreshes` | 1,122,084 |
| `replica_pause`, `work_double`, `inbox_parked`, `launch_refused` | as above, or smaller | one each, violated: section 5 | |

The type invariants are theorems (section 4) and not repeated in the runs.

Deadlock is checked in the runs of the inbox. It is off in the others, whose systems may stop. A store that wrote its last
record, a publisher with nothing to do and a lander that landed have nothing left, nor has a factory whose dispatches are spent or whose engine is the last; workers
never stop, but the bound on kills is no reason to ask.

### Why the bounds are enough

* `store`. Three records are the fewest that allow a write by A, a write by B, and a third
  decided from what one of them read. The requests collide in every way the code tells apart:
  two contents under one id (`k2`, `k4`), two ids with one nonce (`k5`, `k6`: `n6`), one
  request that pauses the project by the command that hands its unit out, a generic write
  against a declaration and against a standing row, and an owned command on a connection
  that registered other code. Every refusal is reached. Two connections are enough: the
  write lock lets one in, so a third is one more that waits.
* `inbox`. Two handouts give a holding that is over and one that is not, in two sessions of
  one agent: the least in which a generation can be mistaken. Two units, one absent at first,
  are needed for "close the last unit" against "append another", two assignments for a
  second one opened while the first waits. With one project owner beside the owner, each of them
  can be active or not at every step: nobody resolves, or the answer stops admitting. Round
  2 is the first question whose addressee depends on an earlier one. A second agent is not
  needed for any property: it adds a holder whose generation is told to none of the first one's
  sessions. Sessions of one agent, and assignments, are interchangeable; no liveness is
  checked, so symmetry is sound.
* `replica`. Two records give "the one before"; with a legacy record publication must wait
  for the backfill. Two tamperings are a loss and its restoration, or one on each side; two
  kills reach a run that resumes what a resumed run left.
* `work`. With no tolerance and a tick of skew the slow worker finds the fast one's fresh
  record unanswerable. Claims that live two ticks can be outlived while another is
  rechecking. Units do not share state, so two units are two copies of one.
* `launch`. Two dispatches are the fewest that can meet on a unit, on an account, or in the sweep of
  one launch's end; with two units they also miss each other. One account with room for one is the
  tightest limit: the second dispatch is offered exactly in the states in which the first one's place has come
  back. Nobody's deaths are bounded, a dispatch is offered once (its identity is fresh), so the state
  space is finite by itself.
* `landing`. Two dispatches give a land and the one that follows it, as a re-land or as a new build; a commit of
  another factory moves the trunk under either. Revision 2 is the first that differs from the
  approved one. A publication is asked for at most twice: the second call meets every state
  the first one's executor and push can be left in, and a third would meet the same ones.
* `upgrade`. Three releases are the fewest with an upgrade after an upgrade, whose log, bindings
  and switch back can be taken for the earlier one's; the first release has no code to rebind with, as those in the
  field. Two modules, one changed by each release, keep "bound to some of the new bytes" apart from
  "bound to all". Three faults: one to fail the upgrade, one to kill the switch back or the run that goes on, one to kill
  the run after that; every window of `Cuts` needs one or two.
* `land`. Two beats per life and at most one lost in a row is the tightest case in which
  `BeatsKeepUp` holds; the code has three (30 s beats, 90 s life). A kill leaves a lock for
  the other lander, a foreign push makes a watermark stale with the lock held. Landers
  are interchangeable (one clock), so symmetry is sound: no liveness is checked there.

### Fairness

* `replica`, for `EventuallyDelivered`: weak fairness of the publisher as a whole (somebody
  runs it, again and again: it is a periodic job) and strong fairness of the five steps that
  need an answer of the remote. A remote may fail at every one of these steps for as long as
  it likes but not for ever. No fairness for records, backfill, pause or resume: the property
  excuses a paused publication and a due backfill.
* `work`, for `EveryUnitIsWorkedOn`: each worker that can go on does (a process is
  scheduled), time passes, a drained worker is started again by whoever runs the fleet, and a
  dispatch ends. The last is an assumption about the agent behind the dispatcher: the loop
  itself waits for as long as it takes. Nothing forces a dispatch to succeed.
* `launch`, for `EveryLaunchSettles`: weak fairness of the Runner's acts on each launch (a start
  has a limit, `accept_seconds`, so it gives up in the end) and of a receiver that supervises (the
  contract's deadline and the graces of a stop end `_reap`). Receivers that have not reported
  yet are not fair, nor are deaths, late reports, stops of orphans and the ends of workers. A dead
  service is excused.
* `landing`, for `EveryLandEnds`: weak fairness of a landing process that lives. Nothing is
  assumed of the executor, of the push, of the remote or of people: `call` kills an executor
  that takes too long, and the absence of an answer is an outcome. A dead landing process is excused.
* `upgrade`, for `EveryUpgradeSettles`: weak fairness of a setup that runs (each of its calls has a time
  limit), of a service that was started, and of the owner who runs setup again while it has work: the
  documented answer to every one of its refusals. Faults are bounded; nobody is forced to start
  the service or to turn to the next release.
* Everything else is safety, checked without fairness.

### What the properties are about

Each one takes several steps, mostly of two actors, to violate:

* `AnswersAreTrue`: a caller that lost its answer, and one that was refused for good, can
  believe what they hear, whoever else sends the same command. It fails if a retry were
  recognised by content, or other content answered with the first result.
* `DecidedFromItsPrefix`: entities that a command only *read* are current too when it commits.
* `OwnedByItsOwner`: in whichever order the first declaration and the first write happen.
* `HandoutsNeedALiveProject`: also when the very command that hands out pauses the project.
* `ReplayRebuildsTheStore`: in every state, mid-transaction ones included.
* `ImplementsAtomicStore`: the refinement; it adds to the invariants that a caller sees no
  intermediate step.
* `OnlyTheHoldingActs`: two sessions of one agent, and a reply that came or did not. It fails
  if a resumed or reclaimed unit kept its generation.
* `WaitingHoldsNothing`: an OFFERED assignment and a parked claim are two entities that many
  commands write; it fails if a parked unit could be claimed like a released one.
* `StoppedWorkIsAsked`: the end and its question are one commit, whatever happened between the
  decision to ask and the commit.
* `ClosedItemHasNoOpenUnit`: "close" read the item's other units before another process
  appended one; the pins of the item and of the siblings are what keeps the two apart.
* `ResumedOnlyAdmitted`: the person's membership may end between the read and the handout.
* `OpeningStopsItsRequester`: the requester may claim a unit between the read and the commit.
* `DispositionsTouchNoLiveWork`: a unit may have been resumed, or its item closed, since the
  disposition was answered.
* `OnlyDisownedRunsDouble`: a receiver given up on may have accepted, spawned or released its worker; calling
  that refused would free the unit next to a live worker. It fails if an unknown outcome gave the unit back.
  This property and the next two except a *disowned* run, one that its own receiver misjudged and
  refused: `launch_refused` shows it, and these show that there is no other way, whoever dies.
* `SlotCoversOwnedRuns`: an orphan's process looks terminated and its group clean while something of it
  lives; the open outcome is then the only obligation that keeps the slot. It fails without it.
* `AccountBoundsOwnedRuns`: counts the workers and not the slots. It holds although the release of an orphan can be
  too early (section 5): a worker's own process is gone by then.
* `NoneForgotten`: a retirement tried once and refused, by whichever obligation, is pending.
* `EveryLaunchSettles`: a receiver that dies silently is seen by the end of its pipe. It fails if
  only reports were believed.
* `OneOpenPublication`: also across the executors of a first and a second call of one publication,
  and a following dispatch. It fails if unknown effects did not count.
* `AnswersHold`: the swap at the remote may come after every process that waited for it is
  dead. It fails if a tip that moved *past* the candidate, with the candidate inside, were taken for a
  lost race.
* `LandedAsApproved`: relates the receipt, the contract of a possibly much earlier call and the
  grants. It fails if the approval of an earlier tree of the same build counted.
* `EveryLandEnds`: fails if the Landing waited for a record and not for the process.
* `OnlyACutIsStuck`: a kill anywhere but in three windows leaves files that the next inspection accepts.
  It fails if an exchanged engine under the old record were refused.
* `FinishedIsWhole`: relates five pieces of state that no transaction spans, after any number of runs.
  It fails if a switch back forgot the units an earlier, killed run replaced, or if a switch back that was
  killed owed no restart.
* `EveryUpgradeSettles`: a refused restore is recovered forward. It fails if it were tried again for ever.
* `HistoryIsComplete`: a restarted run neither skips nor repeats a sequence, however often it
  was killed between the local commit, the push, the confirmation and the row.
* `PushExtendsAcknowledged`: the publisher *could* repair a remote that lost history, since it
  has the commits; it must not, because the loss is evidence.
* `SecondWorkerMeansOverrun`, `WorkIsCurrent`: claim-then-recheck is enough unless a dispatch
  outlives its claim, and only then not.
* `BeatenLockStaysLive`: a lost beat costs one beat. It fails if the thread dies of one.
* `TrunkOnlyGrows`, `EveryTipWasGated`: what keeps the trunk right is the lease, and not the
  lock; they hold in the states where two landers believe they hold it.

## 4 The proofs

TLAPS proves the following for every value of the constants that satisfies the named
assumptions; TLC evaluates these assumptions on the instances.

| Theorem | Says | From |
|---|---|---|
| `ControlStoreProofs!TypeCorrect` | `Spec => []TypeOK` | `StoreAssumption` |
| `AnswersTrue`, `PrefixDecides`, `OwnershipHolds` | the invariants `AnswersAreTrue`, `DecidedFromItsPrefix`, `OwnedByItsOwner` | `StoreInvariant` |
| `HandoutsChecked` | `Spec => HandoutsNeedALiveProject` | `StoreInvariant` |
| `StoreImplementsMap` | `Spec => ImplementsAtomicStore`: the store refines the atomic map | `StoreInvariant` |
| `JournalRebuildsStore` | `Spec => []ReplayRebuildsTheStore`: replaying the journal yields the tables, however long it is | `StoreInvariant` |
| `OnlyACutEverSticks`, `FinishedIsAlwaysWhole` (`ControlStoreProofs`) | the two invariants of the engine upgrade, for any releases, modules and number of faults | `UpgradeInvariant`, `OwnershipAssumption`, `UpgradeAssumption` |
| `InboxProofs!InboxTypeCorrect`, `NothingIsHeldWaiting`, `StoppedIsAsked`, `ClosedStaysClosed` | the four invariants of the inbox | `InboxInvariant` (`ClaimAssumption`, `InboxAssumption`) |
| `HoldingActs`, `ResumeAdmits`, `OpeningStops`, `DispositionsTouchNothingLive` | its four action properties, for any agents, sessions, persons, units, assignments and bounds | `InboxInvariant` |
| `LaunchProofs!TypeCorrect`, `OneRun`, `SlotCovers`, `Bounded`, `Forgotten` | the type invariant and the four safety properties of a launch, for any dispatches, units, accounts and concurrency | `LaunchProofs!Invariant`, `DispatchesAssumption` |
| `FactoryLandingProofs!TypeCorrect`, `OneOpen`, `Answers`, `Approved` | the type invariant and the three safety properties of a landing, for any number of land dispatches, revisions and foreign commits | `FactoryLandingProofs!Invariant`, `PublicationAssumption`, `LandingAssumption` |
| `ReplicaProofs!ReplicaTypeCorrect`, `NothingAcknowledgedIsLost`, `HistoryHasNoGap`, `DispatchFollowsDurability`, `PushOnlyExtends`, `PauseHolds` | the four invariants and the two action properties of the audit replica, for any number of records, kills, tamperings and changes of grade | `ReplicaInvariant`, `ReplicaAssumption` |
| `ClaimLedgerProofs!LedgerTypeCorrect`, `NoLiveClaimStolen`, `HolderRefreshes` | the ledger's invariant and two action properties under *any* callers | `LedgerAssumption` |
| `WorkLoopProofs!LoopUsesLedger`, `WorkersStealNothing` | the worker loop is one of these callers, so no worker of any fleet steals a live claim | the ledger's theorems |
| `WorkLoopProofs!LoopTypeCorrect` | the type invariant of the worker loop | `LedgerAssumption`, `WorkLoopAssumption` |
| `WorkLoopProofs!TwoWorkersMeanALapse`, `RecheckSuffices` | two workers are on one unit only after a claim was outlived, and what is dispatched is what was offered, for any fleet | the same, and `MaxSkew <= StaleAfter` |
| `LanderProofs!LanderTypeCorrect`, `BeatenLockIsLive` | the type invariant of the lander; a lock that is beaten in time is found stale by nobody | `LanderAssumption` |
| `LanderProofs!LandsAreSerialized` | two landers are past the lock only if it went stale | the same, and `MaxSkew <= StaleAfter` |
| `LanderProofs!TrunkGrows`, `TipsAreGated` | the two properties of the trunk, for any number of landers, kills and foreign pushes | `CandidateInvariant`, `LanderAssumption` |
| `LanderProofs!HeartbeatsKeepToTheirLock` | no heartbeat refreshes another's lock | the ledger's theorems |

**The store's argument.** None of its properties is inductive alone. The strengthening
(`IInv` of `ControlStoreProofs`, proved as `StoreInvariant`) says: whoever is past `Begin` holds the write lock, so what a checked
transaction read (`seen`) is still the tables; the journal is numbered and every record is the
content of its row in `commands`; the current version of an entity is what its last record
left; a nonce or a version that refused a command stays consumed or stale. The refinement then maps `Commit` to `Apply`, `Reply` and a repeated answer to
`Answer`, `Form`, `Resend` and a refusal to `Ask` or a stutter, everything else to a stutter.

**The journal's argument.** `Replay` is a recursive function over the prefixes of a journal, and
what it computes for a longer journal needs induction over data, whose theorems the provers cannot
instantiate. The proof goes around it: a *trace* of a journal (`Trace`) is a function from `0..n` that starts
empty and obeys the step of replay. A least `n` without a trace, or at which two traces differ, is refuted by its
predecessor (`LeastNumber`, from `WFMin`), so `Replay` is the one trace there is (`TraceExists`,
`TracesAgree`, `ReplayTrace`), and a journal with one record more replays to one step more
(`ReplayAppend`). `CommitReplays` then compares that step with what `Commit` wrote: the checks
`Check` made under the lock are the checks replay makes of the record, which is what `Clear` carries
from one to the other.

**The upgrade's argument.** `UpgradeInv` has five parts. `Installation`: types, and a service was
loaded from an engine. `Steps`: what each step of setup knows of the files and the log (from the exchange
on, the installed engine is the checkout's; past the restart nothing is owed; a switch back being
finished is in the log). `NothingHalf`: where half an engine can stand. `Kept`: unless setup was killed in
the windows "back" or "done", the files are the previous release's or on their way between it and the
checkout's, and the log or the running setup has the previous release's unit and record for
as long as its engine stands beside the new one; so both ways on lead to a whole installation, and the
engine in place is the recorded or the current one (`OnlyACutEverSticks`). `Serving`: where no restart
is owed, the process runs the installed engine with the bindings of that engine, or is outside its unit; a
service that cannot rebind never needs to (`FinishedIsAlwaysWhole`). `Kept` and
`Serving` need each other's premises, the log's `due` and `back`, at the exchange, at each end of the
switch back and at a kill; TLC checked the whole of `UpgradeInv` on instances of three releases first. The
assumption that every release but the oldest rebinds (`UpgradeAssumption`) is about what this setup can
install: it is the setup of a checkout that rebinds. The proofs are in `ControlStoreProofs`, with those of the
store that holds the bindings.

**The inbox's argument.** A transaction looks again at little of what its plan was decided on,
so the invariant has to say what a plan on its way may rely on (`PlanOK`): the generation was told to a
session of its agent, a question will be asked, the unit of a disposition is that of the
assignment, the owner of an admitted answer is active. Each of these stays true
for one of two reasons: the command that could end it writes an entity the plan pinned, and
overtakes the plan, or assignments only move forward (`InboxOK`: what is asked about is
past its owner, and an assignment stops one unit at most). `GenerationsCount`, that a unit's
generation is the number of its handouts and that a session was told the number of the
handout it heard of, gives `HoldingActs`: the generation that matches is that of the present holding.
Leave one entity out of `Pins` and the step in which it is written without overtaking the
plan has no proof (and the mutants of the run show the violation).

**The launch's argument.** The invariant locates the processes of one launch relative to each
other: what record and worker can be at each step of a receiver (`Stages`), and what the Runner's
step, the reports and the pending retirements say of both (`Watch`). Its core is three facts. A record that says
neither accepted, running nor unknown has no run but a misjudged one (`Stages`), which makes every
other refusal safe. A record
that holds its unit is the one its unit's index names (`Index`), so two
dispatches of a unit cannot both hold it: `OneRun`. A slot is held while its worker is alive and not disowned, and an
unknown outcome is never retired (`Covered`), which bounds the runs of an account by
its slots (`Room`). Each of the three facts has its exception, a run that is misjudged: the
invariant says exactly where one can be (its receiver failed, refuses, or was refused), so a run that is misjudged and
kept as unknown is still covered. Most steps touch one dispatch; a retirement sweeps others, which the frame `Same` allows.

**The landing's argument.** Four layers, each using the ones before it. `Order`: only calls of the one
running dispatch live, and an executor acts only while no other publication of the
unit is unanswered. `Approval`: every contract, effect and receipt is of the revision and tree
that the grants name. `Truth`: each commit is on the trunk once; a publication's push was applied exactly if
its candidate is there; an answer "moved" or "refused" is recorded only when a push that may still fly has a
base that is *buried*, under which no compare-and-swap can succeed any more. `Followable`: a
land that another one follows was answered, or had nothing accepted. The trunk only grows, so what is
buried stays so: that is why a recorded answer cannot be made false by a late swap.

**The ledger's argument.** The strengthening of the type invariant is its last conjunct: a
process that has read a record holds that unit's flock. From it and from `Judged` follows
that the verdict a call acts on was made on the record that is still there, and a record
judged stale can only have become staler.

**The holder's argument.** The same module proves, for any caller, what a granted claim is worth:
a record just written is live to every clock (`WrittenIsLive`, this is where `MaxSkew <= StaleAfter`
is needed: a clock that is ahead by more than a claim lives finds a new record stale), and a
record that is its owner's and live stays so under everybody's calls until its owner releases it or
time makes it stale (`HeldUnderCalls`, `HeldStays`). The worker loop adds that a unit in hand is held
until it lapses (`HandOK` in `HandInv`); two workers cannot both hold one unit, so one of them
has lapsed. `WorkIsCurrent` needs the same invariant: what the recheck saw can only be changed by a second worker
that has the unit in hand. The proof needs that no two loops run under one worker id
(`WorkLoopAssumption`; a loop that is given no id draws a random one, `work.py:235`): the ledger takes its holder's
second claim for a refresh.

**The lander's argument.** For the trunk: from `stage` "joining" on, `gated` is the candidate, and a candidate
is the watermark with one commit more (`CandidateInvariant`); a push needs the trunk to be
the watermark. The lock is not used, which is the point. For the lock: a lander's two threads never have
more than one call each in flight, and only a lander that is past its release gives the lock up
(`CallOK`), so the lock is held until it lapses (`LockOK`, `LandsAreSerialized`). Where beats are
never late, the lock's age on its holder's clock is bounded by the beats missed in a row and the wait for the
next (`PromptOK`); `BeatsKeepUp` keeps that below what any other clock finds stale.

**The replica's argument.** The publisher remembers nothing between runs, so the invariant says what it can
rely on finding. `ChainInv`: the authority's exports stand on the local chain in the order of their
sequences, each made after all before it were acknowledged, whatever was forged
between them. `AckedInv`: what is acknowledged is `1..k`, each record by the part of the chain that ends in its
export. From the two follows that the record at hand is `k + 1` (`AtHandIsNext`): if no
candidate is on the chain, a new commit goes after everything; if there is one, it is the commit a
killed run made. `RunInv` carries the judgement to the push: the judged tip and the commit are both on the
chain, the tip is shorter and holds all that is acknowledged, and the lease makes the tip still
true when the ref moves. `RemoteInv` is what is lost when somebody else moves a ref, and the only part with that
condition.

**Composition.** `WorkLoop` and `Lander` extend `ClaimLedger` and step it only by its own
actions. `LoopUsesLedger` proves that a worker loop's behaviour is a behaviour of
`LedgerSpec`; the ledger's theorems then apply to it without a new invariant.

**Only model-checked.** Liveness (`EventuallyDelivered`, `EveryUnitIsWorkedOn`,
`EveryLaunchSettles`, `EveryLandEnds`, `EveryUpgradeSettles`): temporal
reasoning about fairness and `ENABLED` is out of the prover's reach. Every
other property of a passing run is a theorem.
No module declares a RECURSIVE operator.

## 5 Where code and words disagree

The first four are runs that TLC ends with a counterexample.

* **A pause does not stop a dispatch list** (`replica_pause`). `dispatch_pending` reads the
  pause once and lists the obligations once (`control_replica.py:318-321`); its docstring
  says "Nothing is dispatched while publication is paused." An operator's pause during the
  walk is not seen. What the publisher pauses for itself is safe: that ends its run
  (`OwnPauseStops` holds).
* **Two workers can dispatch one unit** (`work_double`). The module says two workers never
  do (`work.py:21-23`). Nothing beats for a unit's claim while it is dispatched
  (`work.py:206`), and a claim lives 90 s. `SecondWorkerMeansOverrun` says that this is the
  only way.
* **Work can stay parked without a question** (`inbox_parked`). The module promises that such
  work is never parked for good (`control_assignment.py:27-29`): Veldo asks. If
  an agent cancels its assignment while no single project owner resolves, the end commits
  without a question (`control_assignment.py:627-628`), and `ask` accepts only the reasons
  answer_not_admitted, expired and routed_to_intake (lines 120 and 641), not the end
  itself. When an owner is back, no command of the inbox can ask; the backlog's
  `dispose_unit` or `cancel` can still end the unit.
* **A refused launch can run** (`launch_refused`). "refused: nothing ran", says the launch
  (`control_launch.py:26`), and therefore "refused (nothing ran)" frees the unit
  (`control_dispatch.py:25-26`). But the receipts of a reserved call are opened after `_spawn` released the engine
  (`control_launch.py:1578-1582`), and an `OSError` there (no space, no descriptors, a directory
  without permission, lines 2189-2200) reaches the handler of a failed spawn (lines 1182-1187): the call is
  attested not executed, the dispatch refused, no group is reported and the engine is not
  stopped. The unit can then be dispatched again beside it, and as every obligation of the
  retirement is closed, its slot and its account's room come back under it. `FreedUnitIsIdle` is the sentence of the dispatch, in
terms of the index, and TLC breaks it in 12 states. Two details the model
  does not need: when it is the write that fails, closing the file may fail again and end the receiver, which leaves the
  launch unknown; and in a run with a clone the recorded group keeps the clone's teardown, and
  with it the slot, open.

Four more, without a run of their own.

**A long land can look stale.** The class says the heartbeat prevents it (`lander.py:207-208`); but the
heartbeat is joined before `finalize` (`lander.py:285-290`), whose push alone may take longer than a claim
lives. `OneLanderUnlessStale` has its exception for it; ask TLC for `prompt => ~lapsed[l]` of a lander that
holds the lock and it shows the way. The trunk is safe all the same (`TrunkOnlyGrows`, `EveryTipWasGated`).

**The engine upgrade's windows.** Setup documents that "at every point a complete engine, the
previous one or the current one, is installed" (`control_factory_setup_upgrade.py:20-21`), and that
a re-run removes, finishes or restarts whatever a kill left (lines 34-37). `Cuts` names
where the model found otherwise; take one out of a property and TLC shows the way there:

* *removal*: setup is killed while it removes the previous engine (line 414). The log still reads
  as switched, so if `prepare` fails in the next run (line 384), that run switches back: it
  exchanges the half removed directory into `bin` (line 443), and every run after is refused.
* *back*: setup is killed between the exchange back (line 443) and the record put back (lines
  444-445). `bin` is the previous engine and the record names the new one; `inspect` refuses that
  (lines 164-169), now and later.
* *done*: setup is killed between the removal and the `done` entry (lines 414-420). The log stays
  switched; an upgrade to a later release that fails before its exchange exchanges all the same.
* *exchange*: setup is killed between the exchange and its entry (lines 381-383), and the run that
  finishes the writes is killed after the record. The third run finds a current engine, no
  restart in the log, and leaves the service on the previous code.

**An account can be released under a run.** An account slot is freed "once nothing of the run is
left" (`control_launch.py:655-657`). A receiver that dies, or is given up on, after the running
record (line 1210) and before the running report (lines 1222-1223) leaves a Runner that knows the
worker's process and not its group: it kills the process, reads no group as cleaned
(`control_containment.py:702-712`), and releases the account while what the worker had started
still runs. The worker slot stays held (`SlotCoversOwnedRuns`) and the worker itself is gone
(`AccountBoundsOwnedRuns`).

**Pending exports.** `pending_exports` is documented as the sequences with no
off-host acknowledgement, and selects those with none of any grade; a record that
was acknowledged by a remote of the weaker grade is therefore never published again, and never
dispatched.
`EventuallyDelivered` claims a dispatch of off-host acknowledgements alone.

## 6 What is not modelled

* **Cryptography**: digests are collision free and signatures valid; `ControlReplay` never
  sees an altered record, and a forged commit is one that validation recognises.
* **Store**: repository bindings, the qualification of the file system, the refusal of a snapshot command
  without a connection-local guard (`unregistered_inputs`, `control_store.py:600-601`): the model takes
  such a command where the code refuses it.
* **Engine upgrade**: the configurations (they only gain keys), the two units apart, the exchange probe, a pass
  with nothing to write but pins, two setups at once, an owner who turns to another release while an upgrade
  is unfinished, and files edited by hand (refused by `inspect`).
* **Replica**: a second publisher at once (the deployment runs one) and the loss of the local
  audit repository; the dispatch callback is always given. Qualifying a remote's contract is
  the choice of `grade`.
* **Claims**: eligibility and capabilities, unit states past CLAIMED, blocked items; `use` writes
  nothing and `inspect` only reads. The backlog, project and membership commands are those whose
  writes the organ reads, with the person's decision behind them taken as given.
* **Inbox**: keys and signatures (an active member's are valid), what a revision changes (it
  moves the version, and that overtakes), requests that block no unit after they were opened,
  requests answered by a settlement, deadlines: no code of the module produces EXPIRED. The
  intake that takes an `other` instruction is external.
* **Launch**: what makes a dispatch eligible and what a receiver checks (each may refuse), clones and
  run directories, workers of a remote service, a second invocation of a receiver (it finds
  the record not prepared and owns nothing), a prepare whose commit answer was lost, the inventory a restarted service
  makes of the past ("No recovery of an unknown dispatch", `control_launch.py:196`), authorities withdrawn
  from the Runner or a receiver. **Reservations**: ceilings by amount and window, cooldowns, logins.
* **Factory landing**: effects other than publication; which link of the evidence chain fails, since any may;
  what a merge computes; the projection after a receipt; the land lock itself, which is `Lander`'s.
* **Ledger**: unreadable records (judged as none) and capabilities (decided before the read).
* **Worker loop**: dependencies, plans and scope of units, which the frontier decides once,
  before the claim; `max_units`; the floor record an enrolled repository rereads.
* **Lander**: what a stage computes, the acceptance and the policy beyond yes and no. Its liveness is not checked, as the state graph with
  fairness is too large; that a dead holder's record is taken over is
  `EveryUnitIsWorkedOn` over the same ledger.
* **Pure functions of files** (`validate.py`, `plan.py`, `arch.py`, policies, metrics), which
  the repository's own tests cover; **process and network I/O** (engines, channels, trackers);
  **heuristics** (`governor.py`).

## 7 The plan

In the order in which the modules are written; the store, the replica, the ledger and its two
callers came first. Each one that writes entities extends or
composes with the store by the promise `AtomicStore`: the refinement is proved, so later
modules use one atomic step where the store has five.

1. Done: `ControlClaim` and `Inbox`, with `InboxProofs`.
2. Done: `Dispatches` and `Launch`, with `LaunchProofs`: dispatch records, worker slots, the account
   pool and retirement in one module of the processes that drive them.
3. Done: `ProtectedPublication` and `FactoryLanding`, with `FactoryLandingProofs`.
4. Ceilings of the reservations (amounts and windows) over the slots of `Dispatches`; the recovery of
   unknown dispatches, once the code has one.
5. Revocation and authorization rechecks; project and unit lifecycles; the request lifecycle;
   `two_key`/`action_executor`.
6. Done: `Ownership` and `EngineUpgrade`, with the proofs of both invariants.
7. Done: the safety properties of `Replica`, the type invariants and locks of `WorkLoop` and
   `Lander`. What is left of the proofs goes with the modules above.
