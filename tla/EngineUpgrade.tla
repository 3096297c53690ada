---------------------------- MODULE EngineUpgrade -----------------------------
(***************************************************************************)
(* The engine upgrade of `veldo factory setup`                             *)
(* (.veldo/control_factory_setup_upgrade.py) over the authority service    *)
(* that runs the engine it replaces (.veldo/control_service.py).  Setup    *)
(* stages the new engine beside the installed one, exchanges the two,      *)
(* rewrites the units and then the record, restarts the service and        *)
(* removes the previous engine; on a failure it exchanges the two again.   *)
(* Setup is killed, or a step of it fails, anywhere; the service dies, or  *)
(* its owner starts and stops it, at any time; the next run of setup goes  *)
(* on from the files and the step log.                                     *)
(*                                                                         *)
(* Abstracted: an engine is its release; a directory is an engine, nothing *)
(* or partial, and no partial engine serves; the two units are one, which  *)
(* differs in every release; configurations only gain keys and are left    *)
(* out; the engine pins and the adoption signer are one step that may      *)
(* fail.  One setup runs at a time, and the owner turns to a newer release *)
(* only when the last upgrade is done.  External: systemd and the files.   *)
(***************************************************************************)
EXTENDS Ownership

CONSTANTS
  NoEngine,
  MaxFaults  \* bound: kills, failed steps, lost answers, deaths and stops

ASSUME UpgradeAssumption ==
  /\ NoEngine \notin Engine \cup {HalfEngine}
  /\ 2 \in Engine
  /\ Engine \ {1} \subseteq Rebinds  \* what this setup installs knows of rebinding
  /\ MaxFaults \in Nat

VARIABLES
  bin, stage,   \* the engine installed, and the directory bin.upgrade beside it
  unit, record, \* the release the unit files and service.json are from
  log,          \* recovery(): what the step log says of the last exchange
  checkout,     \* the release whose setup the owner runs
  setup,        \* the running setup, and the step of its answer the last one gave
  service,      \* the unit's process: the code it loaded, the record it read
  cut,          \* history: the windows (Cuts) in which a run of setup was killed
  faults

fileVars == <<bin, stage, unit, record>>
upgradeVars == <<ownershipVars, fileVars, log, checkout, setup, service, cut, faults>>

NoBackups == [unit |-> NoEngine, record |-> NoEngine]
CleanLog == [switched |-> FALSE, due |-> FALSE, back |-> FALSE, active |-> FALSE,
             backups |-> NoBackups, outside |-> FALSE]
Resting == [pc |-> "idle", state |-> "current", due |-> FALSE, active |-> FALSE,
            locked |-> FALSE, switched |-> FALSE, failed |-> FALSE,
            replaced |-> NoBackups, outside |-> FALSE]
Down == [at |-> "down", code |-> NoEngine, recorded |-> NoEngine, keep |-> FALSE]
Up == service.at = "up"
Running == service # Down
UpOn(e) == [at |-> "up", code |-> e, recorded |-> e, keep |-> FALSE]

UpgradeInit ==
  /\ OwnershipInit
  /\ bin = 1 /\ unit = 1 /\ record = 1
  /\ stage = NoEngine
  /\ log = CleanLog
  /\ checkout = 2
  /\ setup = Resting
  /\ service \in {Down, UpOn(1)}
  /\ cut = {}
  /\ faults = 0

At(p) == setup.pc = p
Goes(p) == setup' = [setup EXCEPT !.pc = p]
Idle == At("idle")
Returns == setup' = Resting

-----------------------------------------------------------------------------
\* The service.

\* serve begins: the record is read, the lock taken, the installed code loaded.
\* A setup that found nobody at the lock keeps it until it ends.
CanStart == ~setup.locked /\ bin \in Engine
Loading == [at |-> "loading", code |-> bin, recorded |-> record, keep |-> FALSE]

ServeBegins ==
  /\ service.at = "loading"
  /\ LET keep == stage # NoEngine
     IN IF service.code \in Rebinds
        THEN Rebind(service.recorded, bin, keep) /\ service' = [service EXCEPT !.at = "bound", !.keep = keep]
        ELSE UNCHANGED ownershipVars /\ service' = [service EXCEPT !.at = "bound", !.keep = TRUE]
  /\ UNCHANGED <<fileVars, log, checkout, setup, cut, faults>>

\* A record of previous bindings nobody can go back to is dropped; then every
\* owning module is attached, which the bytes in bin decide.
Attach ==
  /\ service.at = "bound"
  /\ IF service.keep THEN UNCHANGED ownershipVars ELSE DropPrevious
  /\ service' = IF Attachable(bin) THEN [service EXCEPT !.at = "up"] ELSE Down
  /\ UNCHANGED <<fileVars, log, checkout, setup, cut, faults>>

OwnerStarts ==
  /\ service = Down
  /\ CanStart
  /\ service' = Loading
  /\ UNCHANGED <<ownershipVars, fileVars, log, checkout, setup, cut, faults>>

\* The owner stops the service, or it dies.
Stops ==
  /\ faults < MaxFaults
  /\ service # Down
  /\ service' = Down
  /\ faults' = faults + 1
  /\ UNCHANGED <<ownershipVars, fileVars, log, checkout, setup, cut>>

-----------------------------------------------------------------------------
\* Setup: what it finds, and what it does.

\* Mutant: an engine that is not the recorded one is refused, switched or not.
FoundByRecord ==
  CASE bin = record /\ record # checkout   -> "upgrade"
    [] bin = record /\ record = checkout   -> "current"
    [] OTHER                               -> "refused"
\* inspect.  An engine that is neither the recorded one nor the current one is
\* refused, and so is every later run.
Found ==
  CASE bin = checkout /\ record # checkout -> "resume"
    [] bin = record /\ record # checkout   -> "upgrade"
    [] bin = record /\ record = checkout   -> "current"
    [] OTHER                               -> "refused"
RestartDue == Found = "resume" \/ log.due
HasWork == Found # "current" \/ log.due \/ stage # NoEngine
\* Inspection, the lock, and the start of run: a switch back that did not end
\* is finished first.
RunSetup ==
  /\ Idle
  /\ Found # "refused" /\ HasWork
  /\ setup' = [pc |-> IF log.back THEN "stop"
                      ELSE IF Found = "upgrade" THEN "unstage" ELSE "pins",
               state |-> Found, due |-> RestartDue,
               active |-> Up \/ (RestartDue /\ log.active),
               locked |-> ~Running /\ ~RestartDue,
               switched |-> IF Found = "upgrade" THEN log.switched
                            ELSE (log.switched \/ Found = "resume") /\ stage # NoEngine,
               failed |-> FALSE, replaced |-> log.backups, outside |-> FALSE]
  /\ UNCHANGED <<ownershipVars, fileVars, log, checkout, service, cut, faults>>

\* The owner turns to a newer release when the last upgrade is done.
Settled == /\ bin = record /\ record = checkout
           /\ stage = NoEngine /\ ~log.due
NewRelease ==
  /\ Idle /\ Settled
  /\ checkout + 1 \in Engine
  /\ checkout' = checkout + 1
  /\ UNCHANGED <<ownershipVars, fileVars, log, setup, service, cut, faults>>

\* Directories are removed and written file by file.
Unstage ==
  /\ At("unstage")
  /\ IF stage = NoEngine THEN Goes("stage") /\ UNCHANGED stage
                         ELSE Goes("unstaging") /\ stage' = HalfEngine
  /\ UNCHANGED <<ownershipVars, bin, unit, record, log, checkout, service, cut, faults>>
Unstaged ==
  /\ At("unstaging")
  /\ stage' = NoEngine
  /\ Goes("stage")
  /\ UNCHANGED <<ownershipVars, bin, unit, record, log, checkout, service, cut, faults>>
Stage ==
  /\ At("stage")
  /\ stage' = HalfEngine
  /\ Goes("staging")
  /\ UNCHANGED <<ownershipVars, bin, unit, record, log, checkout, service, cut, faults>>
Staged ==
  /\ At("staging")
  /\ stage' = checkout
  /\ Goes("prepare")
  /\ UNCHANGED <<ownershipVars, bin, unit, record, log, checkout, service, cut, faults>>

\* Mutant: the units an earlier run replaced are forgotten.
ReplacedRecordOnly == [unit |-> NoEngine, record |-> record]
\* `prepared`: what a switch back must put back, and whether the unit was active.
Replaced == [unit |-> IF unit = checkout THEN NoEngine ELSE unit, record |-> record]
Prepare ==
  /\ At("prepare")
  /\ setup' = [setup EXCEPT !.pc = "prepared", !.replaced = Replaced]
  /\ UNCHANGED <<ownershipVars, fileVars, log, checkout, service, cut, faults>>
Prepared ==
  /\ At("prepared")
  /\ log' = [log EXCEPT !.backups = setup.replaced, !.active = setup.active]
  /\ Goes("exchange")
  /\ UNCHANGED <<ownershipVars, fileVars, checkout, service, cut, faults>>

Swapped == bin' = stage /\ stage' = bin
Exchange ==
  /\ At("exchange")
  /\ Swapped
  /\ setup' = [setup EXCEPT !.pc = "exchanged", !.switched = TRUE]
  /\ UNCHANGED <<ownershipVars, unit, record, log, checkout, service, cut, faults>>
Exchanged ==
  /\ At("exchanged")
  /\ log' = [log EXCEPT !.switched = TRUE, !.due = TRUE, !.back = FALSE]
  /\ Goes("pins")
  /\ UNCHANGED <<ownershipVars, fileVars, checkout, service, cut, faults>>

\* prepare(): the engine pins and the adoption signer.
Pins ==
  /\ At("pins")
  /\ Goes(IF setup.state # "current" THEN "unit" ELSE IF setup.due THEN "restart" ELSE "remove")
  /\ UNCHANGED <<ownershipVars, fileVars, log, checkout, service, cut, faults>>

WriteUnit ==
  /\ At("unit")
  /\ unit' = checkout
  /\ setup' = [setup EXCEPT !.pc = "record",
                 !.replaced.unit = IF @ = NoEngine /\ unit # checkout THEN unit ELSE @]
  /\ UNCHANGED <<ownershipVars, bin, stage, record, log, checkout, service, cut, faults>>
WriteRecord ==
  /\ At("record")
  /\ record' = checkout
  /\ setup' = [setup EXCEPT !.pc = "restart", !.replaced.record = IF @ = NoEngine THEN record ELSE @]
  /\ UNCHANGED <<ownershipVars, bin, stage, unit, log, checkout, service, cut, faults>>

\* systemctl restart: the unit is stopped and started on what bin holds.
Restarted == service' = IF CanStart THEN Loading ELSE Down
Restart ==
  /\ At("restart")
  /\ IF setup.active
     THEN Restarted /\ Goes("await")
     ELSE setup' = [setup EXCEPT !.pc = "restarted", !.outside = Running] /\ UNCHANGED service
  /\ UNCHANGED <<ownershipVars, fileVars, log, checkout, cut, faults>>
Answers ==
  /\ At("await")
  /\ Up
  /\ Goes("restarted")
  /\ UNCHANGED <<ownershipVars, fileVars, log, checkout, service, cut, faults>>
NotAnswered ==
  /\ At("await")
  /\ service = Down
  /\ setup' = IF setup.switched THEN [setup EXCEPT !.pc = "back", !.failed = TRUE] ELSE Resting
  /\ UNCHANGED <<ownershipVars, fileVars, log, checkout, service, cut, faults>>
RestartLogged ==
  /\ At("restarted")
  /\ log' = [log EXCEPT !.due = FALSE, !.back = FALSE, !.outside = setup.outside]
  /\ Goes("remove")
  /\ UNCHANGED <<ownershipVars, fileVars, checkout, service, cut, faults>>

\* The previous engine is removed; then the upgrade is committed, which only an
\* engine that knows the request answers; then the log is done with it.
Remove ==
  /\ At("remove")
  /\ IF stage = NoEngine THEN Goes("done") /\ UNCHANGED stage
                         ELSE Goes("removing") /\ stage' = HalfEngine
  /\ UNCHANGED <<ownershipVars, bin, unit, record, log, checkout, service, cut, faults>>
Removed ==
  /\ At("removing")
  /\ stage' = NoEngine
  /\ Goes(IF setup.active THEN "commit" ELSE "done")
  /\ UNCHANGED <<ownershipVars, bin, unit, record, log, checkout, service, cut, faults>>
CommitUpgrade ==
  /\ At("commit")
  /\ IF Up /\ service.code \in Rebinds THEN DropPrevious ELSE UNCHANGED ownershipVars
  /\ Goes("done")
  /\ UNCHANGED <<fileVars, log, checkout, service, cut, faults>>
NotCommitted ==
  /\ At("commit")
  /\ faults < MaxFaults
  /\ faults' = faults + 1
  /\ Goes("done")
  /\ UNCHANGED <<ownershipVars, fileVars, log, checkout, service, cut>>
Done ==
  /\ At("done")
  /\ log' = [CleanLog EXCEPT !.active = log.active, !.outside = log.outside]
  /\ Returns
  /\ UNCHANGED <<ownershipVars, fileVars, checkout, service, cut, faults>>

-----------------------------------------------------------------------------
\* The way back: the exchange, then the record before the unit.

Back ==
  /\ At("back")
  /\ Swapped
  /\ Goes("back_record")
  /\ UNCHANGED <<ownershipVars, unit, record, log, checkout, service, cut, faults>>
BackRecord ==
  /\ At("back_record")
  /\ record' = IF setup.replaced.record = NoEngine THEN record ELSE setup.replaced.record
  /\ Goes("back_unit")
  /\ UNCHANGED <<ownershipVars, bin, stage, unit, log, checkout, service, cut, faults>>
BackUnit ==
  /\ At("back_unit")
  /\ unit' = IF setup.replaced.unit = NoEngine THEN unit ELSE setup.replaced.unit
  /\ Goes("switched_back")
  /\ UNCHANGED <<ownershipVars, bin, stage, record, log, checkout, service, cut, faults>>
SwitchedBack ==
  /\ At("switched_back")
  /\ log' = [log EXCEPT !.switched = FALSE, !.due = TRUE, !.back = TRUE]
  /\ IF setup.failed THEN Goes("stop") ELSE Returns
  /\ UNCHANGED <<ownershipVars, fileVars, checkout, service, cut, faults>>

\* finish_switch_back, by this run or by a later one.
Stop ==
  /\ At("stop")
  /\ service' = Down
  /\ Goes("restore")
  /\ UNCHANGED <<ownershipVars, fileVars, log, checkout, cut, faults>>

\* restore-owners runs from the engine beside bin, and takes the lock.
Restores == stage \in Rebinds /\ service = Down /\ MayRestore(bin)
RestoreOwners ==
  /\ At("restore")
  /\ Restores
  /\ Restore
  /\ Goes("restart_previous")
  /\ UNCHANGED <<fileVars, log, checkout, service, cut, faults>>
\* Mutant: a refused restore is owed again by the next run.
RestoreRefusedStaysBack ==
  /\ At("restore")
  /\ ~Restores
  /\ Returns
  /\ UNCHANGED <<ownershipVars, fileVars, log, checkout, service, cut, faults>>
RestoreRefused ==
  /\ At("restore")
  /\ ~Restores
  /\ log' = [log EXCEPT !.back = FALSE]
  /\ Returns
  /\ UNCHANGED <<ownershipVars, fileVars, checkout, service, cut, faults>>
\* restore-owners is out of time, before or after its transaction.
RestoreLost ==
  /\ At("restore")
  /\ faults < MaxFaults
  /\ faults' = faults + 1
  /\ \/ Restores /\ Restore
     \/ UNCHANGED ownershipVars
  /\ log' = [log EXCEPT !.back = FALSE]
  /\ Returns
  /\ UNCHANGED <<fileVars, checkout, service, cut>>

RestartPrevious ==
  /\ At("restart_previous")
  /\ Restarted
  /\ Goes("await_previous")
  /\ UNCHANGED <<ownershipVars, fileVars, log, checkout, cut, faults>>
PreviousAnswers ==
  /\ At("await_previous")
  /\ Up
  /\ log' = [log EXCEPT !.due = FALSE, !.back = FALSE, !.outside = FALSE]
  /\ IF setup.failed
     THEN Returns
     ELSE setup' = [setup EXCEPT !.pc = IF setup.state = "upgrade" THEN "unstage" ELSE "pins",
                                 !.active = TRUE]
  /\ UNCHANGED <<ownershipVars, fileVars, checkout, service, cut, faults>>
PreviousDoesNot ==
  /\ At("await_previous")
  /\ service = Down
  /\ Returns
  /\ UNCHANGED <<ownershipVars, fileVars, log, checkout, service, cut, faults>>

-----------------------------------------------------------------------------
\* Faults of setup.

\* A step inside run's try fails: after the exchange setup switches back.
Guarded == {"prepare", "prepared", "exchange", "exchanged", "pins", "unit", "record", "restart",
            "await", "restarted"}
Fails ==
  /\ setup.pc \in Guarded
  /\ faults < MaxFaults
  /\ faults' = faults + 1
  /\ setup' = IF setup.switched
              THEN [setup EXCEPT !.pc = "back",
                      !.failed = At("await") \/ (At("restart") /\ setup.active)]
              ELSE Resting
  /\ UNCHANGED <<ownershipVars, fileVars, log, checkout, service, cut>>

\* Setup is killed, or a step outside the try fails: it ends where it is.  Four
\* windows leave what no later run can tell: "exchange", an exchange the log does
\* not name; "removal", half of the previous engine, which the log still lets a
\* later run switch back to; "back", an exchange back without the record put
\* back; "done", the previous engine gone and the log still switched.
Cuts == CASE setup.pc \in {"exchanged", "back"} /\ ~log.due        -> {"exchange"}
          [] At("removing")                                        -> {"removal"}
          [] setup.pc \in {"back_record", "back_unit", "switched_back"} -> {"back"}
          [] setup.pc \in {"commit", "done"}                       -> {"done"}
          [] OTHER                                                 -> {}
Killed ==
  /\ ~Idle
  /\ faults < MaxFaults
  /\ faults' = faults + 1
  /\ setup' = Resting
  /\ cut' = cut \cup Cuts
  /\ UNCHANGED <<ownershipVars, fileVars, log, checkout, service>>

-----------------------------------------------------------------------------
Forward == \/ Unstage \/ Unstaged \/ Stage \/ Staged \/ Prepare \/ Prepared \/ Exchange \/ Exchanged
           \/ Pins \/ WriteUnit \/ WriteRecord \/ Restart \/ Answers \/ NotAnswered
           \/ RestartLogged \/ Remove \/ Removed \/ CommitUpgrade \/ Done
Backward == \/ Back \/ BackRecord \/ BackUnit \/ SwitchedBack \/ Stop
            \/ RestoreOwners \/ RestoreRefused
            \/ RestartPrevious \/ PreviousAnswers \/ PreviousDoesNot
Serves == ServeBegins \/ Attach

UpgradeNext ==
  \/ RunSetup \/ NewRelease \/ Forward \/ Backward
  \/ NotCommitted \/ RestoreLost \/ Fails \/ Killed
  \/ Serves \/ OwnerStarts \/ Stops

\* Each run's calls return (systemctl, the wait for an answer and restore-owners
\* have a time limit), a service that was started comes up or gives up, and the
\* owner runs setup again while it has work and is not refused.
UpgradeSpec ==
  /\ UpgradeInit /\ [][UpgradeNext]_upgradeVars
  /\ WF_upgradeVars(Forward \/ Backward) /\ WF_upgradeVars(Serves) /\ WF_upgradeVars(RunSetup)

-----------------------------------------------------------------------------
\* An upgrade killed or failed anywhere but in three windows leaves an installation
\* the next run of setup accepts (inspect refuses an installed engine that is
\* neither the recorded nor the current one, and so would every later run), and
\* what is installed is a whole engine, never nothing, and never half of one unless
\* a removal was cut short.
OnlyACutIsStuck ==
  /\ bin \in Engine \/ (bin = HalfEngine /\ "removal" \in cut)
  /\ Idle /\ Found = "refused" => cut \cap {"removal", "back", "done"} # {}

\* When setup is at rest on the recorded engine and owes no restart, through
\* whatever kills, failures and switches back it came there, the unit is that
\* engine's, its service can attach every owned command (a service that rebinds
\* mends that itself at its start), and the service that runs is that engine with
\* the ownership bound to it - but for the windows in which the log misses an
\* exchange, and for a service that its owner runs outside its unit.
FinishedIsWhole ==
  Idle /\ bin = record /\ ~log.due /\ cut \cap {"exchange", "back", "done"} = {} =>
    /\ unit = bin
    /\ bin \in Rebinds \/ Attachable(bin)
    /\ Up /\ ~log.outside => (service.code = bin /\ Attachable(bin))

\* Setup run again finishes every upgrade, forward or after a switch back whose
\* restore was refused, however it was killed outside those windows: no log sends
\* each run back into the same refusal.
EveryUpgradeSettles ==
  []<>(cut \cap {"removal", "back", "done"} # {} \/ (Idle /\ Settled))
=============================================================================
