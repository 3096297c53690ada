------------------------------- MODULE Replica -------------------------------
(***************************************************************************)
(* The audit replica (.veldo/control_replica.py) and the publication       *)
(* cursor of the store that drives it (.veldo/control_store.py).  One      *)
(* publisher turns every committed record into one Git commit of a local   *)
(* audit ref, pushes it to a remote ref with a compare-and-swap lease, has *)
(* the remote confirm it, records the acknowledgement, and then dispatches *)
(* what is acknowledged off this host.  Between any two of these it may be *)
(* killed; the remote may be out of reach, lose an answer, lose history or *)
(* take a foreign commit; a commit may be forged in the local repository;  *)
(* the operations authority pauses and resumes at any moment.              *)
(*                                                                         *)
(* Abstracted: a commit is the sequence of exports it carries, itself and  *)
(* its ancestors; an export is its sequence number and whether its bytes   *)
(* and signature are the authority's.  Binding a row to its export id      *)
(* (record_export) is a function of the record and changes nothing read    *)
(* here.  A raised error ends a run like a crash.  External: Git, the      *)
(* remote, and whoever receives a dispatch.                                *)
(***************************************************************************)
EXTENDS Integers, Sequences, SequencesExt

CONSTANTS
  MaxSeq,      \* bound: records committed
  Legacy,      \* records written before the publication cursor existed
  Grades,      \* the grades a publisher may be constructed with
  MaxTampers,  \* bound: changes to a ref that are not the publisher's
  MaxCrashes   \* bound: kills of the publisher

ASSUME ReplicaAssumption ==
  /\ MaxSeq \in Nat /\ MaxTampers \in Nat /\ MaxCrashes \in Nat
  /\ Legacy \in 0..MaxSeq
  /\ Grades \subseteq {"off_host", "protocol_only"} /\ Grades # {}

VARIABLES
  committed,   \* the last sequence of the journal
  rows,        \* the publication table: sequence -> row
  paused,      \* publication_control.paused_reason
  local,       \* the audit ref of the local bare repository
  remote,      \* the audit ref of the remote
  grade,       \* the grade of the publisher that is running
  pc,          \* where the publisher is
  todo,        \* the sequences its current loop has left
  commit,      \* the audit commit of the sequence it is at
  tip,         \* the remote tip it judged
  handed,      \* sequences handed to dispatch
  tampers, crashes

cursor == <<committed, rows, paused>>
refs == <<local, remote>>
publisher == <<pc, todo, commit, tip>>
counters == <<tampers, crashes>>
vars == <<cursor, refs, publisher, grade, handed, counters>>

NoCommit == <<>>
Export(s) == [seq |-> s, sound |-> TRUE]
Forged(s) == [seq |-> s, sound |-> FALSE]

PendingRow == [commit |-> NoCommit, grade |-> "none", dispatched |-> FALSE]

Init ==
  /\ committed = Legacy
  /\ rows = [s \in {} |-> PendingRow]
  /\ paused = "none"
  /\ local = NoCommit /\ remote = NoCommit
  /\ grade \in Grades
  /\ pc = "idle" /\ todo = {} /\ commit = NoCommit /\ tip = NoCommit
  /\ handed = {}
  /\ tampers = 0 /\ crashes = 0

-----------------------------------------------------------------------------
(* The publication cursor.                                                 *)

Gaps == (1..committed) \ DOMAIN rows
Acked == {s \in DOMAIN rows : rows[s].commit # NoCommit}
Pending == DOMAIN rows \ Acked
Undispatched == {s \in Acked : rows[s].grade = "off_host" /\ ~rows[s].dispatched}

\* A record and its publication row commit together; a store with gaps is not opened.
CommitRecord ==
  /\ committed < MaxSeq
  /\ Gaps = {}
  /\ committed' = committed + 1
  /\ rows' = [s \in 1..(committed + 1) |-> IF s \in DOMAIN rows THEN rows[s] ELSE PendingRow]
  /\ UNCHANGED <<paused, refs, publisher, grade, handed, counters>>

\* backfill_publication: one pending row for each sequence that lacks one.
Backfill ==
  /\ Gaps # {}
  /\ rows' = [s \in 1..committed |-> IF s \in DOMAIN rows THEN rows[s] ELSE PendingRow]
  /\ UNCHANGED <<committed, paused, refs, publisher, grade, handed, counters>>

OperatorPause ==
  /\ paused = "none"
  /\ paused' = "operator"
  /\ UNCHANGED <<committed, rows, refs, publisher, grade, handed, counters>>

Resume ==
  /\ paused # "none"
  /\ paused' = "none"
  /\ UNCHANGED <<committed, rows, refs, publisher, grade, handed, counters>>

-----------------------------------------------------------------------------
(* The publisher: the ends of a run.                                       *)

GoTo(l) == pc' = l

\* A run ends; nothing of it is remembered but the repository and the cursor.
EndRun ==
  /\ GoTo("idle")
  /\ todo' = {} /\ commit' = NoCommit /\ tip' = NoCommit

\* The run ends and publication is paused by name.
PauseRun(reason) ==
  /\ paused' = reason
  /\ EndRun
  /\ UNCHANGED <<committed, rows, refs, grade, handed, counters>>

\* The run ends for now: the remote is out of reach or answered something else.
StopRun ==
  /\ EndRun
  /\ UNCHANGED <<cursor, refs, grade, handed, counters>>

-----------------------------------------------------------------------------
(* The publisher: publishing.                                              *)

\* Mutant: a pause does not keep a run from starting.
PreconditionsUnpaused == Gaps = {}
Preconditions == Gaps = {} /\ paused = "none"

\* reconcile: the remote is judged even when nothing is pending.
StartReconcile ==
  /\ pc = "idle"
  /\ Preconditions
  /\ GoTo("survey")
  /\ UNCHANGED <<cursor, refs, todo, commit, tip, grade, handed, counters>>

\* publish_pending: the pending rows are listed once.
StartPublish ==
  /\ pc \in {"idle", "surveyed"}
  /\ Preconditions
  /\ GoTo("next")
  /\ todo' = Pending
  /\ UNCHANGED <<cursor, refs, commit, tip, grade, handed, counters>>

\* A pause between the survey and the listing ends the run.
StopSurveyed ==
  /\ pc = "surveyed"
  /\ ~Preconditions
  /\ StopRun

\* The remote named a commit that is not in the local chain.
Divergent == remote # NoCommit /\ ~IsPrefix(remote, local)

\* Mutant: acknowledged history is not compared with the remote.
LostHistoryUnchecked == FALSE
\* The remote is behind the last export it acknowledged.
LostHistory ==
  \E last \in Acked :
    /\ \A s \in Acked : s <= last
    /\ IsPrefix(rows[last].commit, local)
    /\ Len(remote) < Len(rows[last].commit)

Trusted == ~Divergent /\ ~LostHistory

DistrustRemote ==
  /\ pc \in {"survey", "prepared"}
  /\ \/ Divergent /\ PauseRun("divergent_replica")
     \/ ~Divergent /\ LostHistory /\ PauseRun("lost_acknowledged_history")

SurveyRemote ==
  /\ pc = "survey"
  /\ Trusted
  /\ GoTo("surveyed")
  /\ UNCHANGED <<cursor, refs, todo, commit, tip, grade, handed, counters>>

\* A loop takes what it has left in order.
AtHand(s) == s \in todo /\ \A u \in todo : s <= u

\* The commits of the chain whose subject names the export, by their place.
Candidates(s) == {i \in 1..Len(local) : local[i].seq = s}
Newest(s, i) == i \in Candidates(s) /\ \A j \in Candidates(s) : j <= i

\* Mutant: a restarted run does not look for the commit it prepared.
PrepareAgain ==
  /\ pc = "next"
  /\ \E s \in todo : AtHand(s) /\ local' = Append(local, Export(s))
  /\ commit' = local'
  /\ GoTo("prepared")
  /\ UNCHANGED <<cursor, remote, todo, tip, grade, handed, counters>>

\* prepare: the newest candidate is reused once validated, and a commit made on the
\* local tip when there is none.
Prepare ==
  /\ pc = "next"
  /\ \E s \in todo :
       /\ AtHand(s)
       /\ \/ /\ Candidates(s) = {}
             /\ local' = Append(local, Export(s))
             /\ commit' = local'
             /\ GoTo("prepared")
             /\ UNCHANGED <<cursor, remote, todo, tip, grade, handed, counters>>
          \/ \E i \in Candidates(s) :
               /\ Newest(s, i)
               /\ \/ /\ local[i].sound
                     /\ commit' = SubSeq(local, 1, i)
                     /\ GoTo("prepared")
                     /\ UNCHANGED <<cursor, refs, todo, tip, grade, handed, counters>>
                  \/ /\ ~local[i].sound
                     /\ PauseRun("invalid_export_commit")

\* The remote can be trusted.  It holds the commit already when an acknowledgement
\* was lost (the commit was validated when it was prepared and is immutable).
JudgeRemote ==
  /\ pc = "prepared"
  /\ Trusted
  /\ tip' = remote
  /\ GoTo(IF Len(remote) >= Len(commit) THEN "confirmed" ELSE "judged")
  /\ UNCHANGED <<cursor, refs, todo, commit, grade, handed, counters>>

\* Mutant: the push is forced.
PushForced ==
  /\ pc = "judged"
  /\ remote' = commit
  /\ GoTo("pushed")
  /\ UNCHANGED <<cursor, local, todo, commit, tip, grade, handed, counters>>

\* The lease holds: the remote still names the tip that was judged.
Push ==
  /\ pc = "judged"
  /\ remote = tip
  /\ remote' = commit
  /\ GoTo("pushed")
  /\ UNCHANGED <<cursor, local, todo, commit, tip, grade, handed, counters>>

\* The ref moved and the answer of the push was lost.
PushUnanswered ==
  /\ pc = "judged"
  /\ remote = tip
  /\ remote' = commit
  /\ EndRun
  /\ UNCHANGED <<cursor, local, grade, handed, counters>>

PushRejected ==
  /\ pc = "judged"
  /\ remote # tip
  /\ StopRun

\* The remote's own answer that the ref names the commit.
Confirm ==
  /\ pc = "pushed"
  /\ remote = commit
  /\ GoTo("confirmed")
  /\ UNCHANGED <<cursor, refs, todo, commit, tip, grade, handed, counters>>

Unconfirmed ==
  /\ pc = "pushed"
  /\ remote # commit
  /\ StopRun

Unreachable ==
  /\ pc \in {"survey", "prepared", "judged", "pushed"}
  /\ StopRun

\* Mutant: a restarted run acknowledges the prepared commit without a push.
AcknowledgePrepared ==
  /\ pc \in {"prepared", "confirmed"}
  /\ \E s \in todo :
       /\ AtHand(s)
       /\ rows' = [rows EXCEPT ![s].commit = commit, ![s].grade = grade]
       /\ todo' = todo \ {s}
  /\ GoTo("next")
  /\ UNCHANGED <<committed, paused, refs, commit, tip, grade, handed, counters>>

Acknowledge ==
  /\ pc = "confirmed"
  /\ \E s \in todo :
       /\ AtHand(s)
       /\ rows' = [rows EXCEPT ![s].commit = commit, ![s].grade = grade]
       /\ todo' = todo \ {s}
  /\ GoTo("next")
  /\ UNCHANGED <<committed, paused, refs, commit, tip, grade, handed, counters>>

-----------------------------------------------------------------------------
(* The publisher: the dispatch obligation.                                 *)

\* Mutant: whatever is acknowledged is dispatched.
StartDispatchAnyGrade ==
  /\ pc = "next" /\ todo = {}
  /\ paused = "none"
  /\ todo' = {s \in Acked : ~rows[s].dispatched}
  /\ GoTo("dispatch")
  /\ UNCHANGED <<cursor, refs, commit, tip, grade, handed, counters>>

\* Mutant: the obligation is recorded as met before it is.
StartDispatchRecorded ==
  /\ pc = "next" /\ todo = {}
  /\ paused = "none"
  /\ todo' = Undispatched
  /\ rows' = [s \in DOMAIN rows |-> [rows[s] EXCEPT !.dispatched = @ \/ s \in Undispatched]]
  /\ GoTo("dispatch")
  /\ UNCHANGED <<committed, paused, refs, commit, tip, grade, handed, counters>>

\* dispatch_pending: the pause is read once and the obligations are listed once.
StartDispatch ==
  /\ pc = "next" /\ todo = {}
  /\ paused = "none"
  /\ todo' = Undispatched
  /\ GoTo("dispatch")
  /\ UNCHANGED <<cursor, refs, commit, tip, grade, handed, counters>>

SkipDispatch ==
  /\ pc = "next" /\ todo = {}
  /\ paused # "none"
  /\ StopRun

Dispatch ==
  /\ pc = "dispatch"
  /\ \E s \in todo : AtHand(s) /\ handed' = handed \cup {s}
  /\ GoTo("handed")
  /\ UNCHANGED <<cursor, refs, todo, commit, tip, grade, counters>>

MarkDispatched ==
  /\ pc = "handed"
  /\ \E s \in todo :
       /\ AtHand(s)
       /\ rows' = [rows EXCEPT ![s].dispatched = TRUE]
       /\ todo' = todo \ {s}
  /\ GoTo("dispatch")
  /\ UNCHANGED <<committed, paused, refs, commit, tip, grade, handed, counters>>

FinishRun ==
  /\ pc = "dispatch" /\ todo = {}
  /\ StopRun

-----------------------------------------------------------------------------
(* The surroundings.                                                       *)

\* A kill at any point of a run.
Crash ==
  /\ pc # "idle"
  /\ crashes < MaxCrashes
  /\ crashes' = crashes + 1
  /\ EndRun
  /\ UNCHANGED <<cursor, refs, grade, handed, tampers>>

\* The next run is a publisher over a remote of another grade.
Reconfigure ==
  /\ pc = "idle"
  /\ \E g \in Grades \ {grade} : grade' = g
  /\ UNCHANGED <<cursor, refs, publisher, handed, counters>>

\* The remote ref is moved by somebody else: a foreign commit, a loss of history, a
\* restoration.
TamperRemote ==
  /\ tampers < MaxTampers
  /\ \E r \in {Append(remote, Forged(0))} \cup {SubSeq(local, 1, n) : n \in 0..Len(local)} :
       r # remote /\ remote' = r
  /\ tampers' = tampers + 1
  /\ UNCHANGED <<cursor, local, publisher, grade, handed, crashes>>

\* A commit that names an export without being it appears in the local repository.
ForgeLocal ==
  /\ tampers < MaxTampers
  /\ \E s \in 1..MaxSeq : local' = Append(local, Forged(s))
  /\ tampers' = tampers + 1
  /\ UNCHANGED <<cursor, remote, publisher, grade, handed, crashes>>

Publisher ==
  \/ StartReconcile \/ StartPublish \/ StopSurveyed \/ SurveyRemote \/ DistrustRemote
  \/ Prepare \/ JudgeRemote \/ Push \/ PushUnanswered \/ PushRejected \/ Confirm
  \/ Unconfirmed \/ Unreachable \/ Acknowledge \/ StartDispatch \/ SkipDispatch
  \/ Dispatch \/ MarkDispatched \/ FinishRun

Next ==
  \/ CommitRecord \/ Backfill \/ OperatorPause \/ Resume
  \/ Publisher
  \/ Crash \/ Reconfigure \/ TamperRemote \/ ForgeLocal

Spec == Init /\ [][Next]_vars

\* Somebody keeps running the publisher, and a remote asked again and again answers
\* again and again.
Fairness ==
  /\ WF_vars(Publisher)
  /\ SF_vars(SurveyRemote) /\ SF_vars(JudgeRemote) /\ SF_vars(DistrustRemote)
  /\ SF_vars(Push) /\ SF_vars(Confirm)

FairSpec == Spec /\ Fairness

-----------------------------------------------------------------------------
(* Properties.                                                             *)

Entry == [seq : 0..MaxSeq, sound : BOOLEAN]
History == Seq(Entry)
Pauses == {"divergent_replica", "lost_acknowledged_history", "invalid_export_commit"}

\* Type invariant: the cursor, the refs and the run hold what their tables and
\* repositories can hold.
TypeOK ==
  /\ committed \in 0..MaxSeq
  /\ DOMAIN rows \subseteq 1..committed
  /\ \A s \in DOMAIN rows :
       rows[s] \in [commit : History, grade : Grades \cup {"none"}, dispatched : BOOLEAN]
  /\ paused \in {"none", "operator"} \cup Pauses
  /\ local \in History /\ remote \in History
  /\ grade \in Grades
  /\ pc \in {"idle", "survey", "surveyed", "next", "prepared", "judged", "pushed",
             "confirmed", "dispatch", "handed"}
  /\ todo \subseteq DOMAIN rows
  /\ commit \in History /\ tip \in History
  /\ handed \subseteq 1..committed
  /\ tampers \in 0..MaxTampers /\ crashes \in 0..MaxCrashes

\* The remote holds everything it acknowledged, through every crash, lost answer and
\* retry, as long as nobody else moves a ref.
AcknowledgedIsHeld ==
  tampers = 0 => \A s \in Acked : IsPrefix(rows[s].commit, remote)

\* Acknowledged history is the whole journal up to a point, in order: every export
\* sits on the one before it and no sequence is exported twice, whatever happened to
\* either ref (one identity per sequence, parent is the previous export).
HistoryIsComplete ==
  \A t \in Acked :
    /\ Last(rows[t].commit) = Export(t)
    /\ \A s \in 1..(t - 1) : s \in Acked /\ IsPrefix(rows[s].commit, rows[t].commit)
    /\ \A i, j \in 1..Len(rows[t].commit) :
         rows[t].commit[i] = rows[t].commit[j] /\ rows[t].commit[i].sound => i = j

\* The publisher only ever extends what the remote holds, and never moves a remote
\* that lost acknowledged history: tampering between the judgement and the push is
\* caught by the lease, a loss is surfaced and not silently repaired.
PushExtendsAcknowledged ==
  [][remote' # remote /\ pc' # pc =>
       /\ IsPrefix(remote, remote')
       /\ \A s \in Acked : IsPrefix(rows[s].commit, remote)]_vars

\* Nothing leaves the control plane before a remote off this host holds its record.
DispatchedIsDurable ==
  \A s \in handed : s \in Acked /\ rows[s].grade = "off_host"

\* Once the publisher has paused for what it found, nothing is acknowledged, pushed or
\* dispatched until the operations authority resumes.
OwnPauseStops ==
  [][(paused \in Pauses /\ paused' = paused) =>
       Acked' = Acked /\ handed' = handed /\ publisher' = publisher]_vars

\* Every committed record is acknowledged and, off host, its dispatch obligation met
\* and recorded, unless publication is paused or a backfill is due: no crash window
\* loses an obligation.
EventuallyDelivered ==
  \A s \in 1..MaxSeq :
    (s <= committed) ~>
      (\/ paused # "none" \/ Gaps # {}
       \/ s \in Acked /\ (rows[s].grade = "off_host" => s \in handed /\ rows[s].dispatched))

\* dispatch_pending's own words: "Nothing is dispatched while publication is paused."
NothingDispatchedWhilePaused ==
  [][paused # "none" => handed' = handed]_vars
=============================================================================
