---------------------------- MODULE ReplicaProofs ----------------------------
(***************************************************************************)
(* What the audit replica's publisher can be relied on for, for any number *)
(* of records, crashes, tamperings and reconfigurations.                   *)
(*                                                                         *)
(* The invariant: the local chain carries the authority's exports in the   *)
(* order of their sequences, whatever was forged between them; what is     *)
(* acknowledged is the journal up to a point, each record by the part of   *)
(* the chain that ends in its export; and a run takes the pending records  *)
(* in order, so the next export is made when all before it are             *)
(* acknowledged and found again when a run before this one made it.        *)
(***************************************************************************)
EXTENDS Replica, TLAPS

\* Where a run's loop is over pending records, where it has a commit in hand, and where its
\* loop is over obligations.
Publishing == {"next", "prepared", "judged", "pushed", "confirmed"}
InHand == {"prepared", "judged", "pushed", "confirmed"}
Delivering == {"dispatch", "handed"}

OffHost == {s \in Acked : rows[s].grade = "off_host"}

\* The authority's exports on the local chain, each made after all before it were
\* acknowledged.
ChainInv ==
  /\ \A i, j \in 1..Len(local) :
       i < j /\ local[i].sound /\ local[j].sound => local[i].seq < local[j].seq
  /\ \A i \in 1..Len(local) : local[i].sound => \A s \in 1..(local[i].seq - 1) : s \in Acked

\* What is acknowledged.
AckedInv ==
  /\ \E k \in 0..committed : Acked = 1..k
  /\ \A t \in Acked : IsPrefix(rows[t].commit, local) /\ Last(rows[t].commit) = Export(t)
  /\ handed \subseteq OffHost

\* What a run knows of what it is doing.
RunInv ==
  /\ pc # "idle" => Gaps = {} /\ paused \notin Pauses
  /\ pc \in Publishing => /\ todo \subseteq Pending
                          /\ \A u \in todo, s \in Pending \ todo : u < s
  /\ pc \in InHand => /\ commit # NoCommit /\ IsPrefix(commit, local)
                      /\ \E s \in todo : AtHand(s) /\ Last(commit) = Export(s)
  /\ pc = "judged" => /\ IsPrefix(tip, local) /\ Len(tip) < Len(commit)
                      /\ \A s \in Acked : IsPrefix(rows[s].commit, tip)
  /\ pc \in Delivering => todo \subseteq OffHost

\* What the remote holds when nobody else has moved a ref.
RemoteInv ==
  tampers = 0 => /\ IsPrefix(remote, local)
                 /\ \A s \in Acked : IsPrefix(rows[s].commit, remote)
                 /\ pc = "confirmed" => IsPrefix(commit, remote)

ReplicaInv == TypeOK /\ ChainInv /\ AckedInv /\ RunInv /\ RemoteInv

-----------------------------------------------------------------------------
(* Prefixes.                                                               *)

\* A prefix is a shorter sequence with the same members.
LEMMA PrefixFacts ==
  ASSUME NEW S, NEW a \in Seq(S), NEW b \in Seq(S)
  PROVE  IsPrefix(a, b) <=> Len(a) <= Len(b) /\ \A i \in 1..Len(a) : a[i] = b[i]
<1>1. ASSUME IsPrefix(a, b), NEW i \in 1..Len(a)
      PROVE  a[i] = b[i]
  BY <1>1 DEF IsPrefix
<1>2. ASSUME Len(a) <= Len(b), \A i \in 1..Len(a) : a[i] = b[i]
      PROVE  SubSeq(a, 1, Len(a)) = SubSeq(b, 1, Len(a))
  BY <1>2
<1>3. QED
  BY <1>1, <1>2 DEF IsPrefix

\* Prefixes of prefixes, of longer sequences and of one sequence.
LEMMA PrefixOrder ==
  ASSUME NEW S, NEW a \in Seq(S), NEW b \in Seq(S), NEW c \in Seq(S)
  PROVE  /\ IsPrefix(<<>>, a)
         /\ IsPrefix(a, a)
         /\ IsPrefix(a, b) /\ IsPrefix(b, c) => IsPrefix(a, c)
         /\ \A e \in S : IsPrefix(a, b) => IsPrefix(a, Append(b, e))
         /\ IsPrefix(a, c) /\ IsPrefix(b, c) /\ Len(a) <= Len(b) => IsPrefix(a, b)
<1>1. IsPrefix(<<>>, a) /\ IsPrefix(a, a)
  BY DEF IsPrefix
<1>2. IsPrefix(a, b) /\ IsPrefix(b, c) => IsPrefix(a, c)
  BY PrefixFacts
<1>3. ASSUME NEW e \in S, IsPrefix(a, b)
      PROVE  IsPrefix(a, Append(b, e))
  <2>1. Append(b, e) \in Seq(S) /\ Len(Append(b, e)) = Len(b) + 1
        /\ \A i \in 1..Len(b) : Append(b, e)[i] = b[i]
    OBVIOUS
  <2>2. Len(a) <= Len(b) /\ \A i \in 1..Len(a) : a[i] = b[i]
    BY <1>3, PrefixFacts
  <2>3. Len(a) <= Len(Append(b, e)) /\ \A i \in 1..Len(a) : a[i] = Append(b, e)[i]
    BY <2>1, <2>2
  <2>4. QED
    BY <2>1, <2>3, PrefixFacts
<1>4. IsPrefix(a, c) /\ IsPrefix(b, c) /\ Len(a) <= Len(b) => IsPrefix(a, b)
  BY PrefixFacts
<1>5. QED
  BY <1>1, <1>2, <1>3, <1>4

\* The part of a chain that ends at a place.
LEMMA CutFacts ==
  ASSUME NEW S, NEW a \in Seq(S), NEW i \in 1..Len(a)
  PROVE  /\ SubSeq(a, 1, i) \in Seq(S)
         /\ Len(SubSeq(a, 1, i)) = i
         /\ Last(SubSeq(a, 1, i)) = a[i]
         /\ SubSeq(a, 1, i) # <<>>
         /\ IsPrefix(SubSeq(a, 1, i), a)
<1> DEFINE b == SubSeq(a, 1, i)
<1>1. b \in Seq(S) /\ Len(b) = i /\ \A j \in 1..i : b[j] = a[j]
  OBVIOUS
<1>2. i <= Len(a) /\ Len(a) \in Nat /\ i \in Nat
  OBVIOUS
<1> HIDE DEF b
<1>3. IsPrefix(b, a)
  BY <1>1, <1>2, PrefixFacts
<1>4. Last(b) = a[i] /\ b # <<>>
  BY <1>1 DEF Last
<1>5. QED
  BY <1>1, <1>3, <1>4 DEF b

\* A chain with one commit more.
LEMMA AppendFacts ==
  ASSUME NEW S, NEW a \in Seq(S), NEW e \in S
  PROVE  /\ Append(a, e) \in Seq(S)
         /\ Len(Append(a, e)) = Len(a) + 1
         /\ \A i \in 1..Len(a) : Append(a, e)[i] = a[i]
         /\ Last(Append(a, e)) = e
         /\ Append(a, e) # <<>>
         /\ IsPrefix(a, Append(a, e))
         /\ IsPrefix(Append(a, e), Append(a, e))
<1>1. /\ Append(a, e) \in Seq(S) /\ Len(Append(a, e)) = Len(a) + 1
      /\ \A i \in 1..Len(a) : Append(a, e)[i] = a[i]
      /\ Append(a, e)[Len(a) + 1] = e
  OBVIOUS
<1>2. PICK b \in Seq(S) : b = Append(a, e)
  BY <1>1
<1>3. IsPrefix(b, b) /\ IsPrefix(a, a)
  BY PrefixOrder
<1>4. IsPrefix(a, Append(a, e))
  BY <1>3, PrefixOrder
<1>5. QED
  BY <1>1, <1>2, <1>3, <1>4 DEF Last

-----------------------------------------------------------------------------
(* Types.                                                                  *)

Rows == [commit : History, grade : Grades \cup {"none"}, dispatched : BOOLEAN]

\* What TypeOK says of the rows, as one function.
LEMMA RowFacts ==
  ASSUME TypeOK
  PROVE  /\ committed \in Nat /\ committed <= MaxSeq /\ MaxSeq \in Nat
         /\ \A s \in DOMAIN rows : s \in 1..committed /\ s \in 1..MaxSeq /\ rows[s] \in Rows
         /\ PendingRow \in Rows
         /\ <<>> \in History
         /\ \A s \in 0..MaxSeq : Export(s) \in Entry /\ Forged(s) \in Entry
<1>1. committed \in 0..MaxSeq /\ MaxSeq \in Nat
  BY ReplicaAssumption DEF TypeOK
<1>2. \A s \in DOMAIN rows : s \in 1..committed /\ rows[s] \in Rows
  BY DEF TypeOK, Rows
<1>3. <<>> \in History
  BY DEF History
<1>4. PendingRow \in Rows
  BY <1>3 DEF PendingRow, Rows, NoCommit
<1>5. \A s \in 0..MaxSeq : Export(s) \in Entry /\ Forged(s) \in Entry
  BY DEF Export, Forged, Entry
<1>6. QED
  BY <1>1, <1>2, <1>3, <1>4, <1>5

\* A fresh store, whatever it held before the cursor existed.
LEMMA InitTypes == Init => TypeOK
<1> SUFFICES ASSUME Init PROVE TypeOK
  OBVIOUS
<1>1. <<>> \in History
  BY DEF History
<1>2. committed \in 0..MaxSeq /\ tampers \in 0..MaxTampers /\ crashes \in 0..MaxCrashes
  BY ReplicaAssumption DEF Init
<1>3. QED
  BY <1>1, <1>2 DEF Init, TypeOK, NoCommit

\* The end of a run keeps the run's types.
LEMMA EndTypes ==
  ASSUME TypeOK, EndRun
  PROVE  pc' = "idle" /\ todo' = {} /\ commit' \in History /\ tip' \in History
BY RowFacts DEF EndRun, GoTo, NoCommit

\* The cursor's operations.
LEMMA CursorTypes ==
  ASSUME TypeOK, CommitRecord \/ Backfill \/ OperatorPause \/ Resume
  PROVE  TypeOK'
<1>1. CASE CommitRecord
  <2>1. committed' \in 0..MaxSeq /\ DOMAIN rows' = 1..committed' /\ DOMAIN rows \subseteq DOMAIN rows'
        /\ handed \subseteq 1..committed'
    BY <1>1, RowFacts DEF CommitRecord, TypeOK
  <2>2. \A s \in DOMAIN rows' : rows'[s] \in Rows
    BY <1>1, RowFacts DEF CommitRecord
  <2>3. QED
    BY <1>1, <2>1, <2>2 DEF CommitRecord, TypeOK, refs, publisher, counters, Rows
<1>2. CASE Backfill
  <2>1. committed' = committed /\ DOMAIN rows' = 1..committed' /\ DOMAIN rows \subseteq DOMAIN rows'
    BY <1>2, RowFacts DEF Backfill, TypeOK
  <2>2. \A s \in DOMAIN rows' : rows'[s] \in Rows
    BY <1>2, RowFacts DEF Backfill
  <2>3. QED
    BY <1>2, <2>1, <2>2 DEF Backfill, TypeOK, refs, publisher, counters, Rows
<1>3. CASE OperatorPause \/ Resume
  BY <1>3 DEF OperatorPause, Resume, TypeOK, refs, publisher, counters
<1>4. QED
  BY <1>1, <1>2, <1>3

\* Runs that end, for a pause or for now.
LEMMA StopTypes ==
  ASSUME TypeOK, StopRun \/ \E r \in Pauses : PauseRun(r)
  PROVE  TypeOK'
<1>1. pc' = "idle" /\ todo' = {} /\ commit' \in History /\ tip' \in History
  BY EndTypes DEF StopRun, PauseRun
<1>2. QED
  BY <1>1 DEF StopRun, PauseRun, TypeOK, cursor, refs, counters

\* Publishing.
LEMMA PublishTypes ==
  ASSUME TypeOK,
         \/ StartReconcile \/ StartPublish \/ StopSurveyed \/ SurveyRemote \/ DistrustRemote
         \/ Prepare \/ JudgeRemote \/ Push \/ PushUnanswered \/ PushRejected \/ Confirm
         \/ Unconfirmed \/ Unreachable
  PROVE  TypeOK'
<1>1. CASE StopSurveyed \/ PushRejected \/ Unconfirmed \/ Unreachable
  BY <1>1, StopTypes DEF StopSurveyed, PushRejected, Unconfirmed, Unreachable
<1>2. CASE DistrustRemote
  BY <1>2, StopTypes DEF DistrustRemote, Pauses
<1>3. CASE StartReconcile \/ SurveyRemote \/ Confirm
  BY <1>3 DEF StartReconcile, SurveyRemote, Confirm, GoTo, TypeOK, cursor, refs, counters
<1>4. CASE StartPublish
  <2>1. Pending \subseteq DOMAIN rows
    BY DEF Pending
  <2>2. QED
    BY <1>4, <2>1 DEF StartPublish, GoTo, TypeOK, cursor, refs, counters
<1>5. CASE JudgeRemote
  BY <1>5 DEF JudgeRemote, GoTo, TypeOK, cursor, refs, counters
<1>6. CASE Push
  BY <1>6 DEF Push, GoTo, TypeOK, cursor, counters
<1>7. CASE PushUnanswered
  BY <1>7, EndTypes DEF PushUnanswered, TypeOK, cursor, counters
<1>8. CASE Prepare
  <2>1. PICK s \in todo :
           \/ /\ local' = Append(local, Export(s))
              /\ commit' = local'
              /\ GoTo("prepared")
              /\ UNCHANGED <<cursor, remote, todo, tip, grade, handed, counters>>
           \/ \E i \in Candidates(s) :
                \/ /\ commit' = SubSeq(local, 1, i)
                   /\ GoTo("prepared")
                   /\ UNCHANGED <<cursor, refs, todo, tip, grade, handed, counters>>
                \/ PauseRun("invalid_export_commit")
    BY <1>8 DEF Prepare
  <2>2. CASE local' = Append(local, Export(s)) /\ commit' = local' /\ GoTo("prepared")
             /\ UNCHANGED <<cursor, remote, todo, tip, grade, handed, counters>>
    <3>1. Export(s) \in Entry /\ local \in Seq(Entry)
      BY RowFacts DEF TypeOK, History
    <3>2. local' \in History
      BY <2>2, <3>1 DEF History
    <3>3. QED
      BY <2>2, <3>2 DEF GoTo, TypeOK, cursor, counters
  <2>3. ASSUME NEW i \in Candidates(s), commit' = SubSeq(local, 1, i), GoTo("prepared"),
               UNCHANGED <<cursor, refs, todo, tip, grade, handed, counters>>
        PROVE  TypeOK'
    <3>1. commit' \in History
      BY <2>3, CutFacts DEF Candidates, TypeOK, History
    <3>2. QED
      BY <2>3, <3>1 DEF GoTo, TypeOK, cursor, refs, counters
  <2>4. CASE PauseRun("invalid_export_commit")
    BY <2>4, StopTypes DEF Pauses
  <2>5. QED
    BY <2>1, <2>2, <2>3, <2>4
<1>9. QED
  BY <1>1, <1>2, <1>3, <1>4, <1>5, <1>6, <1>7, <1>8

\* A row that is acknowledged or dispatched stays a row.
LEMMA RowTypes ==
  ASSUME TypeOK, NEW s \in todo, NEW r \in Rows, rows' = [rows EXCEPT ![s] = r],
         todo' = todo \ {s}
  PROVE  /\ DOMAIN rows' = DOMAIN rows
         /\ \A u \in DOMAIN rows' : rows'[u] \in Rows
         /\ todo' \subseteq DOMAIN rows'
BY RowFacts DEF TypeOK

\* Acknowledging and delivering.
LEMMA DeliverTypes ==
  ASSUME TypeOK,
         Acknowledge \/ StartDispatch \/ SkipDispatch \/ Dispatch \/ MarkDispatched \/ FinishRun
  PROVE  TypeOK'
<1>1. CASE Acknowledge
  <2>1. PICK s \in todo :
           /\ rows' = [rows EXCEPT ![s].commit = commit, ![s].grade = grade]
           /\ todo' = todo \ {s}
    BY <1>1 DEF Acknowledge
  <2>2. rows[s] \in Rows
    BY <2>1, RowFacts DEF TypeOK
  <2>3. PICK r \in Rows : r = [rows[s] EXCEPT !.commit = commit, !.grade = grade]
    BY <2>2 DEF Rows, TypeOK
  <2>4. rows' = [rows EXCEPT ![s] = r]
    BY <2>1, <2>3
  <2>5. DOMAIN rows' = DOMAIN rows /\ (\A u \in DOMAIN rows' : rows'[u] \in Rows)
        /\ todo' \subseteq DOMAIN rows'
    BY <2>1, <2>4, RowTypes
  <2>6. QED
    BY <1>1, <2>5 DEF Acknowledge, GoTo, TypeOK, Rows, refs, counters
<1>2. CASE MarkDispatched
  <2>1. PICK s \in todo :
           /\ rows' = [rows EXCEPT ![s].dispatched = TRUE]
           /\ todo' = todo \ {s}
    BY <1>2 DEF MarkDispatched
  <2>2. rows[s] \in Rows
    BY <2>1, RowFacts DEF TypeOK
  <2>3. PICK r \in Rows : r = [rows[s] EXCEPT !.dispatched = TRUE]
    BY <2>2 DEF Rows
  <2>4. rows' = [rows EXCEPT ![s] = r]
    BY <2>1, <2>3
  <2>5. DOMAIN rows' = DOMAIN rows /\ (\A u \in DOMAIN rows' : rows'[u] \in Rows)
        /\ todo' \subseteq DOMAIN rows'
    BY <2>1, <2>4, RowTypes
  <2>6. QED
    BY <1>2, <2>5 DEF MarkDispatched, GoTo, TypeOK, Rows, refs, counters
<1>3. CASE StartDispatch
  <2>1. Undispatched \subseteq DOMAIN rows
    BY DEF Undispatched, Acked
  <2>2. QED
    BY <1>3, <2>1 DEF StartDispatch, GoTo, TypeOK, cursor, refs, counters
<1>4. CASE Dispatch
  <2>1. handed' \subseteq 1..committed
    BY <1>4, RowFacts DEF Dispatch, TypeOK
  <2>2. QED
    BY <1>4, <2>1 DEF Dispatch, GoTo, TypeOK, cursor, refs, counters
<1>5. CASE SkipDispatch \/ FinishRun
  BY <1>5, StopTypes DEF SkipDispatch, FinishRun
<1>6. QED
  BY <1>1, <1>2, <1>3, <1>4, <1>5

\* The surroundings.
LEMMA RestTypes ==
  ASSUME TypeOK, Crash \/ Reconfigure \/ TamperRemote \/ ForgeLocal
  PROVE  TypeOK'
<1>1. CASE Crash
  <2>1. crashes' \in 0..MaxCrashes
    BY <1>1, ReplicaAssumption DEF Crash, TypeOK
  <2>2. QED
    BY <1>1, <2>1, EndTypes DEF Crash, TypeOK, cursor, refs
<1>2. CASE Reconfigure
  BY <1>2 DEF Reconfigure, TypeOK, cursor, refs, publisher, counters
<1>3. ASSUME TamperRemote \/ ForgeLocal
      PROVE  tampers' \in 0..MaxTampers
  BY <1>3, ReplicaAssumption DEF TamperRemote, ForgeLocal, TypeOK
<1>4. CASE TamperRemote
  <2>1. Append(remote, Forged(0)) \in History
    BY RowFacts DEF TypeOK, History
  <2>2. \A n \in 0..Len(local) : SubSeq(local, 1, n) \in History
    BY DEF TypeOK, History
  <2>3. remote' \in History
    BY <1>4, <2>1, <2>2 DEF TamperRemote
  <2>4. QED
    BY <1>3, <1>4, <2>3 DEF TamperRemote, TypeOK, cursor, publisher
<1>5. CASE ForgeLocal
  <2>1. \A s \in 1..MaxSeq : Append(local, Forged(s)) \in History
    BY RowFacts DEF TypeOK, History
  <2>2. local' \in History
    BY <1>5, <2>1 DEF ForgeLocal
  <2>3. QED
    BY <1>3, <1>5, <2>2 DEF ForgeLocal, TypeOK, cursor, publisher
<1>6. QED
  BY <1>1, <1>2, <1>4, <1>5

\* Every step keeps the types.
LEMMA NextTypes == TypeOK /\ [Next]_vars => TypeOK'
<1>1. ASSUME TypeOK, UNCHANGED vars
      PROVE  TypeOK'
  BY <1>1 DEF vars, cursor, refs, publisher, counters, TypeOK
<1>2. QED
  BY <1>1, CursorTypes, PublishTypes, DeliverTypes, RestTypes DEF Next, Publisher

\* Type correctness of the publisher, its repository and the publication cursor
\* (control_replica.py over control_store.py).
THEOREM ReplicaTypeCorrect == Spec => []TypeOK
<1>1. QED
  BY InitTypes, NextTypes, PTL DEF Spec

-----------------------------------------------------------------------------
(* What the invariant says.                                                *)

\* Acknowledged commits are in the order of their sequences, each on the chain of the next.
LEMMA AckedInOrder ==
  ASSUME TypeOK, ChainInv, AckedInv, NEW t \in Acked, NEW s \in Acked, s <= t
  PROVE  IsPrefix(rows[s].commit, rows[t].commit)
<1>1. /\ s \in 1..MaxSeq /\ t \in 1..MaxSeq
      /\ rows[s].commit \in Seq(Entry) /\ rows[t].commit \in Seq(Entry) /\ local \in Seq(Entry)
      /\ rows[s].commit # <<>> /\ rows[t].commit # <<>>
  BY RowFacts DEF Acked, Rows, TypeOK, History, NoCommit
<1>2. PICK a \in Seq(Entry), b \in Seq(Entry) : a = rows[s].commit /\ b = rows[t].commit
  BY <1>1
<1>3. IsPrefix(a, local) /\ IsPrefix(b, local) /\ a[Len(a)] = Export(s) /\ b[Len(b)] = Export(t)
  BY <1>2 DEF AckedInv, Last
<1>4. Len(a) \in 1..Len(a) /\ Len(b) \in 1..Len(b)
  BY <1>1, <1>2
<1>5. /\ Len(a) \in 1..Len(local) /\ local[Len(a)] = Export(s)
      /\ Len(b) \in 1..Len(local) /\ local[Len(b)] = Export(t)
  <2>1. ASSUME NEW c \in Seq(Entry), NEW d \in Seq(Entry), IsPrefix(c, d), Len(c) \in 1..Len(c)
        PROVE  Len(c) \in 1..Len(d) /\ d[Len(c)] = c[Len(c)]
    <3>1. Len(c) <= Len(d) /\ \A i \in 1..Len(c) : c[i] = d[i]
      BY <2>1, PrefixFacts
    <3>2. Len(c) \in 1..Len(d)
      BY <2>1, <3>1
    <3>3. QED
      BY <2>1, <3>1, <3>2
  <2>2. local \in Seq(Entry)
    BY <1>1
  <2>3. Len(a) \in 1..Len(local) /\ local[Len(a)] = a[Len(a)]
    BY <1>3, <1>4, <2>1, <2>2
  <2>4. Len(b) \in 1..Len(local) /\ local[Len(b)] = b[Len(b)]
    BY <1>3, <1>4, <2>1, <2>2
  <2>5. QED
    BY <1>3, <2>3, <2>4
<1>6. Len(a) <= Len(b)
  <2>1. SUFFICES ASSUME Len(b) < Len(a) PROVE FALSE
    BY <1>4
  <2>2. local[Len(b)].seq < local[Len(a)].seq
    BY <1>5, <2>1 DEF ChainInv, Export
  <2>3. QED
    BY <1>1, <1>5, <2>2 DEF Export
<1>7. QED
  BY <1>1, <1>2, <1>3, <1>6, PrefixOrder

\* The record a run is at is the first that is not acknowledged.
LEMMA AtHandIsNext ==
  ASSUME TypeOK, AckedInv, RunInv, pc \in Publishing, NEW s \in todo, AtHand(s)
  PROVE  s \in 1..committed /\ s \notin Acked /\ Acked = 1..(s - 1)
<1>1. PICK k \in 0..committed : Acked = 1..k
  BY DEF AckedInv
<1>2. DOMAIN rows = 1..committed /\ committed \in Nat
  BY RowFacts DEF RunInv, Gaps, Publishing
<1>3. s \in Pending /\ s \in 1..committed /\ s \notin Acked
  BY <1>2 DEF RunInv, Pending
<1>4. k + 1 \in Pending /\ k + 1 <= s
  BY <1>1, <1>2, <1>3 DEF Pending
<1>5. s <= k + 1
  BY <1>2, <1>3, <1>4 DEF RunInv, AtHand, Pending
<1>6. QED
  BY <1>1, <1>3, <1>4, <1>5

\* What no step of the run touches.
LEMMA ChainKept ==
  ASSUME ReplicaInv, UNCHANGED <<committed, rows, local, handed>>
  PROVE  ChainInv' /\ AckedInv'
<1>1. Acked' = Acked /\ OffHost' = OffHost
  BY DEF Acked, OffHost
<1>2. QED
  BY <1>1 DEF ReplicaInv, ChainInv, AckedInv

\* A run that ends leaves nothing to say of it.
LEMMA RunEnds ==
  ASSUME ReplicaInv, pc' = "idle", UNCHANGED <<committed, rows, local, remote, handed, tampers>>
  PROVE  ChainInv' /\ AckedInv' /\ RunInv' /\ RemoteInv'
<1>1. Acked' = Acked
  BY DEF Acked
<1>2. RunInv'
  BY DEF RunInv, Publishing, InHand, Delivering
<1>3. RemoteInv'
  BY <1>1 DEF ReplicaInv, RemoteInv
<1>4. QED
  BY <1>2, <1>3, ChainKept

-----------------------------------------------------------------------------
(* The invariant, step by step.                                            *)

\* New rows are pending, and after every row a run has listed.
LEMMA RowsExtend ==
  ASSUME TypeOK, DOMAIN rows \subseteq DOMAIN rows', \A s \in DOMAIN rows : rows'[s] = rows[s],
         \A s \in DOMAIN rows' \ DOMAIN rows : rows'[s] = PendingRow
  PROVE  /\ Acked' = Acked /\ OffHost' = OffHost
         /\ Pending' = Pending \cup (DOMAIN rows' \ DOMAIN rows)
<1>1. PendingRow.commit = NoCommit
  BY DEF PendingRow
<1>2. Acked' = Acked
  BY <1>1 DEF Acked
<1>3. OffHost' = OffHost
  BY <1>2 DEF OffHost, Acked
<1>4. QED
  BY <1>2, <1>3 DEF Pending, Acked

\* The cursor's operations.
LEMMA CursorKeeps ==
  ASSUME ReplicaInv, CommitRecord \/ Backfill \/ OperatorPause \/ Resume
  PROVE  ChainInv' /\ AckedInv' /\ RunInv' /\ RemoteInv'
<1>1. CASE CommitRecord \/ Backfill
  <2>1. /\ DOMAIN rows \subseteq DOMAIN rows' /\ \A s \in DOMAIN rows : rows'[s] = rows[s]
        /\ \A s \in DOMAIN rows' \ DOMAIN rows : rows'[s] = PendingRow
        /\ committed' \in {committed, committed + 1} /\ committed \in Nat
        /\ UNCHANGED <<paused, refs, publisher, grade, handed, counters>>
    BY <1>1, RowFacts DEF ReplicaInv, CommitRecord, Backfill
  <2>2. /\ Acked' = Acked /\ OffHost' = OffHost
        /\ Pending' = Pending \cup (DOMAIN rows' \ DOMAIN rows)
    BY <2>1, RowsExtend DEF ReplicaInv
  <2>3. UNCHANGED <<local, remote, pc, todo, commit, tip, paused, handed, tampers>>
    BY <2>1 DEF refs, publisher, counters
  <2>4. ChainInv'
    BY <2>2, <2>3 DEF ReplicaInv, ChainInv
  <2>5. \A s \in Acked : rows'[s] = rows[s]
    BY <2>1 DEF Acked
  <2>6. AckedInv'
    BY <2>1, <2>2, <2>3, <2>5 DEF ReplicaInv, AckedInv
  <2>7. RemoteInv'
    BY <2>2, <2>3, <2>5 DEF ReplicaInv, RemoteInv
  <2>8. ASSUME pc = "idle" PROVE RunInv'
    BY <2>3, <2>8 DEF RunInv, Publishing, InHand, Delivering
  <2>9. ASSUME pc # "idle" PROVE RunInv'
    <3>1. Gaps = {} /\ CommitRecord /\ RunInv
      BY <1>1, <2>9 DEF ReplicaInv, RunInv, Backfill
    <3>2. /\ DOMAIN rows = 1..committed /\ DOMAIN rows' = 1..(committed + 1)
          /\ committed' = committed + 1
      BY <2>1, <3>1, RowFacts DEF ReplicaInv, Gaps, CommitRecord
    <3>3. Gaps' = {}
      BY <3>2 DEF Gaps
    <3>4. Pending' = Pending \cup {committed + 1}
      BY <2>1, <2>2, <3>2
    <3>5. \A u \in todo : u < committed + 1
      BY <2>1, <3>2 DEF ReplicaInv, TypeOK
    <3>6. pc \in Publishing => /\ todo' \subseteq Pending'
                               /\ \A u \in todo', s \in Pending' \ todo' : u < s
      BY <2>3, <3>1, <3>4, <3>5 DEF RunInv
    <3>7. pc \in InHand => \A s : AtHand(s)' = AtHand(s)
      BY <2>3 DEF AtHand
    <3>8. QED
      BY <2>2, <2>3, <2>5, <3>1, <3>3, <3>6, <3>7 DEF RunInv
  <2>10. QED
    BY <2>4, <2>6, <2>7, <2>8, <2>9
<1>2. CASE OperatorPause \/ Resume
  <2>1. /\ UNCHANGED <<committed, rows, local, remote, pc, todo, commit, tip, handed, tampers>>
        /\ paused' \in {"operator", "none"}
    BY <1>2 DEF OperatorPause, Resume, refs, publisher, counters
  <2>2. Acked' = Acked /\ OffHost' = OffHost /\ Pending' = Pending /\ Gaps' = Gaps
    BY <2>1 DEF Acked, OffHost, Pending, Gaps
  <2>3. RunInv'
    BY <2>1, <2>2 DEF ReplicaInv, RunInv, AtHand, Pauses
  <2>4. RemoteInv'
    BY <2>1, <2>2 DEF ReplicaInv, RemoteInv
  <2>5. UNCHANGED <<committed, rows, local, handed>>
    BY <2>1
  <2>6. QED
    BY <2>3, <2>4, <2>5, ChainKept
<1>3. QED
  BY <1>1, <1>2

\* A run that only moves on, over the cursor and the refs as they are.
LEMMA RunMoves ==
  ASSUME ReplicaInv, UNCHANGED <<committed, rows, paused, local, remote, handed, tampers>>,
         RunInv', tampers = 0 /\ pc' = "confirmed" => IsPrefix(commit', remote)
  PROVE  ChainInv' /\ AckedInv' /\ RunInv' /\ RemoteInv'
<1>1. Acked' = Acked
  BY DEF Acked
<1>2. RemoteInv'
  BY <1>1 DEF ReplicaInv, RemoteInv
<1>3. UNCHANGED <<committed, rows, local, handed>>
  OBVIOUS
<1>4. QED
  BY <1>2, <1>3, ChainKept

\* Runs that end, for a pause, for now or in a crash.
LEMMA StopKeeps ==
  ASSUME ReplicaInv, StopRun \/ (\E r \in Pauses : PauseRun(r)) \/ Crash
  PROVE  ChainInv' /\ AckedInv' /\ RunInv' /\ RemoteInv'
<1>1. pc' = "idle" /\ UNCHANGED <<committed, rows, local, remote, handed, tampers>>
  BY DEF StopRun, PauseRun, Crash, EndRun, GoTo, cursor, refs, counters
<1>2. QED
  BY <1>1, RunEnds

\* A remote that is trusted is on the chain and holds all that is acknowledged.
LEMMA TrustedRemote ==
  ASSUME ReplicaInv, Trusted
  PROVE  IsPrefix(remote, local) /\ \A s \in Acked : IsPrefix(rows[s].commit, remote)
<1>1. /\ TypeOK /\ ChainInv /\ AckedInv
      /\ remote \in Seq(Entry) /\ local \in Seq(Entry)
      /\ \A s \in Acked : rows[s].commit \in Seq(Entry)
  BY RowFacts DEF ReplicaInv, TypeOK, History, Acked, Rows
<1>2. IsPrefix(remote, local)
  <2>1. CASE remote = NoCommit
    BY <1>1, <2>1, PrefixOrder DEF NoCommit
  <2>2. CASE remote # NoCommit
    BY <2>2 DEF Trusted, Divergent
  <2>3. QED
    BY <2>1, <2>2
<1>3. ASSUME NEW s \in Acked
      PROVE  IsPrefix(rows[s].commit, remote)
  <2>1. PICK k \in 0..committed : Acked = 1..k
    BY <1>1 DEF AckedInv
  <2>2. k \in Acked /\ s <= k /\ \A u \in Acked : u <= k
    BY <2>1
  <2>3. IsPrefix(rows[k].commit, local)
    BY <1>1, <2>2 DEF AckedInv
  <2>4. PICK a \in Seq(Entry), b \in Seq(Entry) : a = rows[k].commit /\ b = rows[s].commit
    BY <1>1, <2>2
  <2>5. ~(Len(remote) < Len(a))
    BY <2>2, <2>3, <2>4 DEF Trusted, LostHistory
  <2>6. Len(a) \in Nat /\ Len(remote) \in Nat
    BY <1>1
  <2>7. IsPrefix(a, remote)
    BY <1>1, <1>2, <2>3, <2>4, <2>5, <2>6, PrefixOrder
  <2>8. IsPrefix(b, a)
    BY <1>1, <2>2, <2>4, AckedInOrder
  <2>9. IsPrefix(b, remote)
    BY <1>1, <2>7, <2>8, PrefixOrder
  <2>10. QED
    BY <2>4, <2>9
<1>4. QED
  BY <1>2, <1>3

\* Surveying, listing and judging.
LEMMA SurveyKeeps ==
  ASSUME ReplicaInv, StartReconcile \/ StartPublish \/ SurveyRemote \/ Confirm \/ Reconfigure
  PROVE  ChainInv' /\ AckedInv' /\ RunInv' /\ RemoteInv'
<1> DEFINE Still == UNCHANGED <<committed, rows, paused, local, remote, handed, tampers>>
<1>1. Still
  BY DEF StartReconcile, StartPublish, SurveyRemote, Confirm, Reconfigure, cursor, refs, counters
<1>2. Acked' = Acked /\ Pending' = Pending /\ Gaps' = Gaps /\ OffHost' = OffHost
  BY <1>1 DEF Acked, Pending, Gaps, OffHost
<1>3. CASE StartReconcile
  <2>1. RunInv'
    BY <1>1, <1>2, <1>3 DEF StartReconcile, Preconditions, GoTo, RunInv, Publishing, InHand,
                            Delivering, Pauses
  <2>2. QED
    BY <1>1, <1>3, <2>1, RunMoves DEF StartReconcile, GoTo
<1>4. CASE StartPublish
  <2>1. pc' = "next" /\ todo' = Pending /\ Gaps = {} /\ paused = "none"
    BY <1>4 DEF StartPublish, Preconditions, GoTo
  <2>2. RunInv'
    BY <1>1, <1>2, <2>1 DEF RunInv, InHand, Delivering, Pauses
  <2>3. QED
    BY <1>1, <2>1, <2>2, RunMoves
<1>5. CASE SurveyRemote
  <2>1. pc = "survey" /\ pc' = "surveyed" /\ RunInv
    BY <1>5 DEF SurveyRemote, GoTo, ReplicaInv
  <2>2. RunInv'
    BY <1>1, <1>2, <2>1 DEF RunInv, Publishing, InHand, Delivering
  <2>3. QED
    BY <1>1, <2>1, <2>2, RunMoves
<1>6. CASE Confirm
  <2>1. /\ pc = "pushed" /\ remote = commit /\ pc' = "confirmed" /\ RunInv
        /\ UNCHANGED <<todo, commit>>
    BY <1>6 DEF Confirm, GoTo, ReplicaInv
  <2>2. \A s : AtHand(s)' = AtHand(s)
    BY <2>1 DEF AtHand
  <2>3. pc \in Publishing /\ pc \in InHand
    BY <2>1 DEF Publishing, InHand
  <2>4. RunInv'
    BY <1>1, <1>2, <2>1, <2>2, <2>3 DEF RunInv, Delivering
  <2>5. commit \in Seq(Entry)
    BY DEF ReplicaInv, TypeOK, History
  <2>6. IsPrefix(commit', remote)
    BY <2>1, <2>5, PrefixOrder
  <2>7. QED
    BY <1>1, <2>4, <2>6, RunMoves
<1>7. CASE Reconfigure
  <2>1. pc' = "idle" /\ UNCHANGED <<committed, rows, local, remote, handed, tampers>>
    BY <1>1, <1>7 DEF Reconfigure, publisher
  <2>2. QED
    BY <2>1, RunEnds
<1>8. QED
  BY <1>3, <1>4, <1>5, <1>6, <1>7

\* Judging the remote.
LEMMA JudgeKeeps ==
  ASSUME ReplicaInv, JudgeRemote
  PROVE  ChainInv' /\ AckedInv' /\ RunInv' /\ RemoteInv'
<1>1. /\ UNCHANGED <<committed, rows, paused, local, remote, handed, tampers, todo, commit>>
      /\ pc = "prepared" /\ tip' = remote /\ Trusted /\ RunInv
      /\ pc' = IF Len(remote) >= Len(commit) THEN "confirmed" ELSE "judged"
  BY DEF JudgeRemote, GoTo, cursor, refs, counters, ReplicaInv
<1>2. Acked' = Acked /\ Pending' = Pending /\ Gaps' = Gaps /\ OffHost' = OffHost
  BY <1>1 DEF Acked, Pending, Gaps, OffHost
<1>3. \A s : AtHand(s)' = AtHand(s)
  BY <1>1 DEF AtHand
<1>4. IsPrefix(remote, local) /\ \A s \in Acked : IsPrefix(rows[s].commit, remote)
  BY <1>1, TrustedRemote
<1>5. pc \in Publishing /\ pc \in InHand /\ pc' \in {"confirmed", "judged"}
  BY <1>1 DEF Publishing, InHand
<1>6. commit \in Seq(Entry) /\ remote \in Seq(Entry) /\ local \in Seq(Entry)
  BY DEF ReplicaInv, TypeOK, History
<1>7. pc' = "judged" => Len(remote) < Len(commit)
  BY <1>1, <1>6
<1>8. IsPrefix(commit, local)
  BY <1>1, <1>5 DEF RunInv
<1>9. pc' = "confirmed" => IsPrefix(commit', remote)
  BY <1>1, <1>4, <1>6, <1>8, PrefixOrder
<1>10. RunInv'
  BY <1>1, <1>2, <1>3, <1>4, <1>5, <1>7 DEF RunInv, Delivering
<1>11. UNCHANGED <<committed, rows, paused, local, remote, handed, tampers>>
  BY <1>1
<1>12. QED
  BY <1>9, <1>10, <1>11, RunMoves

\* A chain that grows keeps what is on it.
LEMMA ChainGrows ==
  ASSUME ReplicaInv, NEW e \in Entry, local' = Append(local, e),
         UNCHANGED <<committed, rows, handed>>
  PROVE  /\ Acked' = Acked /\ AckedInv'
         /\ \A a \in History : IsPrefix(a, local) => IsPrefix(a, local')
<1>1. Acked' = Acked /\ OffHost' = OffHost
  BY DEF Acked, OffHost
<1>2. local \in Seq(Entry)
  BY DEF ReplicaInv, TypeOK, History
<1>3. ASSUME NEW a \in History, IsPrefix(a, local)
      PROVE  IsPrefix(a, local')
  BY <1>2, <1>3, PrefixOrder DEF History
<1>4. \A t \in Acked : rows[t].commit \in History
  BY RowFacts DEF ReplicaInv, Acked, Rows
<1>5. AckedInv'
  BY <1>1, <1>3, <1>4 DEF ReplicaInv, AckedInv
<1>6. QED
  BY <1>1, <1>3, <1>5

\* Making the commit of a record, finding the one made before, or refusing a forged one.
LEMMA PrepareKeeps ==
  ASSUME ReplicaInv, Prepare
  PROVE  ChainInv' /\ AckedInv' /\ RunInv' /\ RemoteInv'
<1>1. PICK s \in todo :
         /\ AtHand(s)
         /\ \/ /\ Candidates(s) = {}
               /\ local' = Append(local, Export(s))
               /\ commit' = local'
               /\ GoTo("prepared")
               /\ UNCHANGED <<cursor, remote, todo, tip, grade, handed, counters>>
            \/ \E i \in Candidates(s) :
                 \/ /\ local[i].sound
                    /\ commit' = SubSeq(local, 1, i)
                    /\ GoTo("prepared")
                    /\ UNCHANGED <<cursor, refs, todo, tip, grade, handed, counters>>
                 \/ PauseRun("invalid_export_commit")
  BY DEF Prepare
<1>2. pc \in Publishing /\ TypeOK /\ ChainInv /\ AckedInv /\ RunInv /\ RemoteInv
  BY DEF Prepare, Publishing, ReplicaInv
<1>3. s \in 1..committed /\ s \notin Acked /\ Acked = 1..(s - 1)
  BY <1>1, <1>2, AtHandIsNext
<1>4. s \in 1..MaxSeq /\ Export(s) \in Entry /\ local \in Seq(Entry) /\ remote \in Seq(Entry)
  BY <1>2, <1>3, RowFacts DEF TypeOK, History
<1>5. ASSUME UNCHANGED <<committed, rows, paused, todo>>, pc' = "prepared",
             commit' # NoCommit, IsPrefix(commit', local'), Last(commit') = Export(s)
      PROVE  RunInv'
  <2>1. Acked' = Acked /\ Pending' = Pending /\ Gaps' = Gaps
    BY <1>5 DEF Acked, Pending, Gaps
  <2>2. AtHand(s)' = AtHand(s) /\ s \in todo'
    BY <1>5 DEF AtHand
  <2>3. pc # "idle"
    BY <1>2 DEF Publishing
  <2>4. QED
    BY <1>1, <1>2, <1>5, <2>1, <2>2, <2>3 DEF RunInv, Delivering
<1>6. CASE /\ Candidates(s) = {}
           /\ local' = Append(local, Export(s))
           /\ commit' = local'
           /\ GoTo("prepared")
           /\ UNCHANGED <<cursor, remote, todo, tip, grade, handed, counters>>
  <2>1. UNCHANGED <<committed, rows, paused, remote, todo, handed, tampers>>
    BY <1>6 DEF cursor, counters
  <2>2. /\ local' \in Seq(Entry) /\ Len(local') = Len(local) + 1 /\ Len(local) \in Nat
        /\ \A i \in 1..Len(local) : local'[i] = local[i]
        /\ Last(local') = Export(s) /\ local' # <<>> /\ IsPrefix(local', local')
    BY <1>4, <1>6, AppendFacts
  <2>3. Acked' = Acked /\ AckedInv' /\ \A a \in History : IsPrefix(a, local) => IsPrefix(a, local')
    BY <1>4, <1>6, <2>1, ChainGrows
  <2>4. local'[Len(local) + 1] = Export(s)
    BY <2>2 DEF Last
  <2>5. ASSUME NEW i \in 1..Len(local), local[i].sound
        PROVE  local[i].seq < s
    <3>1. local[i].seq \in Nat /\ local[i].seq # s
      <4>1. local[i] \in Entry
        BY <1>4
      <4>2. local[i].seq \in 0..MaxSeq /\ i \notin Candidates(s)
        BY <1>6, <4>1 DEF Entry
      <4>3. QED
        BY <4>2 DEF Candidates
    <3>2. \A u \in 1..(local[i].seq - 1) : u \in 1..(s - 1)
      BY <1>2, <1>3, <2>5 DEF ChainInv
    <3>3. QED
      BY <1>3, <3>1, <3>2
  <2>6. ChainInv'
    <3>1. ASSUME NEW i \in 1..Len(local'), NEW j \in 1..Len(local'), i < j,
                 local'[i].sound, local'[j].sound
          PROVE  local'[i].seq < local'[j].seq
      <4>1. i \in 1..Len(local) /\ local'[i] = local[i]
        BY <2>2, <3>1
      <4>2. CASE j = Len(local) + 1
        BY <2>4, <2>5, <3>1, <4>1, <4>2 DEF Export
      <4>3. CASE j \in 1..Len(local)
        BY <1>2, <2>2, <3>1, <4>1, <4>3 DEF ChainInv
      <4>4. QED
        BY <2>2, <4>2, <4>3
    <3>2. ASSUME NEW i \in 1..Len(local'), local'[i].sound,
                 NEW u \in 1..(local'[i].seq - 1)
          PROVE  u \in Acked
      <4>1. CASE i = Len(local) + 1
        BY <1>3, <2>4, <4>1 DEF Export
      <4>2. CASE i \in 1..Len(local)
        BY <1>2, <2>2, <3>2, <4>2 DEF ChainInv
      <4>3. QED
        BY <2>2, <4>1, <4>2
    <3>3. QED
      BY <2>3, <3>1, <3>2 DEF ChainInv
  <2>7. RunInv'
    BY <1>5, <1>6, <2>1, <2>2 DEF GoTo, NoCommit
  <2>8. RemoteInv'
    <3>1. \A t \in Acked : rows'[t].commit = rows[t].commit
      BY <2>1
    <3>2. remote \in History /\ pc' # "confirmed"
      BY <1>4, <1>6 DEF History, GoTo
    <3>3. QED
      BY <1>2, <2>1, <2>3, <3>1, <3>2 DEF RemoteInv
  <2>9. QED
    BY <2>3, <2>6, <2>7, <2>8
<1>7. ASSUME NEW i \in Candidates(s), local[i].sound, commit' = SubSeq(local, 1, i),
             GoTo("prepared"), UNCHANGED <<cursor, refs, todo, tip, grade, handed, counters>>
      PROVE  ChainInv' /\ AckedInv' /\ RunInv' /\ RemoteInv'
  <2>1. UNCHANGED <<committed, rows, paused, local, remote, todo, handed, tampers>>
    BY <1>7 DEF cursor, refs, counters
  <2>2. i \in 1..Len(local) /\ local[i] = Export(s)
    <3>1. i \in 1..Len(local) /\ local[i].seq = s
      BY <1>7 DEF Candidates
    <3>2. local[i] \in Entry
      BY <1>4, <3>1
    <3>3. QED
      BY <1>7, <3>1, <3>2 DEF Entry, Export
  <2>3. commit' # NoCommit /\ IsPrefix(commit', local) /\ Last(commit') = Export(s)
    BY <1>4, <1>7, <2>2, CutFacts DEF NoCommit
  <2>4. RunInv' /\ pc' = "prepared"
    BY <1>5, <1>7, <2>1, <2>3 DEF GoTo
  <2>5. UNCHANGED <<committed, rows, paused, local, remote, handed, tampers>>
    BY <2>1
  <2>6. QED
    BY <2>4, <2>5, RunMoves
<1>8. CASE PauseRun("invalid_export_commit")
  BY <1>8, StopKeeps DEF Pauses
<1>9. QED
  BY <1>1, <1>6, <1>7, <1>8

\* The ref moves to a commit that extends what was judged.
LEMMA PushKeeps ==
  ASSUME ReplicaInv, Push \/ PushUnanswered
  PROVE  /\ ChainInv' /\ AckedInv' /\ RunInv' /\ RemoteInv'
         /\ IsPrefix(remote, remote')
         /\ \A s \in Acked : IsPrefix(rows[s].commit, remote)
<1>1. /\ pc = "judged" /\ remote = tip /\ remote' = commit /\ RunInv
      /\ UNCHANGED <<committed, rows, paused, local, handed, tampers>>
  BY DEF Push, PushUnanswered, ReplicaInv, cursor, counters
<1>2. pc \in Publishing /\ pc \in InHand
  BY <1>1 DEF Publishing, InHand
<1>3. /\ IsPrefix(commit, local) /\ IsPrefix(tip, local) /\ Len(tip) < Len(commit)
      /\ \A s \in Acked : IsPrefix(rows[s].commit, tip)
  BY <1>1, <1>2 DEF RunInv
<1>4. /\ commit \in Seq(Entry) /\ tip \in Seq(Entry) /\ local \in Seq(Entry)
      /\ \A s \in Acked : rows[s].commit \in Seq(Entry)
  BY RowFacts DEF ReplicaInv, TypeOK, History, Acked, Rows
<1>5. IsPrefix(tip, commit)
  BY <1>3, <1>4, PrefixOrder
<1>6. \A s \in Acked : IsPrefix(rows[s].commit, commit)
  BY <1>3, <1>4, <1>5, PrefixOrder
<1>7. Acked' = Acked /\ Pending' = Pending /\ Gaps' = Gaps
  BY <1>1 DEF Acked, Pending, Gaps
<1>8. ChainInv' /\ AckedInv'
  <2>1. UNCHANGED <<committed, rows, local, handed>>
    BY <1>1
  <2>2. QED
    BY <2>1, ChainKept
<1>9. RunInv'
  <2>1. CASE Push
    <3>1. pc' = "pushed" /\ UNCHANGED <<todo, commit>>
      BY <2>1 DEF Push, GoTo
    <3>2. \A s : AtHand(s)' = AtHand(s)
      BY <3>1 DEF AtHand
    <3>3. QED
      BY <1>1, <1>2, <1>7, <3>1, <3>2 DEF RunInv, Delivering
  <2>2. CASE PushUnanswered
    BY <2>2 DEF PushUnanswered, EndRun, GoTo, RunInv, Publishing, InHand, Delivering
  <2>3. QED
    BY <2>1, <2>2
<1>10. RemoteInv'
  <2>1. pc' # "confirmed"
    BY DEF Push, PushUnanswered, EndRun, GoTo
  <2>2. QED
    BY <1>1, <1>3, <1>6, <1>7, <2>1 DEF RemoteInv
<1>11. QED
  BY <1>1, <1>3, <1>5, <1>8, <1>9, <1>10

\* The remote's confirmation is recorded: the acknowledged journal grows by its next record.
LEMMA AcknowledgeKeeps ==
  ASSUME ReplicaInv, Acknowledge
  PROVE  ChainInv' /\ AckedInv' /\ RunInv' /\ RemoteInv'
<1>1. PICK s \in todo :
         /\ AtHand(s)
         /\ rows' = [rows EXCEPT ![s].commit = commit, ![s].grade = grade]
         /\ todo' = todo \ {s}
  BY DEF Acknowledge
<1>2. /\ pc = "confirmed" /\ pc' = "next"
      /\ UNCHANGED <<committed, paused, local, remote, commit, tip, handed, tampers>>
      /\ TypeOK /\ ChainInv /\ AckedInv /\ RunInv /\ RemoteInv
  BY DEF Acknowledge, GoTo, refs, counters, ReplicaInv
<1>3. pc \in Publishing /\ pc \in InHand
  BY <1>2 DEF Publishing, InHand
<1>4. s \in 1..committed /\ s \notin Acked /\ Acked = 1..(s - 1) /\ committed \in Nat
  BY <1>1, <1>2, <1>3, AtHandIsNext, RowFacts
<1>5. commit # NoCommit /\ IsPrefix(commit, local) /\ Last(commit) = Export(s)
  <2>1. PICK u \in todo : AtHand(u) /\ Last(commit) = Export(u)
    BY <1>2, <1>3 DEF RunInv
  <2>2. u \in 1..MaxSeq /\ s \in 1..MaxSeq
    BY <1>1, <1>2, RowFacts DEF TypeOK
  <2>3. u = s
    BY <1>1, <2>1, <2>2 DEF AtHand
  <2>4. QED
    BY <1>2, <1>3, <2>1, <2>3 DEF RunInv
<1>6. /\ DOMAIN rows' = DOMAIN rows /\ s \in DOMAIN rows /\ rows'[s].commit = commit
      /\ \A u \in DOMAIN rows \ {s} : rows'[u] = rows[u]
  <2>1. s \in DOMAIN rows /\ rows[s] \in Rows
    BY <1>1, <1>2, RowFacts DEF TypeOK
  <2>2. QED
    BY <1>1, <2>1 DEF Rows
<1>7. Acked' = Acked \cup {s} /\ Pending' = Pending \ {s} /\ Gaps' = Gaps
  <2>1. Acked' = Acked \cup {s}
    BY <1>5, <1>6 DEF Acked
  <2>2. QED
    BY <1>2, <1>6, <2>1 DEF Pending, Gaps
<1>8. OffHost \subseteq OffHost'
  BY <1>4, <1>6, <1>7 DEF OffHost, Acked
<1>9. ChainInv'
  BY <1>2, <1>7 DEF ChainInv
<1>10. AckedInv'
  <2>1. Acked' = 1..s /\ s \in 0..committed'
    BY <1>2, <1>4, <1>7
  <2>2. ASSUME NEW t \in Acked'
        PROVE  IsPrefix(rows'[t].commit, local') /\ Last(rows'[t].commit) = Export(t)
    <3>1. CASE t = s
      BY <1>2, <1>5, <1>6, <3>1
    <3>2. CASE t # s
      BY <1>2, <1>6, <1>7, <3>2 DEF AckedInv, Acked
    <3>3. QED
      BY <3>1, <3>2
  <2>3. handed' \subseteq OffHost'
    BY <1>2, <1>8 DEF AckedInv
  <2>4. QED
    BY <2>1, <2>2, <2>3 DEF AckedInv
<1>11. RunInv'
  <2>1. /\ todo' \subseteq Pending'
        /\ \A u \in todo', v \in Pending' \ todo' : u < v
    BY <1>1, <1>2, <1>3, <1>7 DEF RunInv
  <2>2. Gaps' = {} /\ paused' \notin Pauses
    BY <1>2, <1>7 DEF RunInv
  <2>3. QED
    BY <1>2, <2>1, <2>2 DEF RunInv, InHand, Delivering
<1>12. RemoteInv'
  <2>1. tampers = 0 => \A t \in Acked' : IsPrefix(rows'[t].commit, remote)
    BY <1>2, <1>6, <1>7 DEF RemoteInv, Acked
  <2>2. QED
    BY <1>2, <2>1 DEF RemoteInv
<1>13. QED
  BY <1>9, <1>10, <1>11, <1>12

\* Handing what is acknowledged off this host to whoever receives it, and recording it.
LEMMA DeliverKeeps ==
  ASSUME ReplicaInv, StartDispatch \/ Dispatch \/ MarkDispatched
  PROVE  ChainInv' /\ AckedInv' /\ RunInv' /\ RemoteInv'
<1>1. TypeOK /\ ChainInv /\ AckedInv /\ RunInv /\ RemoteInv
  BY DEF ReplicaInv
<1>2. CASE StartDispatch
  <2>1. /\ pc = "next" /\ pc' = "dispatch" /\ todo' = Undispatched
        /\ UNCHANGED <<committed, rows, paused, local, remote, handed, tampers>>
    BY <1>2 DEF StartDispatch, GoTo, cursor, refs, counters
  <2>2. Gaps' = Gaps /\ OffHost' = OffHost /\ todo' \subseteq OffHost
    BY <2>1 DEF Gaps, OffHost, Acked, Undispatched
  <2>3. RunInv'
    BY <1>1, <2>1, <2>2 DEF RunInv, Publishing, InHand
  <2>4. UNCHANGED <<committed, rows, paused, local, remote, handed, tampers>>
    BY <2>1
  <2>5. QED
    BY <2>1, <2>3, <2>4, RunMoves
<1>3. CASE Dispatch
  <2>1. PICK s \in todo : handed' = handed \cup {s}
    BY <1>3 DEF Dispatch
  <2>2. /\ pc = "dispatch" /\ pc' = "handed"
        /\ UNCHANGED <<committed, rows, paused, local, remote, tampers, todo>>
    BY <1>3 DEF Dispatch, GoTo, cursor, refs, counters
  <2>3. pc \in Delivering
    BY <2>2 DEF Delivering
  <2>4. Acked' = Acked /\ OffHost' = OffHost /\ Gaps' = Gaps
    BY <2>2 DEF Acked, OffHost, Gaps
  <2>5. handed' \subseteq OffHost'
    BY <1>1, <2>1, <2>3, <2>4 DEF RunInv, AckedInv
  <2>6. ChainInv' /\ AckedInv'
    BY <1>1, <2>2, <2>4, <2>5 DEF ChainInv, AckedInv
  <2>7. RunInv'
    BY <1>1, <2>2, <2>3, <2>4 DEF RunInv, Publishing, InHand
  <2>8. RemoteInv'
    BY <1>1, <2>2, <2>4 DEF RemoteInv
  <2>9. QED
    BY <2>6, <2>7, <2>8
<1>4. CASE MarkDispatched
  <2>1. PICK s \in todo :
           /\ rows' = [rows EXCEPT ![s].dispatched = TRUE]
           /\ todo' = todo \ {s}
    BY <1>4 DEF MarkDispatched
  <2>2. /\ pc = "handed" /\ pc' = "dispatch"
        /\ UNCHANGED <<committed, paused, local, remote, handed, tampers>>
    BY <1>4 DEF MarkDispatched, GoTo, refs, counters
  <2>3. /\ DOMAIN rows' = DOMAIN rows
        /\ \A u \in DOMAIN rows : rows'[u].commit = rows[u].commit /\ rows'[u].grade = rows[u].grade
    <3>1. s \in DOMAIN rows /\ \A u \in DOMAIN rows : rows[u] \in Rows
      BY <1>1, <2>1, RowFacts DEF TypeOK
    <3>2. QED
      BY <2>1, <3>1 DEF Rows
  <2>4. Acked' = Acked
    BY <2>3 DEF Acked
  <2>5. OffHost' = OffHost /\ Gaps' = Gaps /\ Acked \subseteq DOMAIN rows
    BY <2>2, <2>3, <2>4 DEF OffHost, Gaps, Acked
  <2>6. ChainInv' /\ AckedInv'
    BY <1>1, <2>2, <2>3, <2>4, <2>5 DEF ChainInv, AckedInv
  <2>7. RunInv'
    BY <1>1, <2>1, <2>2, <2>5 DEF RunInv, Publishing, InHand, Delivering
  <2>8. RemoteInv'
    BY <1>1, <2>2, <2>3, <2>4, <2>5 DEF RemoteInv
  <2>9. QED
    BY <2>6, <2>7, <2>8
<1>5. QED
  BY <1>2, <1>3, <1>4

\* Somebody else moves a ref.
LEMMA TamperKeeps ==
  ASSUME ReplicaInv, TamperRemote \/ ForgeLocal
  PROVE  ChainInv' /\ AckedInv' /\ RunInv' /\ RemoteInv'
<1>1. /\ TypeOK /\ ChainInv /\ AckedInv /\ RunInv /\ RemoteInv
      /\ UNCHANGED <<committed, rows, paused, pc, todo, commit, tip, handed>>
  BY DEF ReplicaInv, TamperRemote, ForgeLocal, cursor, publisher
<1>2. RemoteInv'
  BY <1>1 DEF TypeOK, TamperRemote, ForgeLocal, RemoteInv
<1>3. Acked' = Acked /\ Pending' = Pending /\ Gaps' = Gaps /\ OffHost' = OffHost
  BY <1>1 DEF Acked, Pending, Gaps, OffHost
<1>4. \A s : AtHand(s)' = AtHand(s)
  BY <1>1 DEF AtHand
<1>5. CASE TamperRemote
  <2>1. local' = local
    BY <1>5 DEF TamperRemote
  <2>2. UNCHANGED <<committed, rows, local, handed>>
    BY <1>1, <2>1
  <2>3. RunInv'
    BY <1>1, <1>3, <1>4, <2>1 DEF RunInv
  <2>4. QED
    BY <1>2, <2>2, <2>3, ChainKept
<1>6. CASE ForgeLocal
  <2>1. PICK s \in 1..MaxSeq : local' = Append(local, Forged(s))
    BY <1>6 DEF ForgeLocal
  <2>2. Forged(s) \in Entry /\ local \in Seq(Entry)
    BY <1>1, RowFacts DEF TypeOK, History
  <2>3. /\ AckedInv' /\ \A a \in History : IsPrefix(a, local) => IsPrefix(a, local')
    BY <1>1, <2>1, <2>2, ChainGrows
  <2>4. /\ Len(local') = Len(local) + 1 /\ Len(local) \in Nat
        /\ \A i \in 1..Len(local) : local'[i] = local[i]
        /\ local'[Len(local) + 1] = Forged(s)
    BY <2>1, <2>2
  <2>5. \A i \in 1..Len(local') : local'[i].sound => i \in 1..Len(local) /\ local'[i] = local[i]
    BY <2>4 DEF Forged
  <2>6. ChainInv'
    BY <1>1, <1>3, <2>5 DEF ChainInv
  <2>7. commit \in History /\ tip \in History
    BY <1>1 DEF TypeOK
  <2>8. RunInv'
    BY <1>1, <1>3, <1>4, <2>3, <2>7 DEF RunInv
  <2>9. QED
    BY <1>2, <2>3, <2>6, <2>8
<1>7. QED
  BY <1>5, <1>6

-----------------------------------------------------------------------------
(* The theorems.                                                           *)

\* The invariant holds of a fresh store.
LEMMA InitReplica == Init => ReplicaInv
<1> SUFFICES ASSUME Init PROVE ReplicaInv
  OBVIOUS
<1>1. TypeOK
  BY InitTypes
<1>2. /\ local = <<>> /\ remote = <<>> /\ pc = "idle" /\ handed = {} /\ DOMAIN rows = {}
      /\ Acked = {} /\ committed \in Nat
  BY ReplicaAssumption DEF Init, NoCommit, Acked
<1>3. ChainInv /\ AckedInv
  <2>1. Len(local) = 0 /\ Acked = 1..0 /\ 0 \in 0..committed
    BY <1>2
  <2>2. QED
    BY <1>2, <2>1 DEF ChainInv, AckedInv
<1>4. RunInv
  BY <1>2 DEF RunInv, Publishing, InHand, Delivering
<1>5. RemoteInv
  <2>1. IsPrefix(remote, local)
    BY <1>2 DEF IsPrefix
  <2>2. QED
    BY <1>2, <2>1 DEF RemoteInv
<1>6. QED
  BY <1>1, <1>3, <1>4, <1>5 DEF ReplicaInv

\* A step that changes nothing keeps everything.
LEMMA StutterKeeps ==
  ASSUME ReplicaInv, UNCHANGED vars
  PROVE  ChainInv' /\ AckedInv' /\ RunInv' /\ RemoteInv'
<1>1. UNCHANGED <<committed, rows, paused, local, remote, pc, todo, commit, tip, handed, tampers>>
  BY DEF vars, cursor, refs, publisher, counters
<1>2. Acked' = Acked /\ Pending' = Pending /\ Gaps' = Gaps /\ OffHost' = OffHost
  BY <1>1 DEF Acked, Pending, Gaps, OffHost
<1>3. \A s : AtHand(s)' = AtHand(s)
  BY <1>1 DEF AtHand
<1>4. RunInv' /\ RemoteInv'
  BY <1>1, <1>2, <1>3 DEF ReplicaInv, RunInv, RemoteInv
<1>5. UNCHANGED <<committed, rows, local, handed>>
  BY <1>1
<1>6. QED
  BY <1>4, <1>5, ChainKept

\* The invariant is kept by every step.
LEMMA NextReplica == ReplicaInv /\ [Next]_vars => ReplicaInv'
<1> SUFFICES ASSUME ReplicaInv, [Next]_vars
             PROVE  ChainInv' /\ AckedInv' /\ RunInv' /\ RemoteInv'
  BY NextTypes DEF ReplicaInv
<1>1. CASE CommitRecord \/ Backfill \/ OperatorPause \/ Resume
  BY <1>1, CursorKeeps
<1>2. CASE StopSurveyed \/ DistrustRemote \/ PushRejected \/ Unconfirmed \/ Unreachable
           \/ SkipDispatch \/ FinishRun \/ Crash
  BY <1>2, StopKeeps DEF StopSurveyed, DistrustRemote, PushRejected, Unconfirmed, Unreachable,
                         SkipDispatch, FinishRun, Pauses
<1>3. CASE StartReconcile \/ StartPublish \/ SurveyRemote \/ Confirm \/ Reconfigure
  BY <1>3, SurveyKeeps
<1>4. CASE Prepare
  BY <1>4, PrepareKeeps
<1>5. CASE JudgeRemote
  BY <1>5, JudgeKeeps
<1>6. CASE Push \/ PushUnanswered
  BY <1>6, PushKeeps
<1>7. CASE Acknowledge
  BY <1>7, AcknowledgeKeeps
<1>8. CASE StartDispatch \/ Dispatch \/ MarkDispatched
  BY <1>8, DeliverKeeps
<1>9. CASE TamperRemote \/ ForgeLocal
  BY <1>9, TamperKeeps
<1>10. CASE UNCHANGED vars
  BY <1>10, StutterKeeps
<1>11. QED
  BY <1>1, <1>2, <1>3, <1>4, <1>5, <1>6, <1>7, <1>8, <1>9, <1>10 DEF Next, Publisher

\* The invariant of the replica: the chain is in the order of the journal, what is
\* acknowledged is the journal up to a point, and a run takes up where the last one ended.
THEOREM ReplicaInvariant == Spec => []ReplicaInv
<1>1. QED
  BY InitReplica, NextReplica, PTL DEF Spec

\* The remote holds every export it acknowledged, through crashes, lost answers and
\* retries, as long as nobody else moves a ref (publish_pending, _observed_tip).
THEOREM NothingAcknowledgedIsLost == Spec => []AcknowledgedIsHeld
<1>1. ReplicaInv => AcknowledgedIsHeld
  BY DEF ReplicaInv, RemoteInv, AcknowledgedIsHeld
<1>2. QED
  BY <1>1, ReplicaInvariant, PTL

\* Acknowledged history is the journal up to a point, in order and without a record twice,
\* whatever happened to either ref (prepare, _record_acknowledgement).
THEOREM HistoryHasNoGap == Spec => []HistoryIsComplete
<1>1. ASSUME ReplicaInv
      PROVE  HistoryIsComplete
  <2>1. /\ TypeOK /\ ChainInv /\ AckedInv /\ local \in Seq(Entry)
        /\ \A t \in Acked : rows[t].commit \in Seq(Entry)
    BY <1>1, RowFacts DEF ReplicaInv, TypeOK, History, Acked, Rows
  <2>2. PICK k \in 0..committed : Acked = 1..k
    BY <2>1 DEF AckedInv
  <2>3. ASSUME NEW t \in Acked, NEW s \in 1..(t - 1)
        PROVE  s \in Acked /\ IsPrefix(rows[s].commit, rows[t].commit)
    <3>1. s \in Acked /\ s <= t
      BY <2>2, <2>3
    <3>2. QED
      BY <2>1, <3>1, AckedInOrder
  <2>4. ASSUME NEW t \in Acked, NEW i \in 1..Len(rows[t].commit), NEW j \in 1..Len(rows[t].commit),
               rows[t].commit[i] = rows[t].commit[j], rows[t].commit[i].sound
        PROVE  i = j
    <3>1. PICK a \in Seq(Entry) : a = rows[t].commit
      BY <2>1
    <3>2. IsPrefix(a, local)
      BY <2>1, <3>1 DEF AckedInv
    <3>3. Len(a) <= Len(local) /\ \A n \in 1..Len(a) : a[n] = local[n]
      BY <2>1, <3>2, PrefixFacts
    <3>4. i \in 1..Len(a) /\ j \in 1..Len(a) /\ a[i] = a[j] /\ a[i].sound
      BY <2>4, <3>1
    <3>5. i \in 1..Len(local) /\ j \in 1..Len(local) /\ local[i] = local[j] /\ local[i].sound
          /\ local[j].sound
      BY <2>1, <3>3, <3>4
    <3>6. local[i].seq = local[j].seq /\ local[i].seq \in Int
      <4>1. local[i] \in Entry
        BY <2>1, <3>5
      <4>2. QED
        BY <3>5, <4>1 DEF Entry
    <3>7. ~(i < j) /\ ~(j < i)
      BY <2>1, <3>5, <3>6 DEF ChainInv
    <3>8. QED
      BY <3>4, <3>7
  <2>5. \A t \in Acked : Last(rows[t].commit) = Export(t)
    BY <2>1 DEF AckedInv
  <2>6. QED
    BY <2>3, <2>4, <2>5 DEF HistoryIsComplete
<1>2. QED
  BY <1>1, ReplicaInvariant, PTL

\* Nothing leaves the control plane before a remote off this host holds its record
\* (dispatch_pending).
THEOREM DispatchFollowsDurability == Spec => []DispatchedIsDurable
<1>1. ReplicaInv => DispatchedIsDurable
  BY DEF ReplicaInv, AckedInv, OffHost, DispatchedIsDurable
<1>2. QED
  BY <1>1, ReplicaInvariant, PTL

\* The publisher only ever extends what the remote holds and never moves a remote that
\* lost acknowledged history (_push under the lease of the judged tip).
THEOREM PushOnlyExtends == Spec => PushExtendsAcknowledged
<1>1. ASSUME ReplicaInv, Next, remote' # remote, pc' # pc
      PROVE  IsPrefix(remote, remote') /\ \A s \in Acked : IsPrefix(rows[s].commit, remote)
  <2>1. Push \/ PushUnanswered
    BY <1>1 DEF Next, Publisher, CommitRecord, Backfill, OperatorPause, Resume, StartReconcile,
                StartPublish, StopSurveyed, SurveyRemote, DistrustRemote, Prepare, JudgeRemote,
                PushRejected, Confirm, Unconfirmed, Unreachable, Acknowledge, StartDispatch,
                SkipDispatch, Dispatch, MarkDispatched, FinishRun, Crash, Reconfigure,
                TamperRemote, ForgeLocal, PauseRun, StopRun, cursor, refs, publisher
  <2>2. QED
    BY <1>1, <2>1, PushKeeps
<1>2. ASSUME ReplicaInv, [Next]_vars
      PROVE  [remote' # remote /\ pc' # pc =>
                /\ IsPrefix(remote, remote')
                /\ \A s \in Acked : IsPrefix(rows[s].commit, remote)]_vars
  BY <1>1, <1>2
<1>3. QED
  BY <1>2, ReplicaInvariant, PTL DEF Spec, PushExtendsAcknowledged

\* After a pause the publisher set itself, nothing is acknowledged, pushed or dispatched
\* until it is resumed (_pause, _require_unpaused).
THEOREM PauseHolds == Spec => OwnPauseStops
<1>1. ASSUME ReplicaInv, Next, paused \in Pauses, paused' = paused
      PROVE  Acked' = Acked /\ handed' = handed /\ publisher' = publisher
  <2>1. pc = "idle" /\ paused # "none"
    BY <1>1 DEF ReplicaInv, RunInv, Pauses
  <2>2. CommitRecord \/ Backfill \/ Reconfigure \/ TamperRemote \/ ForgeLocal
    BY <1>1, <2>1 DEF Next, Publisher, OperatorPause, Resume, StartReconcile, StartPublish,
                StopSurveyed, SurveyRemote, DistrustRemote, Prepare, JudgeRemote, Push,
                PushUnanswered, PushRejected, Confirm, Unconfirmed, Unreachable, Acknowledge,
                StartDispatch, SkipDispatch, Dispatch, MarkDispatched, FinishRun, Crash,
                Preconditions
  <2>3. CASE CommitRecord \/ Backfill
    <3>1. /\ DOMAIN rows \subseteq DOMAIN rows' /\ \A s \in DOMAIN rows : rows'[s] = rows[s]
          /\ \A s \in DOMAIN rows' \ DOMAIN rows : rows'[s] = PendingRow
          /\ UNCHANGED <<handed, publisher>>
      BY <1>1, <2>3, RowFacts DEF ReplicaInv, CommitRecord, Backfill
    <3>2. QED
      BY <1>1, <3>1, RowsExtend DEF ReplicaInv
  <2>4. CASE Reconfigure \/ TamperRemote \/ ForgeLocal
    BY <2>4 DEF Reconfigure, TamperRemote, ForgeLocal, cursor, Acked
  <2>5. QED
    BY <2>2, <2>3, <2>4
<1>2. ASSUME ReplicaInv, [Next]_vars
      PROVE  [(paused \in Pauses /\ paused' = paused) =>
                Acked' = Acked /\ handed' = handed /\ publisher' = publisher]_vars
  BY <1>1, <1>2
<1>3. QED
  BY <1>2, ReplicaInvariant, PTL DEF Spec, OwnPauseStops
=============================================================================
