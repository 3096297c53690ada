----------------------------- MODULE InboxProofs -----------------------------
(***************************************************************************)
(* The inbox for any number of agents, sessions, units and assignments.    *)
(* A command decides on what it read and its transaction looks again at    *)
(* little of it, so the invariant says what a plan may still rely on, and  *)
(* each conjunct of PlanOK holds because whatever could end it writes an   *)
(* entity that the plan pinned, or because assignments only move forward.  *)
(***************************************************************************)
EXTENDS Inbox, SequenceTheorems, TLAPS

AtMostOne(U) == \A u, v \in U : u = v

\* No longer before the person it was opened for.
Past(a) == asg[a].state \notin {"absent", "OFFERED"}

\* A generation of the unit counts its handouts, and so does what a session was told.
GenerationsCount ==
  /\ \A u \in Units : claim[u].gen = grants[u]
  /\ \A s \in Sessions, u \in Units : told[s][u].gen = told[s][u].grant

\* Dispositions are about what is past, and an assignment stops one unit at most.
InboxOK ==
  \A a \in Assignments : (question[a] # <<>> => Past(a)) /\ AtMostOne(asg[a].unit)

\* What a command that was not overtaken still has right.
PlanOK(p) ==
  /\ p.op \in {"open", "resume"} => p.by \in Agents
  /\ AtMostOne(p.units)
  /\ p.op = "open" /\ p.units # {} =>
       \E s \in Sessions : AgentOf[s] = p.by /\ \A u \in p.units : told[s][u].gen = p.gen
  /\ p.op \in {"decline", "cancel"} => p.round > 0
  /\ p.op \in {"ask", "dispose"} => Past(p.asg)
  /\ p.op = "dispose" => p.units = asg[p.asg].unit
  /\ p.op = "resume" => Owner \in active

Inv ==
  /\ TypeOK
  /\ WaitingHoldsNothing
  /\ StoppedWorkIsAsked
  /\ ClosedItemHasNoOpenUnit
  /\ GenerationsCount
  /\ InboxOK
  /\ plan # NoPlan => PlanOK(plan)

-----------------------------------------------------------------------------
(* Types, of the claims' records and of the inbox's.                       *)

ClaimTypes ==
  /\ claim \in [Units -> ClaimRecord]
  /\ unit \in [Units -> UnitStates]
  /\ item \in {"PRIORITIZED", "ACTIVE", "CANCELED"}
  /\ project \in {"ACTIVE", "PAUSED"}
  /\ active \subseteq Persons
  /\ told \in [Sessions -> [Units -> [gen : Nat, grant : Nat]]]
  /\ grants \in [Units -> Nat]

InboxTypes ==
  /\ asg \in [Assignments -> Assignment]
  /\ question \in [Assignments -> Seq(QuestionRecord)]

\* A handout leaves well-formed records.
LEMMA HandOutTypes ==
  ASSUME ClaimTypes, NEW u \in Units, NEW w \in Agents, NEW L \in SUBSET Sessions,
         HandOut(u, w, L)
  PROVE  ClaimTypes'
<1>1. /\ claim[u] \in ClaimRecord /\ NextGeneration(u) \in Nat
      /\ grants[u] \in Nat /\ grants[u] + 1 \in Nat
  BY DEF ClaimTypes, ClaimRecord, NextGeneration
<1>2. [state |-> "owned", holder |-> w, gen |-> NextGeneration(u), fresh |-> TRUE,
       parked |-> NoAssignment] \in ClaimRecord
  BY <1>1 DEF ClaimRecord
<1>3. claim' \in [Units -> ClaimRecord]
  BY <1>2 DEF HandOut, ClaimTypes
<1>4. unit' \in [Units -> UnitStates] /\ item' = "ACTIVE" /\ grants' \in [Units -> Nat]
  BY <1>1 DEF HandOut, ClaimTypes, UnitStates
<1>5. told' \in [Sessions -> [Units -> [gen : Nat, grant : Nat]]]
  <2>1. CASE UNCHANGED told
    BY <2>1 DEF ClaimTypes
  <2>2. ASSUME NEW s \in Sessions,
               told' = [told EXCEPT ![s][u] = [gen |-> NextGeneration(u), grant |-> grants[u] + 1]]
        PROVE  told' \in [Sessions -> [Units -> [gen : Nat, grant : Nat]]]
    <3>1. [gen |-> NextGeneration(u), grant |-> grants[u] + 1] \in [gen : Nat, grant : Nat]
      BY <1>1
    <3>2. QED
      BY <2>2, <3>1 DEF ClaimTypes
  <2>3. QED
    BY <2>1, <2>2 DEF HandOut, Hears
<1>6. QED
  BY <1>3, <1>4, <1>5 DEF HandOut, ClaimTypes

\* Giving up, unparking and the heartbeats change one claim's fields.
LEMMA FieldTypes ==
  ASSUME ClaimTypes, NEW u \in Units, NEW a \in Assignments \cup {NoAssignment},
         \/ GiveUp(u, a) \/ Unpark(u, a) \/ Expire(u)
         \/ \E s \in Sessions : Renew(s, u) \/ Release(s, u)
  PROVE  ClaimTypes'
<1>1. claim[u] \in ClaimRecord
  BY DEF ClaimTypes
<1>2. \A g \in Assignments \cup {NoAssignment} :
        [claim[u] EXCEPT !.state = "released", !.holder = NoAgent, !.parked = g] \in ClaimRecord
  BY <1>1 DEF ClaimRecord
<1>3. \A b \in BOOLEAN : [claim[u] EXCEPT !.fresh = b] \in ClaimRecord
  BY <1>1 DEF ClaimRecord
<1>4. [claim[u] EXCEPT !.parked = NoAssignment] \in ClaimRecord
  BY <1>1 DEF ClaimRecord
<1>5. CASE \E g \in Assignments \cup {NoAssignment} : GiveUp(u, g)
  BY <1>5, <1>2 DEF ClaimTypes, GiveUp
<1>6. CASE Unpark(u, a)
  BY <1>6, <1>4 DEF ClaimTypes, Unpark
<1>7. CASE Expire(u) \/ \E s \in Sessions : Renew(s, u)
  BY <1>7, <1>3 DEF ClaimTypes, Expire, Renew
<1>8. QED
  BY <1>5, <1>6, <1>7 DEF Release

\* The other services write a unit, the item, the project or a membership.
LEMMA OtherTypes ==
  ASSUME ClaimTypes, OtherCommand
  PROVE  ClaimTypes'
<1>1. ASSUME NEW u \in Units, AppendUnit(u) \/ DisposeUnit(u)
      PROVE  ClaimTypes'
  BY <1>1 DEF AppendUnit, DisposeUnit, ClaimTypes, UnitStates
<1>2. CASE PrioritizeUnits
  BY <1>2 DEF PrioritizeUnits, ClaimTypes, UnitStates
<1>3. CASE CancelItem
  BY <1>3 DEF CancelItem, ClaimTypes, UnitStates
<1>4. ASSUME NEW state \in {"ACTIVE", "PAUSED"}, SetProject(state)
      PROVE  ClaimTypes'
  BY <1>4 DEF SetProject, ClaimTypes
<1>5. ASSUME NEW p \in Persons, SetMember(p)
      PROVE  ClaimTypes'
  BY <1>5 DEF SetMember, ClaimTypes
<1>6. QED
  BY <1>1, <1>2, <1>3, <1>4, <1>5 DEF OtherCommand

\* The last of a sequence is in it.
LEMMA LastFacts ==
  ASSUME NEW T, NEW q \in Seq(T), q # <<>>
  PROVE  Len(q) \in 1..Len(q) /\ q[Len(q)] \in T
<1>1. Len(q) \in Nat /\ Len(q) # 0
  BY EmptySeq, LenProperties
<1>2. Len(q) \in 1..Len(q)
  BY <1>1
<1>3. QED
  BY <1>2, ElementOfSeq

\* What a member of Plan is.
LEMMA PlanFields ==
  ASSUME NEW p \in Plan
  PROVE  /\ p.op \in Ops /\ p.asg \in Assignments
         /\ p.units \subseteq Units /\ p.gen \in Nat /\ p.to \in Persons \cup {NoPerson}
         /\ p.as \in Addressees /\ p.round \in Nat /\ p.siblings \subseteq Units
BY DEF Plan

\* A transaction leaves the claims' records well formed.
LEMMA TransactionClaims ==
  ASSUME ClaimTypes, InboxTypes, NEW p \in Plan, PlanOK(p), Transaction(p)
  PROVE  ClaimTypes'
<1> USE PlanFields
<1>1. CASE Open(p)
  <2>1. CASE p.units = {}
    BY <1>1, <2>1 DEF Open, claimVars, ClaimTypes
  <2>2. ASSUME NEW u \in p.units, GiveUp(u, p.asg)
        PROVE  ClaimTypes'
    BY <2>2, FieldTypes
  <2>3. QED
    BY <1>1, <2>1, <2>2 DEF Open
<1>2. CASE Decline(p) \/ Cancel(p) \/ Ask(p)
  BY <1>2 DEF Decline, Cancel, End, Ask, claimVars, ClaimTypes
<1>3. CASE Resume(p)
  <2>1. PICK u \in p.units : TakeAgain(u, p.by, p.asg)
    BY <1>3 DEF Resume
  <2>2. HandOut(u, p.by, {s \in Sessions : AgentOf[s] = p.by})
    BY <2>1 DEF TakeAgain
  <2>3. p.by \in Agents
    BY <1>3 DEF Resume, PlanOK
  <2>4. QED
    BY <2>2, <2>3, HandOutTypes
<1>4. CASE Dispose(p)
  <2>1. PICK u \in p.units : Close(p, u) \/ Unpark(u, p.asg) \/ UNCHANGED claimVars
    BY <1>4 DEF Dispose
  <2>2. CASE Close(p, u)
    BY <2>2 DEF Close, ClaimTypes, UnitStates
  <2>3. CASE Unpark(u, p.asg)
    BY <2>3, FieldTypes
  <2>4. CASE UNCHANGED claimVars
    BY <2>4 DEF claimVars, ClaimTypes
  <2>5. QED
    BY <2>1, <2>2, <2>3, <2>4
<1>5. QED
  BY <1>1, <1>2, <1>3, <1>4 DEF Transaction

\* The transactions leave the inbox's records well formed.
LEMMA TransactionInbox ==
  ASSUME ClaimTypes, InboxTypes, NEW p \in Plan, PlanOK(p), Transaction(p)
  PROVE  InboxTypes'
<1> USE PlanFields
<1>1. CASE Open(p)
  <2>1. [state |-> "OFFERED", by |-> p.by, unit |-> p.units, unasked |-> FALSE] \in Assignment
    BY <1>1 DEF Open, PlanOK, Assignment
  <2>2. QED
    BY <1>1, <2>1 DEF Open, InboxTypes
<1>2. ASSUME OpensQuestion(p)
      PROVE  question' \in [Assignments -> Seq(QuestionRecord)]
  <2>1. CASE UNCHANGED question
    BY <2>1 DEF InboxTypes
  <2>2. CASE p.to # NoPerson
    <3>1. NewQuestion(p) \in QuestionRecord
      BY <2>2 DEF NewQuestion, QuestionRecord
    <3>2. Append(question[p.asg], NewQuestion(p)) \in Seq(QuestionRecord)
      BY <3>1 DEF InboxTypes
    <3>3. QED
      BY <1>2, <2>2, <3>2 DEF OpensQuestion, InboxTypes
  <2>3. QED
    BY <1>2, <2>1, <2>2 DEF OpensQuestion
<1>3. ASSUME NEW ended \in Ended, End(p, ended)
      PROVE  InboxTypes'
  <2>1. asg' \in [Assignments -> Assignment]
    <3>1. asg[p.asg] \in Assignment
      BY DEF InboxTypes
    <3>2. [asg[p.asg] EXCEPT !.state = ended, !.unasked = (p.round > 0 /\ p.to = NoPerson)] \in Assignment
      BY <3>1 DEF Assignment
    <3>3. QED
      BY <1>3, <3>2 DEF End, InboxTypes
  <2>2. QED
    BY <1>2, <1>3, <2>1 DEF End, InboxTypes
<1>4. CASE Decline(p) \/ Cancel(p)
  BY <1>3, <1>4 DEF Decline, Cancel, Ended
<1>5. CASE Ask(p)
  BY <1>2, <1>5 DEF Ask, InboxTypes
<1>6. CASE Resume(p)
  BY <1>6 DEF Resume, inboxVars, InboxTypes
<1>7. CASE Dispose(p)
  <2> DEFINE q == question[p.asg]
  <2>1. q \in Seq(QuestionRecord) /\ Past(p.asg)
    BY <1>7 DEF InboxTypes, PlanOK, Dispose
  <2>2. ASSUME NEW i \in 1..Len(q)
        PROVE  [q[i] EXCEPT !.applied = TRUE] \in QuestionRecord
    <3>1. q[i] \in QuestionRecord
      BY <2>1, ElementOfSeq
    <3>2. QED
      BY <3>1 DEF QuestionRecord
  <2>3. [q EXCEPT ![p.round].applied = TRUE] \in Seq(QuestionRecord)
    <3>1. CASE p.round \in 1..Len(q)
      BY <2>1, <2>2, <3>1, ExceptSeq
    <3>2. CASE p.round \notin 1..Len(q)
      <4>1. [q EXCEPT ![p.round].applied = TRUE] = q
        BY <2>1, <3>2
      <4>2. QED
        BY <2>1, <4>1
    <3>3. QED
      BY <3>1, <3>2
  <2>4. question' = [question EXCEPT ![p.asg] = [q EXCEPT ![p.round].applied = TRUE]]
    BY <1>7 DEF Dispose
  <2>5. QED
    BY <1>7, <2>3, <2>4 DEF Dispose, InboxTypes
<1>8. QED
  BY <1>1, <1>4, <1>5, <1>6, <1>7 DEF Transaction

\* So do the answers.
LEMMA AnswerInbox ==
  ASSUME InboxTypes, NEW a \in Assignments,
         Answer(a) \/ Revise(a) \/ \E ruling \in Rulings : AnswerQuestion(a, ruling)
  PROVE  InboxTypes'
<1>1. CASE Answer(a)
  <2>1. asg[a] \in Assignment
    BY DEF InboxTypes
  <2>2. [asg[a] EXCEPT !.state = "SUBMITTED"] \in Assignment
    BY <2>1 DEF Assignment
  <2>3. QED
    BY <1>1, <2>2 DEF Answer, InboxTypes
<1>2. CASE Revise(a)
  BY <1>2 DEF Revise, inboxVars, InboxTypes
<1>3. ASSUME NEW ruling \in Rulings, AnswerQuestion(a, ruling)
      PROVE  InboxTypes'
  <2> DEFINE q == question[a]
             n == Len(q)
             r == [q[n] EXCEPT !.state = "SUBMITTED", !.ruling = ruling]
  <2>1. q \in Seq(QuestionRecord) /\ q # <<>> /\ n \in 1..n
    BY <1>3, LastFacts DEF InboxTypes, AnswerQuestion
  <2>2. r \in QuestionRecord
    <3>1. q[n] \in QuestionRecord
      BY <2>1, LastFacts
    <3>2. ruling \in Rulings \cup {"none"}
      BY <1>3
    <3>3. QED
      BY <3>1, <3>2 DEF QuestionRecord
  <2>3. question' = [question EXCEPT ![a] = [q EXCEPT ![n] = r]]
    BY <1>3 DEF AnswerQuestion
  <2>4. [q EXCEPT ![n] = r] \in Seq(QuestionRecord)
    BY <2>1, <2>2, ExceptSeq
  <2>5. QED
    BY <1>3, <2>3, <2>4 DEF AnswerQuestion, InboxTypes
<1>4. QED
  BY <1>1, <1>2, <1>3

-----------------------------------------------------------------------------
(* Plans, at the moment their command reads.                               *)

By == Agents \cup Persons \cup {NoAgent}

\* A draft is a plan with no question in it.
LEMMA DraftFacts ==
  ASSUME NEW op \in Ops, NEW a \in Assignments, NEW by \in By, NEW units \in SUBSET Units
  PROVE  LET p == Draft(op, a, by, units)
         IN  /\ p \in Plan
             /\ p.op = op /\ p.asg = a /\ p.by = by /\ p.units = units
BY DEF Draft, Plan, By, Addressees

\* A question put in a plan gives it a round and changes nothing else it decides.
LEMMA WithQuestionFacts ==
  ASSUME InboxTypes, NEW p \in Plan, NEW who,
         who.to \in Persons \cup {NoPerson}, who.as \in Addressees
  PROVE  LET q == WithQuestion(p, who)
         IN  /\ q \in Plan
             /\ q.op = p.op /\ q.asg = p.asg /\ q.by = p.by /\ q.units = p.units
             /\ q.round \in Nat /\ q.round > 0
<1>1. p.asg \in Assignments
  BY PlanFields
<1>2. Len(question[p.asg]) \in Nat
  BY <1>1, LenProperties DEF InboxTypes
<1> DEFINE q == WithQuestion(p, who)
<1>3. Len(question[p.asg]) + 1 \in Nat /\ Len(question[p.asg]) + 1 > 0
  BY <1>2
<1>4. q = [p EXCEPT !.to = who.to, !.as = who.as, !.round = Len(question[p.asg]) + 1]
  BY DEF WithQuestion
<1>5. q \in Plan
  BY <1>3, <1>4 DEF Plan
<1>6. /\ q.op = p.op /\ q.asg = p.asg /\ q.by = p.by /\ q.units = p.units
      /\ q.round = Len(question[p.asg]) + 1
  BY <1>4 DEF Plan
<1>7. QED
  BY <1>3, <1>5, <1>6

\* Nobody, or a person, is asked.
LEMMA AddresseeFacts ==
  ASSUME InboxTypes, NEW a \in Assignments, NEW ended, NEW by
  PROVE  /\ (ended = "DECLINED" => by \in Persons)
            => Addressee(a, ended, by).to \in Persons \cup {NoPerson}
         /\ Addressee(a, ended, by).as \in Addressees
<1>1. ResolvedOwner \in Persons \cup {NoPerson}
  BY InboxAssumption DEF ResolvedOwner
<1>2. CASE question[a] # <<>>
  <2>1. Latest(a) \in QuestionRecord
    BY <1>2, LastFacts DEF InboxTypes, Latest
  <2>2. QED
    BY <1>1, <2>1 DEF Addressee, QuestionRecord, Addressees
<1>3. CASE question[a] = <<>>
  BY <1>1, <1>3 DEF Addressee, Addressees
<1>4. QED
  BY <1>2, <1>3

\* open names the one unit that its requester holds, by the generation a session knows.
LEMMA OpenPlansOK ==
  ASSUME ClaimTypes, NEW p \in OpenPlans
  PROVE  p \in Plan /\ PlanOK(p)
<1>1. PICK s \in Sessions, a \in Assignments :
        /\ p = OpenPlan(s, a)
        /\ AtMostOne(Held(AgentOf[s]))
  BY DEF OpenPlans, AtMostOne
<1> DEFINE units == Held(AgentOf[s])
           d == Draft("open", a, AgentOf[s], units)
<1>2. units \in SUBSET Units /\ AgentOf[s] \in Agents
  BY ClaimAssumption DEF Held
<1>3. d \in Plan /\ d.op = "open" /\ d.by = AgentOf[s] /\ d.units = units
  BY <1>2, DraftFacts DEF By, Ops
<1>4. GenerationOf(s, units) \in Nat
  <2>1. CASE units = {}
    BY <2>1 DEF GenerationOf
  <2>2. CASE units # {}
    BY <1>2, <2>2 DEF GenerationOf, ClaimTypes
  <2>3. QED
    BY <2>1, <2>2
<1>5. p = [d EXCEPT !.gen = GenerationOf(s, units)]
  BY <1>1 DEF OpenPlan
<1>6. /\ p \in Plan /\ p.op = "open" /\ p.by = AgentOf[s] /\ p.units = units
      /\ p.gen = GenerationOf(s, units)
  BY <1>3, <1>4, <1>5 DEF Plan
<1>7. ASSUME NEW u \in units
      PROVE  told[s][u].gen = p.gen
  <2>1. u = (CHOOSE v \in units : TRUE)
    BY <1>1, <1>7 DEF AtMostOne
  <2>2. QED
    BY <1>6, <2>1 DEF GenerationOf
<1>8. QED
  BY <1>1, <1>2, <1>6, <1>7 DEF PlanOK

\* decline and cancel find the unit parked, and so come with a question.
LEMMA EndPlansOK ==
  ASSUME InboxTypes, InboxOK, WaitingHoldsNothing, NEW p \in DeclinePlans \cup CancelPlans
  PROVE  p \in Plan /\ PlanOK(p)
<1>1. PICK op \in {"decline", "cancel"}, ended \in Ended, a \in Assignments, by \in By :
        /\ p = EndPlan(op, ended, a, by)
        /\ ended = "DECLINED" => by \in Persons
        /\ Waiting(a)
  <2>1. CASE p \in DeclinePlans
    BY <2>1, InboxAssumption DEF DeclinePlans, Ended, By
  <2>2. CASE p \in CancelPlans
    BY <2>2 DEF CancelPlans, Ended, By
  <2>3. QED
    BY <2>1, <2>2
<1> DEFINE d == Draft(op, a, by, asg[a].unit)
<1>2. asg[a].unit \in SUBSET Units /\ AtMostOne(asg[a].unit)
  BY DEF InboxTypes, Assignment, InboxOK
<1>3. d \in Plan /\ d.op = op /\ d.asg = a /\ d.units = asg[a].unit
  BY <1>2, DraftFacts DEF Ops
<1>4. Stopped(a)
  BY <1>1 DEF Waiting, WaitingHoldsNothing, Stopped
<1>5. p = WithQuestion(d, Addressee(a, ended, by))
  BY <1>1, <1>4 DEF EndPlan
<1>6. /\ p \in Plan /\ p.op = op /\ p.asg = a /\ p.units = asg[a].unit
      /\ p.round \in Nat /\ p.round > 0
  BY <1>1, <1>3, <1>5, AddresseeFacts, WithQuestionFacts
<1>7. QED
  BY <1>2, <1>6 DEF PlanOK

\* resume finds the answer's person active.
LEMMA ResumePlansOK ==
  ASSUME InboxTypes, InboxOK, NEW p \in ResumePlans
  PROVE  p \in Plan /\ PlanOK(p)
<1>1. PICK a \in Assignments, w \in Agents :
        p = Draft("resume", a, w, asg[a].unit) /\ Admits(asg[a].state, Owner)
  BY DEF ResumePlans
<1>2. asg[a].unit \in SUBSET Units /\ AtMostOne(asg[a].unit)
  BY DEF InboxTypes, Assignment, InboxOK
<1>3. p \in Plan /\ p.op = "resume" /\ p.by = w /\ p.units = asg[a].unit
  BY <1>1, <1>2, DraftFacts DEF Ops, By
<1>4. QED
  BY <1>1, <1>2, <1>3 DEF PlanOK, Admits

\* ask is about an assignment that has ended or whose answer does not admit.
LEMMA AskPlansOK ==
  ASSUME ClaimTypes, InboxTypes, InboxOK, NEW p \in AskPlans
  PROVE  p \in Plan /\ PlanOK(p)
<1>1. PICK a \in Assignments :
        /\ p = WithQuestion(Draft("ask", a, NoAgent, asg[a].unit), Addressee(a, asg[a].state, NoAgent))
        /\ ParkedReason(a) \in Askable
        /\ Addressee(a, asg[a].state, NoAgent).to \in active
  BY DEF AskPlans
<1> DEFINE d == Draft("ask", a, NoAgent, asg[a].unit)
           who == Addressee(a, asg[a].state, NoAgent)
<1>2. asg[a].unit \in SUBSET Units /\ AtMostOne(asg[a].unit)
  BY DEF InboxTypes, Assignment, InboxOK
<1>3. d \in Plan /\ d.op = "ask" /\ d.asg = a /\ d.units = asg[a].unit
  BY <1>2, DraftFacts DEF Ops, By
<1>4. Past(a)
  BY <1>1 DEF Past, ParkedReason, Askable, DispositionState, InboxOK, Admits
<1>5. who.to \in Persons \cup {NoPerson} /\ who.as \in Addressees
  BY <1>1, AddresseeFacts DEF ClaimTypes
<1>6. p \in Plan /\ p.op = "ask" /\ p.asg = a /\ p.units = asg[a].unit
  BY <1>1, <1>3, <1>5, WithQuestionFacts
<1>7. QED
  BY <1>2, <1>4, <1>6 DEF PlanOK

\* dispose is about an assignment with a question.
LEMMA DisposePlansOK ==
  ASSUME InboxTypes, InboxOK, NEW p \in DisposePlans
  PROVE  p \in Plan /\ PlanOK(p)
<1>1. PICK a \in Assignments : p = DisposePlan(a) /\ question[a] # <<>>
  BY DEF DisposePlans, AwaitsDisposition
<1> DEFINE d == Draft("dispose", a, NoAgent, asg[a].unit)
<1>2. asg[a].unit \in SUBSET Units /\ AtMostOne(asg[a].unit) /\ Past(a)
  BY <1>1 DEF InboxTypes, Assignment, InboxOK
<1>3. d \in Plan /\ d.op = "dispose" /\ d.asg = a /\ d.units = asg[a].unit
  BY <1>2, DraftFacts DEF Ops, By
<1>4. Latest(a) \in QuestionRecord /\ Len(question[a]) \in Nat
  BY <1>1, LastFacts, LenProperties DEF Latest, InboxTypes
<1>5. UNION {IF Latest(a).ruling = "close" THEN Siblings(u) ELSE {} : u \in asg[a].unit}
        \in SUBSET Units
  BY <1>2 DEF Siblings, OpenUnits
<1>6. p \in Plan /\ p.op = "dispose" /\ p.asg = a /\ p.units = asg[a].unit
  BY <1>1, <1>3, <1>4, <1>5 DEF DisposePlan, Plan, QuestionRecord
<1>7. QED
  BY <1>2, <1>6 DEF PlanOK

\* Every command reads what makes its plan right.
LEMMA PlansOK ==
  ASSUME ClaimTypes, InboxTypes, InboxOK, WaitingHoldsNothing, NEW p \in Plans
  PROVE  p \in Plan /\ PlanOK(p)
BY OpenPlansOK, EndPlansOK, ResumePlansOK, AskPlansOK, DisposePlansOK DEF Plans

-----------------------------------------------------------------------------
(* What steps do to parked claims.                                         *)

\* What each answer of the organ says about the record.
LEMMA OwnershipFacts ==
  ASSUME ClaimTypes, NEW u \in Units, NEW op
  PROVE  /\ Ownership(u, op) = "owned" => claim[u].state = "owned"
         /\ Ownership(u, op) = "parked" => claim[u].state = "released"
         /\ Ownership(u, op) = "unowned" =>
              claim[u].state # "owned" /\ \A a \in Assignments : ~ParkedOn(u, a)
<1>1. claim[u].state \in {"none", "owned", "released"}
  BY DEF ClaimTypes, ClaimRecord
<1>2. QED
  BY <1>1, ClaimAssumption DEF Ownership, ParkedOn

\* Giving a held unit up parks it where it says, and no other unit.
LEMMA GiveUpParks ==
  ASSUME ClaimTypes, NEW u \in Units, NEW a, claim[u].state = "owned", GiveUp(u, a),
         NEW v \in Units, NEW b \in Assignments
  PROVE  ParkedOn(v, b)' <=> ParkedOn(v, b) \/ (v = u /\ b = a)
<1>1. claim[u] \in ClaimRecord
  BY DEF ClaimTypes
<1>2. CASE v = u
  BY <1>1, <1>2 DEF GiveUp, ParkedOn, ClaimTypes, ClaimRecord
<1>3. CASE v # u
  BY <1>3 DEF GiveUp, ParkedOn, ClaimTypes
<1>4. QED
  BY <1>2, <1>3

\* A unit that is handed out or unparked is parked nowhere, and others stay.
LEMMA LeavesPark ==
  ASSUME ClaimTypes, NEW u \in Units,
         (\E w \in Agents, L \in SUBSET Sessions : HandOut(u, w, L)) \/ (\E a : Unpark(u, a)),
         NEW v \in Units, NEW b \in Assignments
  PROVE  ParkedOn(v, b)' <=> v # u /\ ParkedOn(v, b)
<1>1. claim[u] \in ClaimRecord
  BY DEF ClaimTypes
<1>2. CASE v = u
  BY <1>1, <1>2, ClaimAssumption DEF HandOut, Unpark, ParkedOn, ClaimTypes, ClaimRecord
<1>3. CASE v # u
  BY <1>3 DEF HandOut, Unpark, ParkedOn, ClaimTypes
<1>4. QED
  BY <1>2, <1>3

\* Only opening parks, and only a unit of a past assignment leaves its place.
LEMMA TransactionParks ==
  ASSUME ClaimTypes, InboxTypes, InboxOK, NEW p \in Plan, PlanOK(p), Transaction(p),
         NEW v \in Units, NEW b \in Assignments
  PROVE  /\ ParkedOn(v, b)' => ParkedOn(v, b) \/ (Open(p) /\ v \in p.units /\ b = p.asg)
         /\ ParkedOn(v, b) => ParkedOn(v, b)' \/ (b = p.asg /\ Past(b) /\ ~Open(p))
         /\ Open(p) /\ v \in p.units => ParkedOn(v, p.asg)'
<1> USE PlanFields
<1>1. CASE Open(p)
  <2>1. CASE p.units = {}
    BY <1>1, <2>1 DEF Open, claimVars, ParkedOn
  <2>2. ASSUME NEW u \in p.units, GiveUp(u, p.asg)
        PROVE  ParkedOn(v, b)' <=> ParkedOn(v, b) \/ (v = u /\ b = p.asg)
    <3>1. claim[u].state = "owned"
      BY <1>1, OwnershipFacts DEF Open, HolderActs
    <3>2. QED
      BY <2>2, <3>1, GiveUpParks
  <2>3. ASSUME NEW u \in p.units, GiveUp(u, p.asg)
        PROVE  ParkedOn(u, p.asg)'
    <3>1. claim[u].state = "owned"
      BY <1>1, OwnershipFacts DEF Open, HolderActs
    <3>2. QED
      BY <2>3, <3>1, GiveUpParks
  <2>4. AtMostOne(p.units)
    BY DEF PlanOK
  <2>5. QED
    BY <1>1, <2>1, <2>2, <2>3, <2>4 DEF Open, AtMostOne
<1>2. CASE Decline(p) \/ Cancel(p) \/ Ask(p)
  BY <1>2 DEF Decline, Cancel, End, Ask, Open, claimVars, ParkedOn
<1>3. CASE Resume(p)
  <2>1. PICK u \in p.units : TakeAgain(u, p.by, p.asg)
    BY <1>3 DEF Resume
  <2>2. /\ HandOut(u, p.by, {s \in Sessions : AgentOf[s] = p.by})
        /\ claim[u].parked = p.asg
    BY <2>1 DEF TakeAgain
  <2>3. p.by \in Agents /\ ~Open(p) /\ Past(p.asg)
    BY <1>3 DEF Resume, PlanOK, Open, Past
  <2>4. ParkedOn(v, b)' <=> v # u /\ ParkedOn(v, b)
    BY <2>2, <2>3, LeavesPark
  <2>5. QED
    BY <2>2, <2>3, <2>4 DEF ParkedOn
<1>4. CASE Dispose(p)
  <2>1. PICK u \in p.units : Close(p, u) \/ Unpark(u, p.asg) \/ UNCHANGED claimVars
    BY <1>4 DEF Dispose
  <2>2. Past(p.asg) /\ ~Open(p)
    BY <1>4 DEF Dispose, Open, PlanOK
  <2>3. CASE Close(p, u) \/ UNCHANGED claimVars
    BY <2>2, <2>3 DEF Close, claimVars, ParkedOn
  <2>4. CASE Unpark(u, p.asg)
    <3>1. ParkedOn(v, b)' <=> v # u /\ ParkedOn(v, b)
      BY <2>4, LeavesPark
    <3>2. claim[u].parked = p.asg
      BY <2>4 DEF Unpark
    <3>3. QED
      BY <2>2, <3>1, <3>2 DEF ParkedOn
  <2>5. QED
    BY <2>1, <2>3, <2>4
<1>5. QED
  BY <1>1, <1>2, <1>3, <1>4 DEF Transaction

\* The Receiver's commands neither park a unit nor take a parked one.
LEMMA ClaimCommandParks ==
  ASSUME ClaimTypes, ClaimCommand, NEW v \in Units, NEW b \in Assignments
  PROVE  ParkedOn(v, b)' <=> ParkedOn(v, b)
<1>1. ASSUME NEW u \in Units, NEW s \in Sessions, Claim(s, u)
      PROVE  ParkedOn(v, b)' <=> ParkedOn(v, b)
  <2>1. HandOut(u, AgentOf[s], {s}) /\ AgentOf[s] \in Agents
    BY <1>1, ClaimAssumption DEF Claim
  <2>2. ~ParkedOn(u, b)
    BY <1>1, OwnershipFacts DEF Claim
  <2>3. ParkedOn(v, b)' <=> v # u /\ ParkedOn(v, b)
    BY <2>1, LeavesPark
  <2>4. QED
    BY <2>2, <2>3
<1>2. ASSUME NEW u \in Units, NEW s \in Sessions, Release(s, u)
      PROVE  ParkedOn(v, b)' <=> ParkedOn(v, b)
  <2>1. claim[u].state = "owned" /\ GiveUp(u, NoAssignment)
    BY <1>2, OwnershipFacts DEF Release, HolderActs
  <2>2. QED
    BY <2>1, GiveUpParks, ClaimAssumption
<1>3. ASSUME NEW u \in Units, Expire(u) \/ \E s \in Sessions : Renew(s, u)
      PROVE  ParkedOn(v, b)' <=> ParkedOn(v, b)
  <2>1. claim[u] \in ClaimRecord
    BY DEF ClaimTypes
  <2>2. CASE v = u
    BY <1>3, <2>1, <2>2 DEF Expire, Renew, ParkedOn, ClaimTypes, ClaimRecord
  <2>3. CASE v # u
    BY <1>3, <2>3 DEF Expire, Renew, ParkedOn, ClaimTypes
  <2>4. QED
    BY <2>2, <2>3
<1>4. QED
  BY <1>1, <1>2, <1>3 DEF ClaimCommand

-----------------------------------------------------------------------------
(* What steps do to the inbox.                                             *)

\* A question is opened at the end of the last, or nothing is.
LEMMA QuestionOpened ==
  ASSUME InboxTypes, NEW p \in Plan, OpensQuestion(p)
  PROVE  /\ p.to = NoPerson => question' = question
         /\ p.to # NoPerson => question'[p.asg] # <<>>
         /\ \A a \in Assignments :
              /\ a # p.asg => question'[a] = question[a]
              /\ Len(question'[a]) >= Len(question[a])
              /\ \A r \in 1..Len(question[a]) : question'[a][r] = question[a][r]
<1>1. CASE p.to = NoPerson
  BY <1>1, LenProperties DEF OpensQuestion, InboxTypes
<1>2. CASE p.to # NoPerson
  <2> DEFINE q == question[p.asg]
             e == NewQuestion(p)
  <2>1. p.asg \in Assignments /\ q \in Seq(QuestionRecord) /\ e \in QuestionRecord
    BY <1>2, PlanFields DEF InboxTypes, NewQuestion, QuestionRecord
  <2>2. question' = [question EXCEPT ![p.asg] = Append(q, e)]
    BY <1>2 DEF OpensQuestion
  <2>3. /\ Append(q, e) # <<>> /\ Len(Append(q, e)) >= Len(q)
        /\ \A r \in 1..Len(q) : Append(q, e)[r] = q[r]
    BY <2>1, AppendProperties
  <2>4. \A a \in Assignments : Len(question[a]) \in Nat
    BY LenProperties DEF InboxTypes
  <2>5. question'[p.asg] = Append(q, e) /\ \A a \in Assignments : a # p.asg => question'[a] = question[a]
    BY <2>1, <2>2 DEF InboxTypes
  <2>6. QED
    BY <1>2, <2>3, <2>4, <2>5
<1>3. QED
  BY <1>1, <1>2

\* What a transaction does to the assignments and their questions.
LEMMA TransactionMoves ==
  ASSUME InboxTypes, NEW p \in Plan, PlanOK(p), Transaction(p), NEW a \in Assignments
  PROVE  /\ a # p.asg => asg'[a] = asg[a] /\ question'[a] = question[a]
         /\ asg[a].state # "absent" => asg'[a].unit = asg[a].unit /\ asg'[a].state # "absent"
         /\ Past(a) => asg'[a] = asg[a]
         /\ question[a] # <<>> => question'[a] # <<>>
         /\ question'[p.asg] = question[p.asg] \/ Past(p.asg)'
         /\ Open(p) => /\ asg[p.asg].state = "absent" /\ question' = question
                       /\ asg'[p.asg].state = "OFFERED" /\ asg'[p.asg].unit = p.units
         /\ asg'[p.asg] = asg[p.asg] \/ Open(p) \/ Decline(p) \/ Cancel(p)
<1>0. p.asg \in Assignments /\ \A b \in Assignments : asg[b] \in Assignment
  BY PlanFields DEF InboxTypes
<1>1. CASE Open(p)
  BY <1>0, <1>1 DEF Open, InboxTypes, Past
<1>2. ASSUME NEW ended \in Ended, End(p, ended), ~Open(p), Decline(p) \/ Cancel(p)
      PROVE  /\ a # p.asg => asg'[a] = asg[a] /\ question'[a] = question[a]
             /\ asg[a].state # "absent" => asg'[a].unit = asg[a].unit /\ asg'[a].state # "absent"
             /\ Past(a) => asg'[a] = asg[a]
             /\ question[a] # <<>> => question'[a] # <<>>
             /\ Past(p.asg)'
  <2>1. asg[p.asg].state = "OFFERED"
    BY <1>2 DEF End
  <2>2. asg'[p.asg].state = ended /\ asg'[p.asg].unit = asg[p.asg].unit
    BY <1>0, <1>2 DEF End, InboxTypes, Assignment
  <2>3. a # p.asg => asg'[a] = asg[a]
    BY <1>2 DEF End, InboxTypes
  <2>4. Past(p.asg)' /\ ~Past(p.asg)
    BY <2>1, <2>2 DEF Past, Ended
  <2>5. (a # p.asg => question'[a] = question[a]) /\ (question[a] # <<>> => question'[a] # <<>>)
    BY <1>2, QuestionOpened DEF End
  <2>6. QED
    BY <2>2, <2>3, <2>4, <2>5 DEF Ended
<1>3. CASE Decline(p) \/ Cancel(p)
  <2>1. PICK ended \in Ended : End(p, ended)
    BY <1>3 DEF Decline, Cancel, Ended
  <2>2. ~Open(p)
    BY <1>3 DEF Decline, Cancel, Open
  <2>3. QED
    BY <1>2, <1>3, <2>1, <2>2
<1>4. CASE Resume(p)
  BY <1>4 DEF Resume, Open, inboxVars
<1>5. CASE Ask(p)
  <2>1. asg' = asg /\ ~Open(p) /\ Past(p.asg)
    BY <1>5 DEF Ask, Open, PlanOK
  <2>2. (a # p.asg => question'[a] = question[a]) /\ (question[a] # <<>> => question'[a] # <<>>)
    BY <1>5, QuestionOpened DEF Ask
  <2>3. QED
    BY <2>1, <2>2 DEF Past
<1>6. CASE Dispose(p)
  <2>1. asg' = asg /\ ~Open(p) /\ Past(p.asg) /\ question[p.asg] # <<>>
    BY <1>6 DEF Dispose, Open, PlanOK, AwaitsDisposition
  <2>2. question' = [question EXCEPT ![p.asg] = [@ EXCEPT ![p.round].applied = TRUE]]
    BY <1>6 DEF Dispose
  <2>3. a # p.asg => question'[a] = question[a]
    BY <1>0, <2>2 DEF InboxTypes
  <2>4. question'[p.asg] # <<>>
    <3>1. question[p.asg] \in Seq(QuestionRecord)
      BY <1>0 DEF InboxTypes
    <3>2. 1 \in DOMAIN question[p.asg]
      BY <2>1, <3>1, EmptySeq, LenProperties
    <3>3. question'[p.asg] = [question[p.asg] EXCEPT ![p.round].applied = TRUE]
      BY <1>0, <2>2 DEF InboxTypes
    <3>4. 1 \in DOMAIN question'[p.asg]
      BY <3>2, <3>3
    <3>5. QED
      BY <3>4
  <2>5. QED
    BY <2>1, <2>3, <2>4 DEF Past
<1>7. QED
  BY <1>1, <1>3, <1>4, <1>5, <1>6 DEF Transaction

\* An answer moves one assignment on, or one question.
LEMMA AnswerMoves ==
  ASSUME InboxTypes, NEW b \in Assignments, NEW a \in Assignments,
         Answer(b) \/ Revise(b) \/ \E ruling \in Rulings : AnswerQuestion(b, ruling)
  PROVE  /\ asg'[a].unit = asg[a].unit
         /\ Past(a) => asg'[a] = asg[a]
         /\ asg[a].state # "absent" => asg'[a].state # "absent"
         /\ asg'[a] = asg[a] \/ asg'[a].state = "SUBMITTED"
         /\ question'[a] # <<>> <=> question[a] # <<>>
<1>0. asg[b] \in Assignment
  BY DEF InboxTypes
<1>1. CASE Answer(b)
  BY <1>0, <1>1 DEF Answer, Waiting, InboxTypes, Assignment, Past
<1>2. CASE Revise(b)
  BY <1>2 DEF Revise, inboxVars
<1>3. ASSUME NEW ruling \in Rulings, AnswerQuestion(b, ruling)
      PROVE  asg' = asg /\ (question'[a] # <<>> <=> question[a] # <<>>)
  <2> DEFINE q == question[b]
  <2>1. q \in Seq(QuestionRecord) /\ q # <<>> /\ asg' = asg
    BY <1>3 DEF InboxTypes, AnswerQuestion
  <2>2. 1 \in DOMAIN q
    BY <2>1, EmptySeq, LenProperties
  <2>3. question' = [question EXCEPT ![b][Len(q)] = [@ EXCEPT !.state = "SUBMITTED", !.ruling = ruling]]
    BY <1>3 DEF AnswerQuestion
  <2>4. DOMAIN question'[b] = DOMAIN q /\ (a # b => question'[a] = question[a])
    BY <2>3 DEF InboxTypes
  <2>5. question'[b] # <<>>
    BY <2>2, <2>4
  <2>6. QED
    BY <2>1, <2>4, <2>5
<1>4. QED
  BY <1>1, <1>2, <1>3

-----------------------------------------------------------------------------
(* The records' part of the invariant, one conjunct at a time.             *)

Answers(a) == Answer(a) \/ Revise(a) \/ \E ruling \in Rulings : AnswerQuestion(a, ruling)

\* The kinds of steps, as far as the records tell them apart.
LEMMA Steps ==
  ASSUME Inv, [Next]_vars
  PROVE  \/ \E p \in Plan : PlanOK(p) /\ Transaction(p)
         \/ \E a \in Assignments : Answers(a)
         \/ ClaimCommand
         \/ OtherCommand
         \/ UNCHANGED <<claimVars, inboxVars>>
<1>1. ClaimTypes /\ InboxTypes /\ InboxOK /\ WaitingHoldsNothing
  BY DEF Inv, TypeOK, ClaimTypes, InboxTypes
<1>2. CASE Commit
  BY <1>2 DEF Commit, Inv, TypeOK
<1>3. CASE InboxCommand
  <2>1. CASE \E p \in Plans : Transaction(p)
    BY <1>1, <2>1, PlansOK
  <2>2. CASE ~\E p \in Plans : Transaction(p)
    BY <1>3, <2>2 DEF InboxCommand, Answers
  <2>3. QED
    BY <2>1, <2>2
<1>4. CASE Prepare \/ Abandon \/ UNCHANGED vars
  BY <1>4 DEF Prepare, Abandon, vars
<1>5. QED
  BY <1>2, <1>3, <1>4 DEF Next

\* What a step of the others leaves alone.
LEMMA Frames ==
  /\ OtherCommand => UNCHANGED <<claim, told, grants, asg, question>>
  /\ ClaimCommand => UNCHANGED <<asg, question>>
  /\ \A a \in Assignments : Answers(a) => UNCHANGED claimVars
<1>1. OtherCommand => UNCHANGED <<claim, told, grants, asg, question>>
  BY DEF OtherCommand, AppendUnit, DisposeUnit, PrioritizeUnits, CancelItem, SetProject,
         SetMember, inboxVars
<1>2. ClaimCommand => UNCHANGED <<asg, question>>
  BY DEF ClaimCommand, inboxVars
<1>3. ASSUME NEW a \in Assignments, Answers(a)
      PROVE  UNCHANGED claimVars
  BY <1>3 DEF Answers, Answer, Revise, AnswerQuestion, claimVars
<1>4. QED
  BY <1>1, <1>2, <1>3

\* Well-formed records stay well formed.
LEMMA TypesKept ==
  ASSUME Inv, [Next]_vars
  PROVE  ClaimTypes' /\ InboxTypes'
<1>1. ClaimTypes /\ InboxTypes
  BY DEF Inv, TypeOK, ClaimTypes, InboxTypes
<1>2. ASSUME NEW p \in Plan, PlanOK(p), Transaction(p)
      PROVE  ClaimTypes' /\ InboxTypes'
  BY <1>1, <1>2, TransactionClaims, TransactionInbox
<1>3. ASSUME NEW a \in Assignments, Answers(a)
      PROVE  ClaimTypes' /\ InboxTypes'
  <2>1. InboxTypes'
    BY <1>1, <1>3, AnswerInbox DEF Answers
  <2>2. UNCHANGED claimVars
    BY <1>3, Frames
  <2>3. QED
    BY <1>1, <2>1, <2>2 DEF claimVars, ClaimTypes
<1>4. CASE ClaimCommand
  <2>1. ASSUME NEW u \in Units, NEW s \in Sessions, Claim(s, u)
        PROVE  ClaimTypes'
    <3>1. HandOut(u, AgentOf[s], {s}) /\ AgentOf[s] \in Agents
      BY <2>1, ClaimAssumption DEF Claim
    <3>2. QED
      BY <1>1, <3>1, HandOutTypes
  <2>2. ASSUME NEW u \in Units,
               Expire(u) \/ \E s \in Sessions : Renew(s, u) \/ Release(s, u)
        PROVE  ClaimTypes'
    BY <1>1, <2>2, FieldTypes
  <2>3. ClaimTypes'
    BY <1>4, <2>1, <2>2 DEF ClaimCommand
  <2>4. QED
    BY <1>1, <1>4, <2>3, Frames DEF InboxTypes
<1>5. CASE OtherCommand
  BY <1>1, <1>5, OtherTypes, Frames DEF InboxTypes
<1>6. CASE UNCHANGED <<claimVars, inboxVars>>
  BY <1>1, <1>6 DEF claimVars, inboxVars, ClaimTypes, InboxTypes
<1>7. QED
  BY <1>2, <1>3, <1>4, <1>5, <1>6, Steps

\* Assignments that were asked about stay past, and each stops one unit at most.
LEMMA InboxKept ==
  ASSUME Inv, [Next]_vars
  PROVE  InboxOK'
<1>1. InboxTypes /\ InboxOK
  BY DEF Inv, TypeOK, InboxTypes
<1>2. ASSUME NEW p \in Plan, PlanOK(p), Transaction(p), NEW a \in Assignments
      PROVE  (question'[a] # <<>> => Past(a)') /\ AtMostOne(asg'[a].unit)
  <2>1. question'[a] # <<>> => Past(a)'
    <3>1. CASE question'[a] = question[a]
      <4>1. question[a] # <<>> => Past(a)
        BY <1>1 DEF InboxOK
      <4>2. Past(a) => Past(a)'
        BY <1>1, <1>2, TransactionMoves DEF Past
      <4>3. QED
        BY <3>1, <4>1, <4>2
    <3>2. CASE question'[a] # question[a]
      <4>1. a = p.asg
        BY <1>1, <1>2, <3>2, TransactionMoves
      <4>2. question'[p.asg] = question[p.asg] \/ Past(p.asg)'
        BY <1>1, <1>2, TransactionMoves
      <4>3. Past(a)'
        BY <3>2, <4>1, <4>2 DEF Past
      <4>4. QED
        BY <4>3
    <3>3. QED
      BY <3>1, <3>2
  <2>2. CASE Open(p) /\ a = p.asg
    <3>1. asg'[p.asg].unit = p.units
      BY <1>1, <1>2, <2>2, TransactionMoves
    <3>2. QED
      BY <1>2, <2>1, <2>2, <3>1 DEF PlanOK
  <2>3. CASE ~(Open(p) /\ a = p.asg)
    <3>1. asg'[a].unit = asg[a].unit
      <4>1. asg'[p.asg] = asg[p.asg] \/ Open(p) \/ asg[p.asg].state = "OFFERED"
        BY <1>1, <1>2, TransactionMoves DEF Decline, Cancel, End
      <4>2. QED
        BY <1>1, <1>2, <2>3, <4>1, TransactionMoves
    <3>2. QED
      BY <1>1, <2>1, <3>1 DEF InboxOK
  <2>4. QED
    BY <2>2, <2>3
<1>3. ASSUME NEW b \in Assignments, Answers(b), NEW a \in Assignments
      PROVE  (question'[a] # <<>> => Past(a)') /\ AtMostOne(asg'[a].unit)
  <2>1. /\ asg'[a].unit = asg[a].unit
        /\ Past(a) => asg'[a] = asg[a]
        /\ question'[a] # <<>> <=> question[a] # <<>>
    BY <1>1, <1>3, AnswerMoves DEF Answers
  <2>2. QED
    BY <1>1, <2>1 DEF InboxOK, Past
<1>4. CASE UNCHANGED <<asg, question>>
  BY <1>1, <1>4 DEF InboxOK, Past
<1>5. QED
  BY <1>2, <1>3, <1>4, Steps, Frames DEF InboxOK, inboxVars

\* "Waiting holds nothing" survives every step.
LEMMA WaitingKept ==
  ASSUME Inv, [Next]_vars
  PROVE  WaitingHoldsNothing'
<1>1. ClaimTypes /\ InboxTypes /\ InboxOK /\ WaitingHoldsNothing
  BY DEF Inv, TypeOK, ClaimTypes, InboxTypes
<1>0. InboxTypes'
  BY TypesKept
<1> SUFFICES ASSUME NEW a \in Assignments, asg'[a].state = "OFFERED", NEW u \in asg'[a].unit
             PROVE  ParkedOn(u, a)'
  BY DEF WaitingHoldsNothing
<1>2. u \in Units
  BY <1>0 DEF InboxTypes, Assignment
<1>3. ASSUME NEW p \in Plan, PlanOK(p), Transaction(p)
      PROVE  ParkedOn(u, a)'
  <2>1. CASE Open(p) /\ a = p.asg
    <3>1. u \in p.units
      BY <1>1, <1>3, <2>1, TransactionMoves
    <3>2. ParkedOn(u, p.asg)'
      BY <1>1, <1>2, <1>3, <2>1, <3>1, TransactionParks
    <3>3. QED
      BY <2>1, <3>2
  <2>2. CASE ~(Open(p) /\ a = p.asg)
    <3>1. asg'[a] = asg[a]
      <4>1. CASE a # p.asg
        BY <1>1, <1>3, <4>1, TransactionMoves
      <4>2. CASE a = p.asg /\ (Decline(p) \/ Cancel(p))
        BY <1>1, <4>2 DEF Decline, Cancel, End, InboxTypes, Assignment
      <4>3. QED
        BY <1>1, <1>3, <2>2, <4>1, <4>2, TransactionMoves
    <3>2. ParkedOn(u, a) /\ ~Past(a)
      BY <1>1, <3>1 DEF WaitingHoldsNothing, Past
    <3>3. QED
      BY <1>1, <1>2, <1>3, <3>2, TransactionParks
  <2>3. QED
    BY <2>1, <2>2
<1>4. ASSUME NEW b \in Assignments, Answers(b)
      PROVE  ParkedOn(u, a)'
  <2>1. asg'[a] = asg[a]
    BY <1>1, <1>4, AnswerMoves DEF Answers
  <2>2. UNCHANGED claim
    BY <1>4, Frames DEF claimVars
  <2>3. QED
    BY <1>1, <2>1, <2>2 DEF WaitingHoldsNothing, ParkedOn
<1>5. CASE ClaimCommand
  <2>1. ParkedOn(u, a)
    BY <1>1, <1>5, Frames DEF WaitingHoldsNothing
  <2>2. QED
    BY <1>1, <1>2, <1>5, <2>1, ClaimCommandParks
<1>6. CASE UNCHANGED <<claim, asg>>
  BY <1>1, <1>6 DEF WaitingHoldsNothing, ParkedOn
<1>7. QED
  BY <1>3, <1>4, <1>5, <1>6, Steps, Frames DEF claimVars, inboxVars

\* An end finds the unit parked and asks about it, and questions stay.
LEMMA AskedKept ==
  ASSUME Inv, [Next]_vars
  PROVE  StoppedWorkIsAsked'
<1>1. ClaimTypes /\ InboxTypes /\ InboxOK /\ StoppedWorkIsAsked
  BY DEF Inv, TypeOK, ClaimTypes, InboxTypes
<1>0. InboxTypes'
  BY TypesKept
<1> SUFFICES ASSUME NEW a \in Assignments, asg'[a].state \in Ended, NEW u \in asg'[a].unit,
                    ParkedOn(u, a)'
             PROVE  question'[a] # <<>> \/ asg'[a].unasked
  BY DEF StoppedWorkIsAsked, Stopped
<1>2. u \in Units
  BY <1>0 DEF InboxTypes, Assignment
<1>3. ASSUME asg'[a] = asg[a], ParkedOn(u, a), question[a] # <<>> => question'[a] # <<>>
      PROVE  question'[a] # <<>> \/ asg'[a].unasked
  BY <1>1, <1>3 DEF StoppedWorkIsAsked, Stopped
<1>4. ASSUME NEW p \in Plan, PlanOK(p), Transaction(p)
      PROVE  question'[a] # <<>> \/ asg'[a].unasked
  <2>1. question[a] # <<>> => question'[a] # <<>>
    BY <1>1, <1>4, TransactionMoves
  <2>2. CASE a = p.asg /\ (Decline(p) \/ Cancel(p))
    <3>1. p.round > 0
      BY <1>4, <2>2 DEF PlanOK, Decline, Cancel
    <3>2. OpensQuestion(p)
      BY <2>2 DEF Decline, Cancel, End
    <3>3. p.to = NoPerson => asg'[a].unasked
      <4> DEFINE unasked == p.round > 0 /\ p.to = NoPerson
      <4>1. PICK ended \in Ended : asg' = [asg EXCEPT ![a].state = ended, ![a].unasked = unasked]
        BY <2>2 DEF Decline, Cancel, End, Ended
      <4>2. p.to = NoPerson => unasked
        BY <3>1
      <4> HIDE DEF unasked
      <4>3. asg'[a] = [asg[a] EXCEPT !.state = ended, !.unasked = unasked]
        BY <1>1, <4>1 DEF InboxTypes
      <4>4. asg[a] \in Assignment
        BY <1>1 DEF InboxTypes
      <4>5. asg'[a].unasked = unasked
        BY <4>3, <4>4 DEF Assignment
      <4>6. QED
        BY <4>2, <4>5
    <3>4. p.to # NoPerson => question'[a] # <<>>
      BY <1>1, <2>2, <3>2, QuestionOpened
    <3>5. QED
      BY <3>3, <3>4
  <2>3. CASE ~(a = p.asg /\ (Decline(p) \/ Cancel(p)))
    <3>1. ~(Open(p) /\ a = p.asg)
      BY <1>1, <1>4, TransactionMoves DEF Ended
    <3>2. asg'[a] = asg[a]
      BY <1>1, <1>4, <2>3, <3>1, TransactionMoves
    <3>3. ParkedOn(u, a)
      BY <1>1, <1>2, <1>4, <3>1, TransactionParks
    <3>4. QED
      BY <1>3, <2>1, <3>2, <3>3
  <2>4. QED
    BY <2>2, <2>3
<1>5. ASSUME NEW b \in Assignments, Answers(b)
      PROVE  question'[a] # <<>> \/ asg'[a].unasked
  <2>1. asg'[a] = asg[a] /\ (question[a] # <<>> => question'[a] # <<>>)
    BY <1>1, <1>5, AnswerMoves DEF Answers, Ended
  <2>2. ParkedOn(u, a)
    BY <1>5, Frames DEF claimVars, ParkedOn
  <2>3. QED
    BY <1>3, <2>1, <2>2
<1>6. CASE ClaimCommand
  <2>1. ParkedOn(u, a)
    BY <1>1, <1>2, <1>6, ClaimCommandParks
  <2>2. QED
    BY <1>3, <1>6, <2>1, Frames
<1>7. CASE UNCHANGED <<claim, asg, question>>
  BY <1>3, <1>7 DEF ParkedOn
<1>8. QED
  BY <1>4, <1>5, <1>6, <1>7, Steps, Frames DEF claimVars, inboxVars

\* A handout makes the item active, which a canceled one is no more.
LEMMA HandOutCloses ==
  ASSUME NEW u \in Units, NEW w, NEW L, HandOut(u, w, L)
  PROVE  ClosedItemHasNoOpenUnit'
BY DEF HandOut, ClosedItemHasNoOpenUnit

\* Nothing opens a unit of a canceled item, and what cancels it leaves none open.
LEMMA ClosedKept ==
  ASSUME Inv, [Next]_vars
  PROVE  ClosedItemHasNoOpenUnit'
<1>1. ClaimTypes /\ ClosedItemHasNoOpenUnit
  BY DEF Inv, TypeOK, ClaimTypes
<1>2. ASSUME UNCHANGED <<unit, item>>
      PROVE  ClosedItemHasNoOpenUnit'
  BY <1>1, <1>2 DEF ClosedItemHasNoOpenUnit, OpenUnits
<1>3. ASSUME NEW p \in Plan, PlanOK(p), Transaction(p)
      PROVE  ClosedItemHasNoOpenUnit'
  <2>1. CASE Open(p) \/ Decline(p) \/ Cancel(p) \/ Ask(p)
    BY <1>2, <2>1 DEF Open, GiveUp, Decline, Cancel, End, Ask, claimVars
  <2>2. CASE Resume(p)
    BY <2>2, HandOutCloses, PlanFields DEF Resume, TakeAgain
  <2>3. CASE Dispose(p)
    <3>1. PICK u \in p.units : Close(p, u) \/ Unpark(u, p.asg) \/ UNCHANGED claimVars
      BY <2>3 DEF Dispose
    <3>2. CASE Unpark(u, p.asg) \/ UNCHANGED claimVars
      BY <1>2, <3>2 DEF Unpark, claimVars
    <3>3. CASE Close(p, u)
      <4>1. OpenUnits' \subseteq Siblings(u)
        BY <1>1, <3>3, PlanFields DEF Close, OpenUnits, Siblings, ClaimTypes
      <4>2. QED
        BY <1>1, <3>3, <4>1 DEF Close, Siblings, ClosedItemHasNoOpenUnit
    <3>4. QED
      BY <3>1, <3>2, <3>3
  <2>4. QED
    BY <1>3, <2>1, <2>2, <2>3 DEF Transaction
<1>4. CASE ClaimCommand
  <2>1. ASSUME NEW u \in Units, NEW s \in Sessions, Claim(s, u)
        PROVE  ClosedItemHasNoOpenUnit'
    BY <2>1, HandOutCloses DEF Claim
  <2>2. ASSUME NEW u \in Units, Expire(u) \/ \E s \in Sessions : Renew(s, u) \/ Release(s, u)
        PROVE  ClosedItemHasNoOpenUnit'
    BY <1>2, <2>2 DEF Expire, Renew, Release, GiveUp
  <2>3. QED
    BY <1>4, <2>1, <2>2 DEF ClaimCommand
<1>5. CASE OtherCommand
  <2>1. ASSUME NEW u \in Units, AppendUnit(u) \/ DisposeUnit(u)
        PROVE  ClosedItemHasNoOpenUnit'
    BY <1>1, <2>1 DEF AppendUnit, DisposeUnit, Executable, ClosedItemHasNoOpenUnit, OpenUnits,
                      ClaimTypes
  <2>2. CASE PrioritizeUnits
    BY <2>2 DEF PrioritizeUnits, Executable, ClosedItemHasNoOpenUnit
  <2>3. CASE CancelItem
    BY <1>1, <2>3 DEF CancelItem, ClosedItemHasNoOpenUnit, OpenUnits, ClaimTypes
  <2>4. CASE (\E state \in {"ACTIVE", "PAUSED"} : SetProject(state)) \/ (\E p \in Persons : SetMember(p))
    BY <1>2, <2>4 DEF SetProject, SetMember
  <2>5. QED
    BY <1>5, <2>1, <2>2, <2>3, <2>4 DEF OtherCommand
<1>6. CASE \E a \in Assignments : Answers(a)
  BY <1>2, <1>6, Frames DEF claimVars
<1>7. CASE UNCHANGED claimVars
  BY <1>2, <1>7 DEF claimVars
<1>8. QED
  BY <1>3, <1>4, <1>5, <1>6, <1>7, Steps

\* A handout raises the generation by one and tells it as it is.
LEMMA HandOutCounts ==
  ASSUME ClaimTypes, GenerationsCount, NEW u \in Units, NEW w, NEW L \in SUBSET Sessions,
         HandOut(u, w, L)
  PROVE  GenerationsCount'
<1>1. /\ claim' = [claim EXCEPT ![u] = [state |-> "owned", holder |-> w, gen |-> claim[u].gen + 1,
                                        fresh |-> TRUE, parked |-> NoAssignment]]
      /\ grants' = [grants EXCEPT ![u] = @ + 1]
  BY DEF HandOut, NextGeneration
<1>2. \A v \in Units : claim'[v].gen = grants'[v]
  BY <1>1 DEF ClaimTypes, GenerationsCount
<1>3. CASE UNCHANGED told
  BY <1>2, <1>3 DEF GenerationsCount
<1>4. ASSUME NEW s \in L,
             told' = [told EXCEPT ![s][u] = [gen |-> NextGeneration(u), grant |-> grants[u] + 1]]
      PROVE  GenerationsCount'
  <2>1. claim[u].gen = grants[u]
    BY DEF GenerationsCount
  <2>2. \A x \in Sessions, v \in Units : told'[x][v].gen = told'[x][v].grant
    BY <1>4, <2>1 DEF ClaimTypes, GenerationsCount, NextGeneration
  <2>3. QED
    BY <1>2, <2>2 DEF GenerationsCount
<1>5. QED
  BY <1>3, <1>4 DEF HandOut, Hears

\* Nothing but a handout moves a generation.
LEMMA GenerationsKept ==
  ASSUME Inv, [Next]_vars
  PROVE  GenerationsCount'
<1>1. ClaimTypes /\ GenerationsCount
  BY DEF Inv, TypeOK, ClaimTypes
<1>2. ASSUME UNCHANGED <<claim, told, grants>>
      PROVE  GenerationsCount'
  BY <1>1, <1>2 DEF GenerationsCount
<1>3. ASSUME NEW u \in Units, NEW a, GiveUp(u, a) \/ Unpark(u, a)
      PROVE  GenerationsCount'
  <2>1. ASSUME NEW v \in Units
        PROVE  claim'[v].gen = claim[v].gen
    <3>1. claim[v] \in ClaimRecord
      BY <1>1 DEF ClaimTypes
    <3>2. CASE v = u
      BY <1>1, <1>3, <3>1, <3>2 DEF GiveUp, Unpark, ClaimTypes, ClaimRecord
    <3>3. CASE v # u
      BY <1>1, <1>3, <3>3 DEF GiveUp, Unpark, ClaimTypes
    <3>4. QED
      BY <3>2, <3>3
  <2>2. QED
    BY <1>1, <1>3, <2>1 DEF GiveUp, Unpark, GenerationsCount
<1>4. ASSUME NEW p \in Plan, PlanOK(p), Transaction(p)
      PROVE  GenerationsCount'
  <2>1. CASE Open(p) \/ Decline(p) \/ Cancel(p) \/ Ask(p)
    BY <1>2, <1>3, <2>1, PlanFields DEF Open, Decline, Cancel, End, Ask, claimVars
  <2>2. CASE Resume(p)
    <3>1. PICK u \in p.units : HandOut(u, p.by, {s \in Sessions : AgentOf[s] = p.by})
      BY <2>2 DEF Resume, TakeAgain
    <3>2. QED
      BY <1>1, <3>1, HandOutCounts, PlanFields
  <2>3. CASE Dispose(p)
    BY <1>2, <1>3, <2>3, PlanFields DEF Dispose, Close, claimVars
  <2>4. QED
    BY <1>4, <2>1, <2>2, <2>3 DEF Transaction
<1>5. CASE ClaimCommand
  <2>1. ASSUME NEW u \in Units, NEW s \in Sessions, Claim(s, u)
        PROVE  GenerationsCount'
    BY <1>1, <2>1, HandOutCounts DEF Claim
  <2>2. ASSUME NEW u \in Units, Expire(u) \/ \E s \in Sessions : Renew(s, u)
        PROVE  GenerationsCount'
    <3>1. ASSUME NEW v \in Units
          PROVE  claim'[v].gen = claim[v].gen
      <4>1. claim[v] \in ClaimRecord
        BY <1>1 DEF ClaimTypes
      <4>2. CASE v = u
        BY <1>1, <2>2, <4>1, <4>2 DEF Expire, Renew, ClaimTypes, ClaimRecord
      <4>3. CASE v # u
        BY <1>1, <2>2, <4>3 DEF Expire, Renew, ClaimTypes
      <4>4. QED
        BY <4>2, <4>3
    <3>2. QED
      BY <1>1, <2>2, <3>1 DEF Expire, Renew, GenerationsCount
  <2>3. QED
    BY <1>3, <1>5, <2>1, <2>2 DEF ClaimCommand, Release
<1>6. CASE \E a \in Assignments : Answers(a)
  BY <1>2, <1>6, Frames DEF claimVars
<1>7. CASE OtherCommand \/ UNCHANGED claimVars
  BY <1>2, <1>7, Frames DEF claimVars
<1>8. QED
  BY <1>4, <1>5, <1>6, <1>7, Steps

-----------------------------------------------------------------------------
(* The plan's part: what would undo it overtakes it.                       *)

\* A plan that was not overtaken is the plan there was, and lost no pin.
LEMMA NotOvertaken ==
  ASSUME NEW W, Overtakes(W), plan' # NoPlan
  PROVE  plan' = plan /\ plan # NoPlan /\ Pins(plan) \cap W = {}
BY DEF Overtakes

\* Every plan pins the authority it was judged by, and one to open its unit's claim.
LEMMA PinFacts ==
  ASSUME NEW p \in Plan
  PROVE  /\ Authority \in Pins(p)
         /\ p.op = "open" => \A u \in p.units : <<"claim", u>> \in Pins(p)
<1>1. Authority \in Pins(p)
  BY DEF Pins
<1>2. ASSUME p.op = "open", NEW u \in p.units
      PROVE  <<"claim", u>> \in Pins(p)
  <2>1. <<"claim", u>> \in Work(p.units)
    BY DEF Work, ClaimOf
  <2>2. QED
    BY <1>2, <2>1 DEF Pins
<1>3. QED
  BY <1>1, <1>2

\* A plan stays right while nobody is told anew of its unit, what is past stays
\* as it is, and the answer's person stays active.
LEMMA StaysRight ==
  ASSUME NEW p \in Plan, PlanOK(p),
         p.op = "open" => \A s \in Sessions, u \in p.units : told'[s][u] = told[s][u],
         Past(p.asg) => asg'[p.asg] = asg[p.asg],
         p.op = "resume" => (Owner \in active => Owner \in active')
  PROVE  PlanOK(p)'
BY DEF PlanOK, Past

\* A handout tells of its own unit only.
LEMMA HandOutTells ==
  ASSUME ClaimTypes, NEW u \in Units, NEW w, NEW L \in SUBSET Sessions, HandOut(u, w, L),
         NEW s \in Sessions, NEW v \in Units, v # u
  PROVE  told'[s][v] = told[s][v]
<1>1. CASE UNCHANGED told
  BY <1>1
<1>2. ASSUME NEW x \in L, NEW r, told' = [told EXCEPT ![x][u] = r]
      PROVE  told'[s][v] = told[s][v]
  BY <1>2 DEF ClaimTypes
<1>3. QED
  BY <1>1, <1>2 DEF HandOut, Hears

\* Another inbox command leaves a plan right, or nothing of it.
LEMMA TransactionOvertakes ==
  ASSUME ClaimTypes, InboxTypes, NEW p \in Plan, PlanOK(p), Transaction(p),
         NEW q \in Plan, PlanOK(q), Pins(q) \cap Written(p) = {}
  PROVE  PlanOK(q)'
<1>1. Past(q.asg) => asg'[q.asg] = asg[q.asg]
  BY TransactionMoves, PlanFields
<1>2. active' = active
  BY DEF Transaction, Open, GiveUp, Decline, Cancel, End, Resume, TakeAgain, HandOut, Ask, Dispose,
         Close, Unpark, claimVars
<1>3. CASE Resume(p)
  <2>1. PICK u \in p.units : HandOut(u, p.by, {s \in Sessions : AgentOf[s] = p.by})
    BY <1>3 DEF Resume, TakeAgain
  <2>2. <<"claim", u>> \in Written(p)
    BY <1>3 DEF Resume, Written, Work, ClaimOf
  <2>3. q.op = "open" => u \notin q.units
    BY <2>2, PinFacts
  <2>4. q.op = "open" => \A s \in Sessions, v \in q.units : told'[s][v] = told[s][v]
    BY <2>1, <2>3, HandOutTells, PlanFields
  <2>5. QED
    BY <1>1, <1>2, <2>4, StaysRight
<1>4. CASE ~Resume(p)
  <2>1. told' = told
    BY <1>4 DEF Transaction, Open, GiveUp, Decline, Cancel, End, Ask, Dispose, Close, Unpark, claimVars
  <2>2. QED
    BY <1>1, <1>2, <2>1, StaysRight
<1>5. QED
  BY <1>3, <1>4

\* Between its reads and its transaction a plan stays right, or is overtaken.
LEMMA PlanKept ==
  ASSUME Inv, [Next]_vars
  PROVE  (plan # NoPlan => PlanOK(plan))' /\ plan' \in Plan \cup {NoPlan}
<1>1. ClaimTypes /\ InboxTypes /\ InboxOK /\ WaitingHoldsNothing
  BY DEF Inv, TypeOK, ClaimTypes, InboxTypes
<1>2. plan # NoPlan => plan \in Plan /\ PlanOK(plan)
  BY DEF Inv, TypeOK
<1> SUFFICES ASSUME NEW q, q = plan', q # NoPlan
             PROVE  q \in Plan /\ PlanOK(q)'
  BY DEF PlanOK
<1>3. ASSUME plan = q, UNCHANGED <<told, active>>, Past(q.asg) => asg'[q.asg] = asg[q.asg]
      PROVE  q \in Plan /\ PlanOK(q)'
  BY <1>2, <1>3, StaysRight
<1>4. CASE Prepare
  <2>1. q \in Plans
    BY <1>4 DEF Prepare
  <2>2. q \in Plan /\ PlanOK(q)
    BY <1>1, <2>1, PlansOK
  <2>3. QED
    BY <1>4, <2>2, StaysRight DEF Prepare, claimVars, inboxVars
<1>5. CASE Commit \/ Abandon
  BY <1>5 DEF Commit, Abandon
<1>6. CASE InboxCommand
  <2>1. ASSUME NEW p \in Plans, Transaction(p), Overtakes(Written(p))
        PROVE  q \in Plan /\ PlanOK(q)'
    <3>1. p \in Plan /\ PlanOK(p)
      BY <1>1, <2>1, PlansOK
    <3>2. plan = q /\ Pins(q) \cap Written(p) = {}
      BY <2>1, NotOvertaken
    <3>3. QED
      BY <1>1, <1>2, <2>1, <3>1, <3>2, TransactionOvertakes
  <2>2. ASSUME NEW a \in Assignments, NEW W, Answers(a), Overtakes(W)
        PROVE  q \in Plan /\ PlanOK(q)'
    <3>1. plan = q
      BY <2>2, NotOvertaken
    <3>2. UNCHANGED <<told, active>>
      BY <2>2, Frames DEF claimVars
    <3>3. Past(q.asg) => asg'[q.asg] = asg[q.asg]
      BY <1>1, <1>2, <2>2, <3>1, AnswerMoves, PlanFields DEF Answers
    <3>4. QED
      BY <1>3, <3>1, <3>2, <3>3
  <2>3. QED
    BY <1>6, <2>1, <2>2 DEF InboxCommand, Answers
<1>7. CASE ClaimCommand
  <2>1. ASSUME NEW u \in Units, NEW s \in Sessions, Claim(s, u), Overtakes(Work({u}))
        PROVE  q \in Plan /\ PlanOK(q)'
    <3>1. plan = q /\ Pins(q) \cap Work({u}) = {}
      BY <2>1, NotOvertaken
    <3>2. q.op = "open" => u \notin q.units
      BY <1>2, <3>1, PinFacts DEF Work, ClaimOf
    <3>3. HandOut(u, AgentOf[s], {s})
      BY <2>1 DEF Claim
    <3>4. q.op = "open" => \A x \in Sessions, v \in q.units : told'[x][v] = told[x][v]
      BY <1>1, <1>2, <3>1, <3>2, <3>3, HandOutTells, PlanFields
    <3>5. active' = active
      BY <3>3 DEF HandOut
    <3>6. QED
      BY <1>2, <1>7, <3>1, <3>4, <3>5, StaysRight, Frames
  <2>2. ASSUME NEW u \in Units, NEW s \in Sessions, NEW W,
               Renew(s, u) \/ Release(s, u), Overtakes(W)
        PROVE  q \in Plan /\ PlanOK(q)'
    <3>1. plan = q /\ UNCHANGED <<told, active>>
      BY <2>2, NotOvertaken DEF Renew, Release, GiveUp
    <3>2. QED
      BY <1>3, <1>7, <3>1, Frames
  <2>3. ASSUME NEW u \in Units, Expire(u), UNCHANGED plan
        PROVE  q \in Plan /\ PlanOK(q)'
    BY <1>3, <1>7, <2>3, Frames DEF Expire
  <2>4. QED
    BY <1>7, <2>1, <2>2, <2>3 DEF ClaimCommand
<1>8. CASE OtherCommand
  <2>1. ASSUME NEW p \in Persons, SetMember(p), Overtakes({Authority})
        PROVE  FALSE
    BY <1>2, <2>1, NotOvertaken, PinFacts
  <2>2. ASSUME NEW W, Overtakes(W), UNCHANGED active
        PROVE  q \in Plan /\ PlanOK(q)'
    <3>1. plan = q
      BY <2>2, NotOvertaken
    <3>2. QED
      BY <1>3, <1>8, <2>2, <3>1, Frames
  <2>3. QED
    BY <1>8, <2>1, <2>2 DEF OtherCommand, AppendUnit, DisposeUnit, PrioritizeUnits, CancelItem,
                            SetProject
<1>9. CASE UNCHANGED vars
  BY <1>3, <1>9 DEF vars, claimVars, inboxVars
<1>10. QED
  BY <1>4, <1>5, <1>6, <1>7, <1>8, <1>9 DEF Next

-----------------------------------------------------------------------------
(* The invariant and the safety properties.                                *)

\* Before anybody opened anything nothing waits and no command is on its way.
LEMMA InitInv == Init => Inv
<1> SUFFICES ASSUME Init PROVE Inv
  OBVIOUS
<1>1. NoClaim \in ClaimRecord
  BY DEF NoClaim, ClaimRecord
<1>2. NoAsg \in Assignment
  BY DEF NoAsg, Assignment
<1>3. <<>> \in Seq(QuestionRecord)
  BY EmptySeq
<1>4. TypeOK
  BY <1>1, <1>2, <1>3 DEF Init, ClaimInit, TypeOK, UnitStates
<1>5. \A a \in Assignments : asg[a] = NoAsg /\ question[a] = <<>>
  BY DEF Init
<1>6. WaitingHoldsNothing /\ StoppedWorkIsAsked /\ InboxOK
  BY <1>5 DEF WaitingHoldsNothing, StoppedWorkIsAsked, Stopped, InboxOK, AtMostOne, NoAsg, Ended
<1>7. ClosedItemHasNoOpenUnit
  BY DEF Init, ClaimInit, ClosedItemHasNoOpenUnit
<1>8. GenerationsCount
  BY DEF Init, ClaimInit, NoClaim, GenerationsCount
<1>9. QED
  BY <1>4, <1>6, <1>7, <1>8 DEF Init, Inv

\* Every step keeps the invariant.
LEMMA NextInv == Inv /\ [Next]_vars => Inv'
<1> SUFFICES ASSUME Inv, [Next]_vars PROVE Inv'
  OBVIOUS
<1>1. TypeOK'
  BY TypesKept, PlanKept DEF TypeOK, ClaimTypes, InboxTypes
<1>2. QED
  BY <1>1, WaitingKept, AskedKept, ClosedKept, GenerationsKept, InboxKept, PlanKept DEF Inv

\* The invariant holds of every behaviour of the inbox.
THEOREM InboxInvariant == Spec => []Inv
<1>1. QED
  BY InitInv, NextInv, PTL DEF Spec

\* The records of claims and inbox keep their schemas, and so does a plan.
THEOREM InboxTypeCorrect == Spec => []TypeOK
<1>1. QED
  BY InboxInvariant, PTL DEF Inv

\* A unit that waits for a person is held by nobody and parked where it waits.
THEOREM NothingIsHeldWaiting == Spec => []WaitingHoldsNothing
<1>1. QED
  BY InboxInvariant, PTL DEF Inv

\* Work stopped by a decline or a cancel has been asked about.
THEOREM StoppedIsAsked == Spec => []StoppedWorkIsAsked
<1>1. QED
  BY InboxInvariant, PTL DEF Inv

\* No unit is open in a canceled item.
THEOREM ClosedStaysClosed == Spec => []ClosedItemHasNoOpenUnit
<1>1. QED
  BY InboxInvariant, PTL DEF Inv

-----------------------------------------------------------------------------
(* What a step may do to a claim, a unit and an assignment.                *)

\* How a transaction changes a claim, if it does.
LEMMA TransactionClaim ==
  ASSUME ClaimTypes, NEW p \in Plan, PlanOK(p), Transaction(p), NEW u \in Units,
         claim'[u] # claim[u]
  PROVE  /\ u \in p.units
         /\ \/ Open(p) /\ HolderActs(u, p.by, p.gen, "park") /\ GiveUp(u, p.asg)
            \/ Resume(p) /\ TakeAgain(u, p.by, p.asg)
            \/ Dispose(p) /\ Unpark(u, p.asg)
<1> USE PlanFields
<1>1. CASE Open(p)
  <2>1. PICK v \in p.units : GiveUp(v, p.asg)
    BY <1>1 DEF Open, claimVars
  <2>2. v = u
    BY <2>1 DEF GiveUp, ClaimTypes
  <2>3. QED
    BY <1>1, <2>1, <2>2 DEF Open
<1>2. CASE Decline(p) \/ Cancel(p) \/ Ask(p)
  BY <1>2 DEF Decline, Cancel, End, Ask, claimVars
<1>3. CASE Resume(p)
  <2>1. PICK v \in p.units : TakeAgain(v, p.by, p.asg)
    BY <1>3 DEF Resume
  <2>2. v = u
    BY <2>1 DEF TakeAgain, HandOut, ClaimTypes
  <2>3. QED
    BY <1>3, <2>1, <2>2
<1>4. CASE Dispose(p)
  <2>1. PICK v \in p.units : Unpark(v, p.asg)
    BY <1>4 DEF Dispose, Close, claimVars
  <2>2. v = u
    BY <2>1 DEF Unpark, ClaimTypes
  <2>3. QED
    BY <1>4, <2>1, <2>2
<1>5. QED
  BY <1>1, <1>2, <1>3, <1>4 DEF Transaction

\* How a command of the Receiver changes a claim, if it does.
LEMMA CommandClaim ==
  ASSUME ClaimTypes, ClaimCommand, NEW u \in Units, claim'[u] # claim[u]
  PROVE  Expire(u) \/ \E s \in Sessions : Claim(s, u) \/ Renew(s, u) \/ Release(s, u)
<1>1. PICK v \in Units :
        Expire(v) \/ \E s \in Sessions : Claim(s, v) \/ Renew(s, v) \/ Release(s, v)
  BY DEF ClaimCommand
<1>2. v = u
  BY <1>1 DEF Expire, Claim, HandOut, Renew, Release, GiveUp, ClaimTypes
<1>3. QED
  BY <1>1, <1>2

\* A session that knows the claim's generation was told of its last handout.
LEMMA KnowsTheHolding ==
  ASSUME GenerationsCount, NEW u \in Units, NEW s \in Sessions, told[s][u].gen = claim[u].gen
  PROVE  told[s][u].grant = grants[u]
BY DEF GenerationsCount

\* A held claim changes only by a session of its holder that knows the holding.
LEMMA HoldingStep ==
  ASSUME Inv, [Next]_vars, NEW u \in Units, claim[u].state = "owned",
         claim'[u].state = "released" \/ (~claim[u].fresh /\ claim'[u].fresh)
  PROVE  \E s \in Sessions : AgentOf[s] = claim[u].holder /\ told[s][u].grant = grants[u]
<1>1. ClaimTypes /\ GenerationsCount
  BY DEF Inv, TypeOK, ClaimTypes
<1>2. claim'[u] # claim[u]
  OBVIOUS
<1>3. ASSUME NEW p \in Plan, PlanOK(p), Transaction(p)
      PROVE  \E s \in Sessions : AgentOf[s] = claim[u].holder /\ told[s][u].grant = grants[u]
  <2>1. CASE Open(p)
    <3>1. /\ p.op = "open" /\ u \in p.units
          /\ claim[u].holder = p.by /\ claim[u].gen = p.gen
      BY <1>1, <1>2, <1>3, <2>1, TransactionClaim
         DEF Open, HolderActs, Resume, Dispose
    <3>2. PICK s \in Sessions : AgentOf[s] = p.by /\ told[s][u].gen = p.gen
      BY <1>3, <3>1 DEF PlanOK
    <3>3. QED
      BY <1>1, <3>1, <3>2, KnowsTheHolding
  <2>2. CASE ~Open(p)
    <3>1. Ownership(u, "resume") = "parked" \/ Ownership(u, "unpark") = "parked"
      BY <1>1, <1>2, <1>3, <2>2, TransactionClaim DEF TakeAgain, Unpark
    <3>2. QED
      BY <1>1, <3>1, OwnershipFacts
  <2>3. QED
    BY <2>1, <2>2
<1>4. CASE ClaimCommand
  <2>1. CASE Expire(u)
    <3>1. claim[u] \in ClaimRecord /\ claim' = [claim EXCEPT ![u].fresh = FALSE]
      BY <1>1, <2>1 DEF Expire, ClaimTypes
    <3>2. claim'[u].state = claim[u].state /\ claim'[u].fresh = FALSE
      BY <1>1, <3>1 DEF ClaimTypes, ClaimRecord
    <3>3. QED
      BY <3>2
  <2>2. ASSUME NEW s \in Sessions, Claim(s, u)
        PROVE  FALSE
    BY <1>1, <2>2, OwnershipFacts DEF Claim
  <2>3. ASSUME NEW s \in Sessions, Renew(s, u) \/ Release(s, u)
        PROVE  AgentOf[s] = claim[u].holder /\ told[s][u].grant = grants[u]
    <3>1. AgentOf[s] = claim[u].holder /\ told[s][u].gen = claim[u].gen
      BY <2>3 DEF Renew, Release, HolderActs
    <3>2. QED
      BY <1>1, <3>1, KnowsTheHolding
  <2>4. QED
    BY <1>1, <1>2, <1>4, <2>1, <2>2, <2>3, CommandClaim
<1>5. CASE UNCHANGED claim
  BY <1>2, <1>5
<1>6. QED
  BY <1>3, <1>4, <1>5, Steps, Frames DEF claimVars

\* No former holding gives a claim up or keeps it alive.
THEOREM HoldingActs == Spec => OnlyTheHoldingActs
<1>1. Inv /\ [Next]_vars =>
        [\A u \in Units :
           /\ claim[u].state = "owned"
           /\ claim'[u].state = "released" \/ (~claim[u].fresh /\ claim'[u].fresh)
           => \E s \in Sessions : AgentOf[s] = claim[u].holder /\ told[s][u].grant = grants[u]]_vars
  BY HoldingStep
<1>2. QED
  BY <1>1, InboxInvariant, PTL DEF Spec, OnlyTheHoldingActs

\* A parked unit is taken only by a resume that still admits.
LEMMA ResumeStep ==
  ASSUME Inv, [Next]_vars, NEW u \in Units, NEW a \in Assignments, ParkedOn(u, a),
         claim'[u].state = "owned"
  PROVE  Admits(asg[a].state, Owner) /\ ProjectTakesWork
<1>1. ClaimTypes
  BY DEF Inv, TypeOK, ClaimTypes
<1>2. claim'[u] # claim[u]
  BY DEF ParkedOn
<1>3. ASSUME NEW p \in Plan, PlanOK(p), Transaction(p)
      PROVE  Admits(asg[a].state, Owner) /\ ProjectTakesWork
  <2>1. ~GiveUp(u, p.asg) /\ ~Unpark(u, p.asg)
    <3>1. claim[u] \in ClaimRecord
      BY <1>1 DEF ClaimTypes
    <3>2. QED
      BY <1>1, <3>1 DEF GiveUp, Unpark, ParkedOn, ClaimTypes, ClaimRecord
  <2>2. Resume(p) /\ TakeAgain(u, p.by, p.asg)
    BY <1>1, <1>2, <1>3, <2>1, TransactionClaim
  <2>3. p.asg = a /\ ProjectTakesWork
    BY <2>2 DEF TakeAgain, HandOut, ParkedOn
  <2>4. asg[a].state = "SUBMITTED" /\ Owner \in active
    BY <1>3, <2>2, <2>3 DEF Resume, PlanOK
  <2>5. QED
    BY <2>3, <2>4 DEF Admits
<1>4. CASE ClaimCommand
  <2>1. ParkedOn(u, a)'
    BY <1>1, <1>4, ClaimCommandParks
  <2>2. QED
    BY <2>1 DEF ParkedOn
<1>5. CASE UNCHANGED claim
  BY <1>2, <1>5
<1>6. QED
  BY <1>3, <1>4, <1>5, Steps, Frames DEF claimVars

\* Work resumes only by an answer that admits, in a project that takes work.
THEOREM ResumeAdmits == Spec => ResumedOnlyAdmitted
<1>1. Inv /\ [Next]_vars =>
        [\A u \in Units, a \in Assignments :
           ParkedOn(u, a) /\ claim'[u].state = "owned" => Admits(asg[a].state, Owner) /\ ProjectTakesWork]_vars
  BY ResumeStep
<1>2. QED
  BY <1>1, InboxInvariant, PTL DEF Spec, ResumedOnlyAdmitted

\* Opening reads the requester's claims again, and gives up all there are.
LEMMA OpeningStep ==
  ASSUME Inv, [Next]_vars, NEW a \in Assignments,
         asg[a].state = "absent", asg'[a].state = "OFFERED"
  PROVE  \A w \in Agents : asg'[a].by = w => Held(w)' = {}
<1>1. ClaimTypes /\ InboxTypes
  BY DEF Inv, TypeOK, ClaimTypes, InboxTypes
<1>2. ASSUME NEW p \in Plan, PlanOK(p), Transaction(p)
      PROVE  \A w \in Agents : asg'[a].by = w => Held(w)' = {}
  <2>1. Open(p) /\ a = p.asg
    BY <1>1, <1>2, TransactionMoves DEF Decline, Cancel, End
  <2>2. asg'[a].by = p.by
    BY <1>1, <2>1, PlanFields DEF Open, InboxTypes
  <2>3. ASSUME NEW u \in Units, claim'[u].state = "owned", claim'[u].holder = p.by
        PROVE  FALSE
    <3>1. CASE u \in p.units
      <4>1. ParkedOn(u, p.asg)'
        <5>1. InboxOK
          BY DEF Inv
        <5>2. QED
          BY <1>1, <1>2, <2>1, <3>1, <5>1, TransactionParks
      <4>2. QED
        BY <2>3, <4>1 DEF ParkedOn
    <3>2. CASE u \notin p.units
      <4>1. claim'[u] = claim[u]
        BY <1>1, <1>2, <3>2, TransactionClaim
      <4>2. u \in Held(p.by)
        BY <2>3, <4>1 DEF Held
      <4>3. QED
        BY <2>1, <3>2, <4>2 DEF Open, HeldAsRead
    <3>3. QED
      BY <3>1, <3>2
  <2>4. QED
    BY <2>2, <2>3 DEF Held
<1>3. ASSUME NEW b \in Assignments, Answers(b)
      PROVE  FALSE
  BY <1>1, <1>3, AnswerMoves DEF Answers
<1>4. CASE UNCHANGED asg
  BY <1>4
<1>5. QED
  BY <1>2, <1>3, <1>4, Steps, Frames DEF inboxVars

\* An agent that waits for a person holds nothing.
THEOREM OpeningStops == Spec => OpeningStopsItsRequester
<1>1. Inv /\ [Next]_vars =>
        [\A a \in Assignments :
           asg[a].state = "absent" /\ asg'[a].state = "OFFERED"
           => \A w \in Agents : asg'[a].by = w => Held(w)' = {}]_vars
  BY OpeningStep
<1>2. QED
  BY <1>1, InboxInvariant, PTL DEF Spec, OpeningStopsItsRequester

\* Only dispose applies a disposition.
LEMMA OnlyDisposeApplies ==
  ASSUME Inv, [Next]_vars, NEW a \in Assignments, NEW r \in 1..Len(question[a]),
         ~question[a][r].applied, question'[a][r].applied
  PROVE  \E p \in Plan : PlanOK(p) /\ Dispose(p) /\ a = p.asg
<1>1. InboxTypes
  BY DEF Inv, TypeOK, InboxTypes
<1>2. ASSUME NEW p \in Plan, PlanOK(p), Transaction(p)
      PROVE  Dispose(p) /\ a = p.asg
  <2>1. a = p.asg
    BY <1>1, <1>2, TransactionMoves
  <2>2. CASE Open(p) \/ Resume(p)
    BY <2>2 DEF Open, Resume, inboxVars
  <2>3. CASE Decline(p) \/ Cancel(p) \/ Ask(p)
    <3>1. OpensQuestion(p)
      BY <2>3 DEF Decline, Cancel, End, Ask
    <3>2. question'[a][r] = question[a][r]
      BY <1>1, <3>1, QuestionOpened
    <3>3. QED
      BY <3>2
  <2>4. QED
    BY <1>2, <2>1, <2>2, <2>3 DEF Transaction
<1>3. ASSUME NEW b \in Assignments, Answers(b)
      PROVE  FALSE
  <2>1. CASE UNCHANGED question
    BY <2>1
  <2>2. ASSUME NEW ruling \in Rulings, AnswerQuestion(b, ruling)
        PROVE  FALSE
    <3> DEFINE q == question[b]
               n == Len(q)
               e == [q[n] EXCEPT !.state = "SUBMITTED", !.ruling = ruling]
    <3>1. q \in Seq(QuestionRecord) /\ q # <<>>
      BY <1>1, <2>2 DEF InboxTypes, AnswerQuestion
    <3>2. n \in 1..n /\ q[n] \in QuestionRecord /\ DOMAIN q = 1..n
      BY <3>1, LastFacts, LenProperties
    <3>3. e.applied = q[n].applied
      BY <3>2 DEF QuestionRecord
    <3>4. question' = [question EXCEPT ![b] = [q EXCEPT ![n] = e]]
      BY <2>2 DEF AnswerQuestion
    <3> HIDE DEF e
    <3>5. a = b
      BY <1>1, <3>4 DEF InboxTypes
    <3>6. question'[b] = [q EXCEPT ![n] = e]
      BY <1>1, <3>4 DEF InboxTypes
    <3>7. r \in DOMAIN q
      BY <3>2, <3>5
    <3>8. CASE r = n
      BY <3>3, <3>5, <3>6, <3>7, <3>8
    <3>9. CASE r # n
      BY <3>5, <3>6, <3>7, <3>9
    <3>10. QED
      BY <3>8, <3>9
  <2>3. QED
    BY <1>3, <2>1, <2>2 DEF Answers, Answer, Revise, inboxVars
<1>4. CASE UNCHANGED question
  BY <1>4
<1>5. QED
  BY <1>2, <1>3, <1>4, Steps, Frames DEF inboxVars

\* Applying a disposition changes the unit asked about, which is parked.
LEMMA DispositionStep ==
  ASSUME Inv, [Next]_vars, NEW a \in Assignments, NEW r \in 1..Len(question[a]),
         ~question[a][r].applied, question'[a][r].applied,
         NEW u \in Units, unit'[u] # unit[u] \/ claim'[u] # claim[u]
  PROVE  u \in asg[a].unit /\ claim[u].state = "released"
<1>1. ClaimTypes /\ InboxOK
  BY DEF Inv, TypeOK, ClaimTypes
<1>2. PICK p \in Plan : PlanOK(p) /\ Dispose(p) /\ a = p.asg
  BY OnlyDisposeApplies
<1>3. p.units = asg[a].unit /\ Stopped(a)
  BY <1>2 DEF PlanOK, Dispose, AwaitsDisposition
<1>4. PICK v \in p.units : Close(p, v) \/ Unpark(v, p.asg) \/ UNCHANGED claimVars
  BY <1>2 DEF Dispose
<1>5. u = v
  BY <1>1, <1>4 DEF Close, Unpark, claimVars, ClaimTypes
<1>6. PICK x \in asg[a].unit : ParkedOn(x, a)
  BY <1>3 DEF Stopped
<1>7. x = u
  BY <1>1, <1>3, <1>4, <1>5, <1>6 DEF InboxOK, AtMostOne
<1>8. QED
  BY <1>6, <1>7 DEF ParkedOn

\* A person's ruling on stopped work never reaches work in progress.
THEOREM DispositionsTouchNothingLive == Spec => DispositionsTouchNoLiveWork
<1>1. Inv /\ [Next]_vars =>
        [\A a \in Assignments : \A r \in 1..Len(question[a]) :
           ~question[a][r].applied /\ question'[a][r].applied
           => \A u \in Units : unit'[u] # unit[u] \/ claim'[u] # claim[u]
                => u \in asg[a].unit /\ claim[u].state = "released"]_vars
  BY DispositionStep
<1>2. QED
  BY <1>1, InboxInvariant, PTL DEF Spec, DispositionsTouchNoLiveWork

=============================================================================
