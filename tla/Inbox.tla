-------------------------------- MODULE Inbox --------------------------------
(***************************************************************************)
(* The assignment inbox (.veldo/control_assignment.py) over the claims it  *)
(* parks and resumes.  An agent that needs a person opens an assignment    *)
(* and gives up its claim in the same transaction; the unit resumes only   *)
(* by an answer that still admits.  When the assignment ends otherwise, a  *)
(* person is asked what becomes of the unit, and that answer is applied by *)
(* a command of its own: close, back to the backlog, or something else.    *)
(*                                                                         *)
(* A command of the inbox decides on what it reads, and then executes with *)
(* the versions of what it read; other commands commit in between.  plan   *)
(* is one such command on its way, gone once any entity it pinned was      *)
(* written: stale, refused or killed, it leaves nothing behind.            *)
(*                                                                         *)
(* Abstracted: signatures and keys, content and deadlines, scopes; the     *)
(* intake that takes an `other` instruction (external, idempotent).  Left  *)
(* out: the end of a request that blocks no unit, as nothing follows from  *)
(* it, and requests answered by a settlement.  Nothing produces EXPIRED.   *)
(***************************************************************************)
EXTENDS ControlClaim, Sequences

CONSTANTS
  NoPerson,
  Owner,         \* the person assignments are opened for
  ProjectOwners, \* persons with the role project_owner
  NoPlan,
  MaxRounds      \* bound: questions that ask adds to

ASSUME InboxAssumption ==
  /\ NoPerson \notin Persons
  /\ Owner \in Persons
  /\ Lead \in ProjectOwners /\ ProjectOwners \subseteq Persons
  /\ Persons \cap Agents = {}
  /\ MaxRounds \in Nat

VARIABLES
  asg,       \* the assignments
  question,  \* the disposition questions about each, oldest first
  plan       \* a command between its reads and its transaction

inboxVars == <<asg, question>>
vars == <<claimVars, inboxVars, plan>>

Ended == {"DECLINED", "CANCELED"}

\* unasked: the end was accepted and its question refused (no_project_owner).
NoAsg == [state |-> "absent", by |-> NoAgent, unit |-> {}, unasked |-> FALSE]

Init ==
  /\ ClaimInit
  /\ asg = [a \in Assignments |-> NoAsg]
  /\ question = [a \in Assignments |-> <<>>]
  /\ plan = NoPlan

-----------------------------------------------------------------------------
(* What the inbox reads.                                                   *)

\* Pending, with work behind it.
Waiting(a) == asg[a].state = "OFFERED" /\ asg[a].unit # {}

\* The unit is parked on the assignment that names it.
Stopped(a) == \E u \in asg[a].unit : ParkedOn(u, a)

\* An answer admits while the person who gave it is an active member.
Admits(state, person) == state = "SUBMITTED" /\ person \in active

Latest(a) == question[a][Len(question[a])]

\* _project_owner: exactly one, or nobody.
ResolvedOwner ==
  LET found == ProjectOwners \cap active
  IN  IF \E p \in found : found = {p} THEN CHOOSE p \in found : found = {p} ELSE NoPerson

\* _addressee of the next question about a, ended so by a principal.
Addressee(a, ended, by) ==
  IF question[a] # <<>> /\ Latest(a).as # "project_owner"
  THEN [to |-> Latest(a).owner, as |-> Latest(a).as]
  ELSE IF ended = "DECLINED" THEN [to |-> by, as |-> "decliner"]
  ELSE IF ended = "CANCELED" /\ by \in Persons THEN [to |-> by, as |-> "canceler"]
  ELSE [to |-> ResolvedOwner, as |-> "project_owner"]

\* _disposition_state of a parked unit whose assignment ended so.
DispositionState(a, ended) ==
  IF question[a] = <<>> THEN ended
  ELSE IF Latest(a).state = "OFFERED" THEN "awaiting_disposition"
  ELSE IF Latest(a).applied
       THEN IF Latest(a).ruling = "other" THEN "routed_to_intake" ELSE "none"
  ELSE IF Admits(Latest(a).state, Latest(a).owner) THEN "ready_to_dispose"
  ELSE "awaiting_disposition"

\* parked_units: why the unit of a stopped assignment is still parked.
ParkedReason(a) ==
  CASE asg[a].state = "OFFERED"       -> "awaiting_answer"
    [] Admits(asg[a].state, Owner)    -> "ready_to_resume"
    [] asg[a].state = "SUBMITTED"     -> DispositionState(a, "answer_not_admitted")
    [] OTHER                          -> DispositionState(a, asg[a].state)

Askable == {"answer_not_admitted", "expired", "routed_to_intake"}

-----------------------------------------------------------------------------
(* Plans: a command, with what was read for it.                            *)

Ops == {"open", "decline", "cancel", "resume", "ask", "dispose"}
Addressees == {"nobody", "decliner", "canceler", "project_owner"}
Rulings == {"close", "backlog", "other"}

Plan == [op : Ops, asg : Assignments, by : Agents \cup Persons \cup {NoAgent},
         units : SUBSET Units, gen : Nat, to : Persons \cup {NoPerson}, as : Addressees, round : Nat,
         ruling : Rulings \cup {"none"}, siblings : SUBSET Units]

Draft(op, a, by, units) ==
  [op |-> op, asg |-> a, by |-> by, units |-> units, gen |-> 0, to |-> NoPerson,
   as |-> "nobody", round |-> 0, ruling |-> "none", siblings |-> {}]

\* The generation a session names for the unit its agent holds.
GenerationOf(s, units) == IF units = {} THEN 0 ELSE told[s][CHOOSE u \in units : TRUE].gen

OpenPlan(s, a) ==
  LET units == Held(AgentOf[s])
  IN  [Draft("open", a, AgentOf[s], units) EXCEPT !.gen = GenerationOf(s, units)]

\* open: for an active owner, by an agent that holds one unit at most.
OpenPlans ==
  {OpenPlan(x[1], x[2]) :
     x \in {y \in Sessions \X Assignments :
              /\ asg[y[2]].state = "absent"
              /\ Owner \in active
              /\ \A u, v \in Held(AgentOf[y[1]]) : u = v}}

\* The question of the next round, put in a plan.
WithQuestion(p, who) ==
  [p EXCEPT !.to = who.to, !.as = who.as, !.round = Len(question[p.asg]) + 1]

\* decline and cancel: with a question if the unit is parked on the assignment.
EndPlan(op, ended, a, by) ==
  LET p == Draft(op, a, by, asg[a].unit)
  IN  IF Stopped(a) THEN WithQuestion(p, Addressee(a, ended, by)) ELSE p

\* (One that is not pending any more is refused by the transaction.)
DeclinePlans ==
  {EndPlan("decline", "DECLINED", a, Owner) :
     a \in {b \in Assignments : Waiting(b) /\ Owner \in active}}

CancelPlans ==
  {EndPlan("cancel", "CANCELED", x[1], x[2]) :
     x \in {y \in Assignments \X (Agents \cup Persons) :
              /\ Waiting(y[1])
              /\ y[2] = asg[y[1]].by \/ y[2] \in ProjectOwners \cap active}}

\* resume: while the answer admits and the project takes work.
ResumePlans ==
  {Draft("resume", x[1], x[2], asg[x[1]].unit) :
     x \in {y \in Assignments \X Agents :
              /\ Admits(asg[y[1]].state, Owner)
              /\ ProjectTakesWork}}

\* ask, by any member (by is not used): for work nothing opened a question about.  (A person who
\* canceled is found in the earlier question.)
AskPlans ==
  {WithQuestion(Draft("ask", a, NoAgent, asg[a].unit), Addressee(a, asg[a].state, NoAgent)) :
     a \in {b \in Assignments :
              /\ Stopped(b)
              /\ ParkedReason(b) \in Askable
              /\ Addressee(b, asg[b].state, NoAgent).to \in active}}

\* Mutant: units that are not prioritized yet are not siblings.
SiblingsInHand(u) == {v \in Units \ {u} : unit[v] \in {"READY", "CLAIMED"}}

Siblings(u) == OpenUnits \ {u}

\* Mutant: a unit that was asked about is taken to be still stopped.
AwaitsDispositionOnce(a) == question[a] # <<>>

\* The unit is still parked on the assignment its question is about.
AwaitsDisposition(a) == question[a] # <<>> /\ Stopped(a)

DisposePlan(a) ==
  [Draft("dispose", a, NoAgent, asg[a].unit) EXCEPT
     !.round = Len(question[a]),
     !.ruling = Latest(a).ruling,
     !.siblings = UNION {IF Latest(a).ruling = "close" THEN Siblings(u) ELSE {} : u \in asg[a].unit}]

\* dispose, by any member: while the question's answer admits.
DisposePlans ==
  {DisposePlan(a) :
     a \in {b \in Assignments :
              /\ AwaitsDisposition(b)
              /\ Admits(Latest(b).state, Latest(b).owner)
              /\ ~Latest(b).applied
              /\ Latest(b).ruling = "backlog" => ProjectTakesWork}}

Plans == OpenPlans \cup DeclinePlans \cup CancelPlans \cup ResumePlans \cup AskPlans \cup DisposePlans

-----------------------------------------------------------------------------
(* Entities pinned and written.                                            *)

ClaimOf(U) == {<<"claim", u>> : u \in U}
UnitOf(U) == {<<"unit", u>> : u \in U}
Work(U) == ClaimOf(U) \cup UnitOf(U) \cup {<<"item">>}
Asg(a) == <<"assignment", a>>
Question(a, r) == <<"question", a, r>>
Record(a, r) == <<"disposition", a, r>>

\* Every membership and key a command was judged by moves this entity.
Authority == <<"authority">>
Project == <<"project">>

\* Mutant: admission is not pinned.
PinsWithoutAuthority(p) == {Asg(p.asg)} \cup Work(p.units)

Pins(p) ==
  {Asg(p.asg), Authority}
    \cup (CASE p.units = {} -> {}
            [] p.op \in {"decline", "cancel"} /\ p.round = 0 -> ClaimOf(p.units)
            [] OTHER -> Work(p.units))
    \cup (IF p.op = "resume" \/ p.as = "project_owner" \/ p.ruling \in {"backlog", "other"}
             THEN {Project} ELSE {})
    \cup (IF p.round > 0 THEN {Question(p.asg, p.round), Record(p.asg, p.round)} ELSE {})
    \cup (IF p.op # "dispose" /\ p.round > 1
          THEN {Question(p.asg, p.round - 1), Record(p.asg, p.round - 1)} ELSE {})
    \cup UnitOf(p.siblings)

Written(p) ==
  CASE p.op = "open" -> {Asg(p.asg)} \cup ClaimOf(p.units)
    [] p.op \in {"decline", "cancel"} -> {Asg(p.asg), Question(p.asg, p.round)}
    [] p.op = "resume" -> Work(p.units)
    [] p.op = "ask" -> {Question(p.asg, p.round)}
    [] OTHER -> {Record(p.asg, p.round)}
                  \cup (IF p.ruling = "close" THEN UnitOf(p.units) ELSE {})
                  \cup (IF p.ruling = "close" /\ p.siblings = {} THEN {<<"item">>} ELSE {})
                  \cup (IF p.ruling = "backlog" THEN ClaimOf(p.units) ELSE {})

\* A commit that writes what a plan pinned leaves it nothing but to be refused.
Overtakes(written) ==
  plan' = IF plan # NoPlan /\ Pins(plan) \cap written # {} THEN NoPlan ELSE plan

-----------------------------------------------------------------------------
(* The transactions.                                                       *)

\* Mutant: the requester's claims are not read again.
HeldAsReadAssumed(p) == TRUE

HeldAsRead(p) == Held(p.by) = p.units

Open(p) ==
  /\ p.op = "open"
  /\ asg[p.asg].state = "absent"
  /\ HeldAsRead(p)
  /\ \A u \in p.units : HolderActs(u, p.by, p.gen, "park")
  /\ IF p.units = {} THEN UNCHANGED claimVars ELSE \E u \in p.units : GiveUp(u, p.asg)
  /\ asg' = [asg EXCEPT ![p.asg] = [state |-> "OFFERED", by |-> p.by, unit |-> p.units, unasked |-> FALSE]]
  /\ UNCHANGED question

NewQuestion(p) ==
  [owner |-> p.to, as |-> p.as, state |-> "OFFERED", ruling |-> "none", applied |-> FALSE]

\* Mutant: the end commits and its question is left to a later command.
OpensQuestionLater(p) == UNCHANGED question

\* _question_changes, in the transaction that ends the assignment or asks again.
OpensQuestion(p) ==
  IF p.to = NoPerson THEN UNCHANGED question
  ELSE /\ Len(question[p.asg]) < p.round
       /\ Stopped(p.asg)
       /\ question' = [question EXCEPT ![p.asg] = Append(@, NewQuestion(p))]

End(p, ended) ==
  /\ asg[p.asg].state = "OFFERED"
  /\ asg' = [asg EXCEPT ![p.asg].state = ended, ![p.asg].unasked = (p.round > 0 /\ p.to = NoPerson)]
  /\ OpensQuestion(p)
  /\ UNCHANGED claimVars

Decline(p) == p.op = "decline" /\ End(p, "DECLINED")
Cancel(p) == p.op = "cancel" /\ End(p, "CANCELED")

Resume(p) ==
  /\ p.op = "resume"
  /\ asg[p.asg].state = "SUBMITTED"
  /\ \E u \in p.units : TakeAgain(u, p.by, p.asg)
  /\ UNCHANGED inboxVars

\* (The second conjunct is the bound.)
Ask(p) ==
  /\ p.op = "ask"
  /\ \A a \in Assignments : Len(question[a]) + p.round <= MaxRounds + 1
  /\ OpensQuestion(p)
  /\ UNCHANGED <<claimVars, asg>>

\* close: the unit, and its item unless other units of it are open.
Close(p, u) ==
  /\ Siblings(u) = p.siblings
  /\ unit[u] # "CANCELED"
  /\ unit' = [unit EXCEPT ![u] = "CANCELED"]
  /\ IF p.siblings = {} THEN item # "CANCELED" /\ item' = "CANCELED" ELSE UNCHANGED item
  /\ UNCHANGED <<claim, project, active, told, grants>>

Dispose(p) ==
  /\ p.op = "dispose"
  /\ ~question[p.asg][p.round].applied
  /\ AwaitsDisposition(p.asg)
  /\ question' = [question EXCEPT ![p.asg][p.round].applied = TRUE]
  /\ \E u \in p.units :
       \/ p.ruling = "close" /\ Close(p, u)
       \/ p.ruling = "backlog" /\ Unpark(u, p.asg)
       \/ p.ruling = "other" /\ UNCHANGED claimVars
  /\ UNCHANGED asg

Transaction(p) == Open(p) \/ Decline(p) \/ Cancel(p) \/ Resume(p) \/ Ask(p) \/ Dispose(p)

\* answer: one owner, one transaction that decides everything again.
Answer(a) ==
  /\ Waiting(a)
  /\ Owner \in active
  /\ asg' = [asg EXCEPT ![a].state = "SUBMITTED"]
  /\ UNCHANGED <<claimVars, question>>

AnswerQuestion(a, ruling) ==
  /\ question[a] # <<>>
  /\ Latest(a).state = "OFFERED"
  /\ Latest(a).owner \in active
  /\ question' = [question EXCEPT ![a][Len(question[a])] =
                    [@ EXCEPT !.state = "SUBMITTED", !.ruling = ruling]]
  /\ UNCHANGED <<claimVars, asg>>

\* revise, by the requester or a project owner: new content, the same states.
Revise(a) ==
  /\ Waiting(a)
  /\ UNCHANGED <<claimVars, inboxVars>>

-----------------------------------------------------------------------------
(* The system.                                                             *)

Prepare ==
  /\ plan = NoPlan
  /\ \E p \in Plans : plan' = p
  /\ UNCHANGED <<claimVars, inboxVars>>

Commit ==
  /\ plan # NoPlan
  /\ Transaction(plan)
  /\ plan' = NoPlan

\* Refused by its transaction, or killed.
Abandon ==
  /\ plan # NoPlan
  /\ plan' = NoPlan
  /\ UNCHANGED <<claimVars, inboxVars>>

\* Another process's command, of which nothing comes between reads and commit.
InboxCommand ==
  \/ \E p \in Plans : Transaction(p) /\ Overtakes(Written(p))
  \/ \E a \in Assignments :
       \/ Answer(a) /\ Overtakes({Asg(a)})
       \/ Revise(a) /\ Overtakes({Asg(a)})
       \/ \E ruling \in Rulings :
            AnswerQuestion(a, ruling) /\ Overtakes({Question(a, Len(question[a]))})

ClaimCommand ==
  /\ \E u \in Units :
       \/ \E s \in Sessions :
            \/ Claim(s, u) /\ Overtakes(Work({u}))
            \/ Renew(s, u) /\ Overtakes(ClaimOf({u}))
            \/ Release(s, u) /\ Overtakes(ClaimOf({u}))
       \/ Expire(u) /\ UNCHANGED plan
  /\ UNCHANGED inboxVars

OtherCommand ==
  /\ \/ \E u \in Units : (AppendUnit(u) \/ DisposeUnit(u)) /\ Overtakes({<<"unit", u>>, <<"item">>})
     \/ PrioritizeUnits /\ Overtakes(UnitOf(Planned) \cup {<<"item">>})
     \/ CancelItem /\ Overtakes(UnitOf(OpenUnits) \cup {<<"item">>})
     \/ \E state \in {"ACTIVE", "PAUSED"} : SetProject(state) /\ Overtakes({Project})
     \/ \E p \in Persons : SetMember(p) /\ Overtakes({Authority})
  /\ UNCHANGED inboxVars

Next == Prepare \/ Commit \/ Abandon \/ InboxCommand \/ ClaimCommand \/ OtherCommand

Spec == Init /\ [][Next]_vars

-----------------------------------------------------------------------------
(* Correctness.                                                            *)

Assignment ==
  [state : {"absent", "OFFERED", "SUBMITTED"} \cup Ended, by : Agents \cup {NoAgent},
   unit : SUBSET Units, unasked : BOOLEAN]
QuestionRecord ==
  [owner : Persons, as : Addressees, state : {"OFFERED", "SUBMITTED"},
   ruling : Rulings \cup {"none"}, applied : BOOLEAN]

\* The entities keep their schemas, and only an answered question is applied.
TypeOK ==
  /\ claim \in [Units -> ClaimRecord]
  /\ unit \in [Units -> UnitStates]
  /\ item \in {"PRIORITIZED", "ACTIVE", "CANCELED"}
  /\ project \in {"ACTIVE", "PAUSED"}
  /\ active \subseteq Persons
  /\ told \in [Sessions -> [Units -> [gen : Nat, grant : Nat]]]
  /\ grants \in [Units -> Nat]
  /\ asg \in [Assignments -> Assignment]
  /\ question \in [Assignments -> Seq(QuestionRecord)]
  /\ plan \in Plan \cup {NoPlan}

\* While a person has a unit's assignment before him, nobody holds the unit and
\* it stays parked on that assignment ("waiting holds nothing").
WaitingHoldsNothing ==
  \A a \in Assignments : asg[a].state = "OFFERED" => \A u \in asg[a].unit : ParkedOn(u, a)

\* A unit still parked on a declined or canceled assignment has been asked about,
\* unless no single project owner could be found when the assignment ended.
StoppedWorkIsAsked ==
  \A a \in Assignments :
    asg[a].state \in Ended /\ Stopped(a) => question[a] # <<>> \/ asg[a].unasked

\* A canceled backlog item leaves no unit of it open: closing the last unit and
\* appending another cannot both commit.
ClosedItemHasNoOpenUnit == item = "CANCELED" => OpenUnits = {}

\* A claim is given up or refreshed only by a session that was told the
\* generation of the present holding, never by one of a former holding.
OnlyTheHoldingActs ==
  [][\A u \in Units :
       /\ claim[u].state = "owned"
       /\ claim'[u].state = "released" \/ (~claim[u].fresh /\ claim'[u].fresh)
       => \E s \in Sessions : AgentOf[s] = claim[u].holder /\ told[s][u].grant = grants[u]]_vars

\* A parked unit is taken again only for the assignment it waited for, answered
\* by a person who is active at that moment, in a project that takes work.
ResumedOnlyAdmitted ==
  [][\A u \in Units, a \in Assignments :
       ParkedOn(u, a) /\ claim'[u].state = "owned" => Admits(asg[a].state, Owner) /\ ProjectTakesWork]_vars

\* At the commit that opens an assignment its requester holds nothing any more,
\* although its claims were read before.
OpeningStopsItsRequester ==
  [][\A a \in Assignments :
       asg[a].state = "absent" /\ asg'[a].state = "OFFERED"
       => \A w \in Agents : asg'[a].by = w => Held(w)' = {}]_vars

\* Applying a disposition touches neither a unit that somebody holds nor any
\* unit but the one that was asked about.
DispositionsTouchNoLiveWork ==
  [][\A a \in Assignments : \A r \in 1..Len(question[a]) :
       ~question[a][r].applied /\ question'[a][r].applied
       => \A u \in Units : unit'[u] # unit[u] \/ claim'[u] # claim[u]
            => u \in asg[a].unit /\ claim[u].state = "released"]_vars

\* "Never parked for good: Veldo asks what becomes of it": once a single project
\* owner can be resolved, ended work that is still parked has its question or can get one.
NeverParkedForGood ==
  \A a \in Assignments :
    asg[a].state \in Ended /\ Stopped(a) /\ ResolvedOwner # NoPerson
    => question[a] # <<>> \/ ParkedReason(a) \in Askable
=============================================================================
