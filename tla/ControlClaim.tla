---------------------------- MODULE ControlClaim ----------------------------
(***************************************************************************)
(* The authority's claims (.veldo/control_claim.py): who holds a unit of a *)
(* backlog item, decided by one organ inside the store transaction of each *)
(* command.  A claim has a holder, a generation that every handout raises  *)
(* and a heartbeat; a released one may be parked on the assignment its     *)
(* unit waits for.  Nothing stale or uncertain is ever taken over.         *)
(*                                                                         *)
(* Agents run in sessions.  A session proves a holding by the generation   *)
(* it was told, and a reply may be lost or come late: a session whose      *)
(* agent has since given the unit up may still send commands.              *)
(*                                                                         *)
(* A command is one step here: the store executes it against current       *)
(* versions or refuses it (module AtomicStore), and a Receiver that was    *)
(* refused because its reads moved reads again.  Abstracted: eligibility   *)
(* and capabilities, the unit's states between CLAIMED and its end, and    *)
(* blocked items.                                                          *)
(* Not here: what parks and resumes, which is module Inbox.                *)
(***************************************************************************)
EXTENDS Integers, FiniteSets

CONSTANTS
  Agents, NoAgent,
  Sessions,      \* processes of agents
  AgentOf,       \* the agent each session signs as
  Units,         \* execution units of one backlog item
  Founding,      \* the units of its first decomposition
  Assignments,   \* what a unit may be parked on
  NoAssignment,
  Persons,       \* person members
  Lead,          \* the owner the project's record names
  MaxGrants      \* bound: handouts

ASSUME ClaimAssumption ==
  /\ NoAgent \notin Agents
  /\ AgentOf \in [Sessions -> Agents]
  /\ Founding \subseteq Units
  /\ NoAssignment \notin Assignments
  /\ Lead \in Persons
  /\ MaxGrants \in Nat

VARIABLES
  claim,    \* the claim record of each unit
  unit,     \* the lifecycle state of each unit
  item,     \* that of the backlog item
  project,  \* that of the project
  active,   \* persons whose membership is active
  told,     \* the generation each session was told last, and of which handout
  grants    \* history: how often each unit was handed out

claimVars == <<claim, unit, item, project, active, told, grants>>

UnitStates == {"absent", "PLANNED", "READY", "CLAIMED", "CANCELED"}
ClaimRecord == [state : {"none", "owned", "released"}, holder : Agents \cup {NoAgent},
                gen : Nat, fresh : BOOLEAN, parked : Assignments \cup {NoAssignment}]
NoClaim == [state |-> "none", holder |-> NoAgent, gen |-> 0, fresh |-> FALSE,
            parked |-> NoAssignment]

ClaimInit ==
  /\ claim = [u \in Units |-> NoClaim]
  /\ unit = [u \in Units |-> IF u \in Founding THEN "READY" ELSE "absent"]
  /\ item = "PRIORITIZED"
  /\ project = "ACTIVE"
  /\ active = Persons
  /\ told = [s \in Sessions |-> [u \in Units |-> [gen |-> 0, grant |-> 0]]]
  /\ grants = [u \in Units |-> 0]

-----------------------------------------------------------------------------
(* The organ.                                                              *)

\* ownership: the one answer about a claim, for reads and for operations.
Ownership(u, op) ==
  CASE claim[u].state = "none" ->
         IF unit[u] = "CLAIMED" THEN "ownership_uncertain" ELSE "unowned"
    [] claim[u].state = "released" ->
         IF claim[u].parked # NoAssignment THEN "parked" ELSE "unowned"
    [] OTHER ->
         IF /\ unit[u] = "CLAIMED"
            /\ item = "ACTIVE"
            /\ claim[u].fresh \/ op \in {"renew", "release"}
         THEN "owned" ELSE "ownership_uncertain"

\* The units an agent holds, whether or not its heartbeats are late.
Held(w) == {u \in Units : claim[u].state = "owned" /\ claim[u].holder = w}

ParkedOn(u, a) == claim[u].state = "released" /\ claim[u].parked = a

\* The Gate's project check of every handout.
ProjectTakesWork == project = "ACTIVE" /\ Lead \in active

Executable == item \in {"PRIORITIZED", "ACTIVE"}

\* The unit and its item take a holder.
Claimable(u) ==
  /\ unit[u] = "READY" \/ (unit[u] = "CLAIMED" /\ claim[u].state = "released")
  /\ Executable

\* Mutant: a resumed or reclaimed unit keeps its generation.
GenerationOnceRaised(u) == IF claim[u].gen = 0 THEN 1 ELSE claim[u].gen

NextGeneration(u) == claim[u].gen + 1

Handouts == Cardinality({h \in Units \X (1..MaxGrants) : h[2] <= grants[h[1]]})

\* The reply to a handout is heard by a session that waits for it, or lost.
Hears(u, listeners) ==
  \/ UNCHANGED told
  \/ \E s \in listeners :
       told' = [told EXCEPT ![s][u] = [gen |-> NextGeneration(u), grant |-> grants[u] + 1]]

\* claim and resume: a new holder under a new generation.
HandOut(u, w, listeners) ==
  /\ ProjectTakesWork
  /\ Claimable(u)
  /\ Handouts < MaxGrants
  /\ claim' = [claim EXCEPT ![u] = [state |-> "owned", holder |-> w, gen |-> NextGeneration(u),
                                    fresh |-> TRUE, parked |-> NoAssignment]]
  /\ unit' = [unit EXCEPT ![u] = "CLAIMED"]
  /\ item' = "ACTIVE"
  /\ grants' = [grants EXCEPT ![u] = @ + 1]
  /\ Hears(u, listeners)
  /\ UNCHANGED <<project, active>>

\* renew, release, use and park require the stored holder and generation.
HolderActs(u, w, g, op) ==
  /\ Ownership(u, op) = "owned"
  /\ claim[u].holder = w
  /\ claim[u].gen = g

\* release and park: the generation stays with the record.
GiveUp(u, a) ==
  /\ claim' = [claim EXCEPT ![u].state = "released", ![u].holder = NoAgent, ![u].parked = a]
  /\ UNCHANGED <<unit, item, project, active, told, grants>>

\* resume: only for the assignment the unit is parked on.
TakeAgain(u, w, a) ==
  /\ Ownership(u, "resume") = "parked"
  /\ claim[u].parked = a
  /\ HandOut(u, w, {s \in Sessions : AgentOf[s] = w})

\* unpark: the unit is claimable again.
Unpark(u, a) ==
  /\ ProjectTakesWork
  /\ Ownership(u, "unpark") = "parked"
  /\ claim[u].parked = a
  /\ claim' = [claim EXCEPT ![u].parked = NoAssignment]
  /\ UNCHANGED <<unit, item, project, active, told, grants>>

-----------------------------------------------------------------------------
(* The Receiver's commands.                                                *)

\* Mutant: a parked unit is as free as a released one.
ClaimParked(s, u) ==
  /\ Ownership(u, "claim") \in {"unowned", "parked"}
  /\ HandOut(u, AgentOf[s], {s})

Claim(s, u) ==
  /\ Ownership(u, "claim") = "unowned"
  /\ HandOut(u, AgentOf[s], {s})

Renew(s, u) ==
  /\ HolderActs(u, AgentOf[s], told[s][u].gen, "renew")
  /\ claim' = [claim EXCEPT ![u].fresh = TRUE]
  /\ UNCHANGED <<unit, item, project, active, told, grants>>

Release(s, u) ==
  /\ HolderActs(u, AgentOf[s], told[s][u].gen, "release")
  /\ GiveUp(u, NoAssignment)

\* Nobody renewed in time.  Nothing is written.
Expire(u) ==
  /\ claim[u].state = "owned" /\ claim[u].fresh
  /\ claim' = [claim EXCEPT ![u].fresh = FALSE]
  /\ UNCHANGED <<unit, item, project, active, told, grants>>

-----------------------------------------------------------------------------
(* The other services whose records the organ reads: control_backlog,      *)
(* control_project and control_membership.                                 *)

OpenUnits == {u \in Units : unit[u] \notin {"absent", "CANCELED"}}
Planned == {u \in Units : unit[u] = "PLANNED"}

AppendUnit(u) ==
  /\ project = "ACTIVE" /\ Executable
  /\ unit[u] = "absent"
  /\ unit' = [unit EXCEPT ![u] = "PLANNED"]
  /\ UNCHANGED <<claim, item, project, active, told, grants>>

\* The owner's settled answer makes every planned unit ready.
PrioritizeUnits ==
  /\ ProjectTakesWork /\ Executable
  /\ Planned # {}
  /\ unit' = [u \in Units |-> IF u \in Planned THEN "READY" ELSE unit[u]]
  /\ UNCHANGED <<claim, item, project, active, told, grants>>

\* dispose_unit: the owner's settled answer ends one unit, held or not.
DisposeUnit(u) ==
  /\ ProjectTakesWork
  /\ item # "CANCELED"
  /\ u \in OpenUnits
  /\ unit' = [unit EXCEPT ![u] = "CANCELED"]
  /\ UNCHANGED <<claim, item, project, active, told, grants>>

\* cancel: the item with every unit that has not ended, in any project state.
CancelItem ==
  /\ Lead \in active
  /\ item # "CANCELED"
  /\ item' = "CANCELED"
  /\ unit' = [u \in Units |-> IF u \in OpenUnits THEN "CANCELED" ELSE unit[u]]
  /\ UNCHANGED <<claim, project, active, told, grants>>

\* The project's owner pauses it or makes it active again.
SetProject(state) ==
  /\ Lead \in active
  /\ project # state
  /\ project' = state
  /\ UNCHANGED <<claim, unit, item, active, told, grants>>

\* A membership is revoked, or the person is enrolled again.
SetMember(p) ==
  /\ active' = IF p \in active THEN active \ {p} ELSE active \cup {p}
  /\ UNCHANGED <<claim, unit, item, project, told, grants>>
=============================================================================
