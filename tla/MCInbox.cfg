SPECIFICATION Spec
CONSTANTS
  w1 = w1
  s1 = s1
  s2 = s2
  u1 = u1
  u2 = u2
  a1 = a1
  a2 = a2
  o = o
  m = m
  Agents = {w1}
  NoAgent = NoAgent
  Sessions = {s1, s2}
  AgentOf <- MCAgentOf
  Units = {u1, u2}
  Founding = {u1}
  Assignments = {a1, a2}
  NoAssignment = NoAssignment
  Persons = {o, m}
  Lead = m
  MaxGrants = 2
  NoPerson = NoPerson
  Owner = o
  ProjectOwners = {m}
  NoPlan = NoPlan
  MaxRounds = 2
SYMMETRY Symmetry
INVARIANTS
  WaitingHoldsNothing
  StoppedWorkIsAsked
  ClosedItemHasNoOpenUnit
PROPERTIES
  OnlyTheHoldingActs
  ResumedOnlyAdmitted
  OpeningStopsItsRequester
  DispositionsTouchNoLiveWork
