SPECIFICATION Spec
CONSTANTS
  c1 = c1
  c2 = c2
  Conns = {c1, c2}
  NoConn = NoConn
  NoKind = NoKind
  NoValue = NoValue
  NoRequest = NoRequest
  Entities <- MCEntities
  Kinds <- MCKinds
  Values <- MCValues
  Owned = {"held"}
  ClaimIds = {"claim:u"}
  ProjectOf <- MCProjectOf
  Requests <- MCRequests
  StandingRows <- MCStandingRows
  Declarations <- MCDeclarations
  CodeOf <- MCCodeOf
  MaxSeq = 3
INVARIANTS
  AnswersAreTrue
  DecidedFromItsPrefix
  OwnedByItsOwner
  ReplayRebuildsTheStore
PROPERTIES
  HandoutsNeedALiveProject
  ImplementsAtomicStore
CHECK_DEADLOCK FALSE
