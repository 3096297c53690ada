------------------------------ MODULE Dispatches ------------------------------
(***************************************************************************)
(* The records a launch is decided by: the dispatch records and their      *)
(* index (.veldo/control_dispatch.py), the worker slots and the calls made *)
(* under them (.veldo/control_reservations.py), and the account each slot  *)
(* is on (.veldo/control_account_pool.py).                                 *)
(*                                                                         *)
(* Every operator that primes a variable here is one command of the store, *)
(* judged and committed in one transaction (module ControlStore).          *)
(*                                                                         *)
(* Abstracted: a dispatch's station (a unit here is a unit at a station);  *)
(* its contract, of which only the slot it binds is kept, and whose other  *)
(* bindings and deadline may make any acceptance a refusal; ceilings other *)
(* than an account's concurrency; what a call used.                        *)
(***************************************************************************)
EXTENDS Naturals, FiniteSets

CONSTANTS
  Dispatch,
  Unit,
  Account,
  Concurrency,  \* the runs an account admits at once
  NoDispatch, NoUnit, NoAccount

ASSUME DispatchesAssumption ==
  /\ NoDispatch \notin Dispatch
  /\ NoUnit \notin Unit
  /\ NoAccount \notin Account
  /\ Concurrency \in Nat \ {0}
  /\ IsFiniteSet(Dispatch)

VARIABLES
  record,  \* dispatch: state, unit, and whether `run` recorded a process
  holder,  \* dispatch_active: the dispatch each unit's index names
  slot,    \* the worker slot of each dispatch
  calls    \* the invocation made under each dispatch

storeVars == <<record, holder, slot, calls>>

NoRecord == [state |-> "none", unit |-> NoUnit, process |-> FALSE]
NoSlot == [state |-> "none", account |-> NoAccount]

\* States that hold their unit.  An unknown outcome holds it.
HoldingUntilUnknown == {"prepared", "accepted", "running"}
Holding == {"prepared", "accepted", "running", "unknown"}

StoreInit ==
  /\ record = [d \in Dispatch |-> NoRecord]
  /\ holder = [u \in Unit |-> NoDispatch]
  /\ slot = [d \in Dispatch |-> NoSlot]
  /\ calls = [d \in Dispatch |-> "none"]

State(d) == record[d].state
Held(u) == holder[u] # NoDispatch /\ State(holder[u]) \in Holding

-----------------------------------------------------------------------------
\* control_dispatch.transition.

Prepared(d, u) ==
  /\ State(d) = "none"
  /\ ~Held(u)
  /\ slot[d].state = "held"
  /\ record' = [record EXCEPT ![d] = [NoRecord EXCEPT !.state = "prepared", !.unit = u]]
  /\ holder' = [holder EXCEPT ![u] = d]

Moved(d, from, to) ==
  /\ State(d) \in from
  /\ record' = [record EXCEPT ![d].state = to]
  /\ holder' = IF to \notin Holding /\ holder[record[d].unit] = d
               THEN [holder EXCEPT ![record[d].unit] = NoDispatch] ELSE holder

\* The slot must still be the one the contract binds.
MayAccept(d) == slot[d].state = "held"
Accepted(d) == MayAccept(d) /\ Moved(d, {"prepared"}, "accepted")

Running(d) ==
  /\ State(d) = "accepted"
  /\ record' = [record EXCEPT ![d].state = "running", ![d].process = TRUE]
  /\ UNCHANGED holder

Exited(d) == Moved(d, {"running"}, "exited")
Refused(d, expected) == Moved(d, {"prepared", "accepted"} \cap expected, "refused")
Unknown(d, expected) == Moved(d, {"accepted", "running"} \cap expected, "unknown")

-----------------------------------------------------------------------------
\* control_account_pool.choose and control_reservations._transition.

\* The slots that count against an account, among the slots s.
Uses(s, a) == {d \in Dispatch : s[d].account = a /\ s[d].state = "held"}
HasRoom(s, a) == Cardinality(Uses(s, a)) < Concurrency

Reserve(s, d, a) == [s EXCEPT ![d] = [state |-> "held", account |-> a]]
Retire(R) ==
  [d \in Dispatch |-> IF d \in R THEN [slot[d] EXCEPT !.state = "retired"] ELSE slot[d]]
ReleaseAccount(d) == [slot EXCEPT ![d].state = "released"]

\* A call is closed once its final report settles it or leaves it unknown.
CallMade(d) == calls' = [calls EXCEPT ![d] = "pending"]
CallClosed(d) ==
  calls' = [calls EXCEPT ![d] = IF calls[d] = "pending" THEN "closed" ELSE calls[d]]

StoreTypeOK ==
  /\ record \in [Dispatch -> [state : {"none", "exited", "refused"} \cup Holding,
                              unit : Unit \cup {NoUnit}, process : BOOLEAN]]
  /\ holder \in [Unit -> Dispatch \cup {NoDispatch}]
  /\ slot \in [Dispatch -> [state : {"none", "held", "released", "retired"},
                            account : Account \cup {NoAccount}]]
  /\ calls \in [Dispatch -> {"none", "pending", "closed"}]
  /\ \A d \in Dispatch : State(d) # "none" => record[d].unit \in Unit
=============================================================================
