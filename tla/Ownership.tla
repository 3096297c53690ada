------------------------------ MODULE Ownership -------------------------------
(***************************************************************************)
(* The ownership declarations of a store under an upgrade of the engine    *)
(* that writes it (.veldo/control_store.py: rebind_owners, restore_owners, *)
(* drop_previous_owners).  A declaration binds a module to the bytes of    *)
(* its file; here one declaration stands for all of a module's, and the    *)
(* commands it lists travel with it.  Each operation is one transaction.   *)
(***************************************************************************)
EXTENDS Naturals

CONSTANTS
  Module,    \* the engine's owning modules
  Last,      \* the releases of the engine, 1 the oldest, up to this one
  Bytes,     \* Bytes[e][m]: the release whose bytes of m release e still has
  Rebinds,   \* the releases whose service rebinds and drops
  HalfEngine \* what is left of an engine directory half written or half removed

Engine == 1..Last

ASSUME OwnershipAssumption ==
  /\ Last \in Nat \ {0}
  /\ Bytes \in [Engine -> [Module -> Engine]]
  /\ Rebinds \subseteq Engine
  /\ HalfEngine \notin Engine

VARIABLES
  bound,  \* entity_owners: the bytes each module is bound to
  prev    \* the record of previous bindings: what was rebound, from what to what

ownershipVars == <<bound, prev>>

NoRecord == [m \in {} |-> 0]
OwnershipInit == bound = Bytes[1] /\ prev = NoRecord

\* Whether the files of a directory have the bytes that are bound: what attach
\* asks of every declaration, and execute of every owned command.
Attachable(files) == files \in Engine /\ bound = Bytes[files]

\* rebind_owners: a module moves to the bytes the installation's record names
\* once its file has them; the previous bindings are kept while the previous
\* engine still stands beside the new one.
Due(recorded, files) ==
  {m \in Module : /\ bound[m] # Bytes[recorded][m]
                  /\ Bytes[files][m] = Bytes[recorded][m]}

Rebind(recorded, files, keep) ==
  LET due == IF files \in Engine THEN Due(recorded, files) ELSE {}
  IN /\ bound' = [m \in Module |-> IF m \in due THEN Bytes[recorded][m] ELSE bound[m]]
     /\ prev' = IF keep /\ due # {}
                THEN [m \in due |-> [was |-> bound[m], is |-> Bytes[recorded][m]]]
                ELSE prev

\* restore_owners: all of the record or none of it.
MayRestore(files) ==
  \A m \in DOMAIN prev : files \in Engine /\ Bytes[files][m] = prev[m].was

Restore ==
  /\ bound' = [m \in Module |-> IF m \in DOMAIN prev /\ bound[m] = prev[m].is
                                THEN prev[m].was ELSE bound[m]]
  /\ prev' = NoRecord

DropPrevious == prev' = NoRecord /\ UNCHANGED bound
=============================================================================
