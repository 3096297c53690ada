------------------------- MODULE ControlStorePromise -------------------------
(***************************************************************************)
(* The control store as its callers see it: AtomicStore's map is the       *)
(* entities table, its commands in effect are the commands table, and what *)
(* a caller heard is the command it was told "committed" about.  Versions  *)
(* read early, locks, journal, crashes and retries have no counterpart.    *)
(***************************************************************************)
EXTENDS ControlStore

RowsWritten(cmd, s) == Changes(cmd.request, s)
CommandsDone == [i \in DOMAIN commands |-> commands[i].content]
HeardBy == [c \in Conns |-> IF answer[c].result = "committed" THEN command[c] ELSE NoCommand]

Promise == INSTANCE AtomicStore WITH
  Written <- RowsWritten,
  Callers <- Conns,
  Unheard <- NoCommand,
  state <- entities,
  done <- CommandsDone,
  heard <- HeardBy

\* The store implements the atomic map: every step of every connection is one
\* command taking effect at the versions it declares, one true answer, or nothing a
\* caller of the map can see (execute's prior lookup, version check and commit are
\* one step to everybody else).
ImplementsAtomicStore == Promise!Spec
=============================================================================
