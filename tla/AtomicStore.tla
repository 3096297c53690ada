----------------------------- MODULE AtomicStore -----------------------------
(***************************************************************************)
(* What the control store promises (.veldo/control_store.py): one map from *)
(* entities to records, changed by commands.  A command takes effect at    *)
(* most once, at one instant, at which every version it declares is the    *)
(* current one; it is answered "committed" only after that instant.  No    *)
(* connections, locks, transactions, crashes or retries.                   *)
(***************************************************************************)
EXTENDS Integers

CONSTANTS
  Entities,        \* entity ids
  Callers,         \* who sends commands
  Unheard,         \* no command
  Absent,          \* the record of an entity that is not there
  Command,         \* every command a caller can send
  Written(_, _)    \* Written(cmd, state): the rows cmd writes in state

VARIABLES
  state,           \* the records
  done,            \* command id -> the command that took effect under it
  heard            \* heard[c]: the command caller c knows to be in effect

Init ==
  /\ state = [e \in Entities |-> Absent]
  /\ done = [i \in {} |-> Unheard]
  /\ heard = [c \in Callers |-> Unheard]

\* A command takes effect.
Apply(cmd) ==
  LET rows == Written(cmd, state)
  IN  /\ cmd.request.id \notin DOMAIN done
      /\ \A e \in DOMAIN cmd.expected : state[e].version = cmd.expected[e]
      /\ DOMAIN rows \subseteq DOMAIN cmd.expected
      /\ state' = [e \in Entities |-> IF e \in DOMAIN rows THEN rows[e] ELSE state[e]]
      /\ done' = [i \in DOMAIN done \cup {cmd.request.id} |->
                    IF i = cmd.request.id THEN cmd ELSE done[i]]
      /\ UNCHANGED heard

\* A caller hears that a command is in effect, as often as it asks.
Answer(c) ==
  /\ \E id \in DOMAIN done : heard' = [heard EXCEPT ![c] = done[id]]
  /\ UNCHANGED <<state, done>>

\* A caller asks anew.
Ask(c) ==
  /\ heard' = [heard EXCEPT ![c] = Unheard]
  /\ UNCHANGED <<state, done>>

Next ==
  \/ \E c \in Callers : Answer(c) \/ Ask(c)
  \/ \E cmd \in Command : Apply(cmd)

Spec == Init /\ [][Next]_<<state, done, heard>>
=============================================================================
