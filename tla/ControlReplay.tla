---------------------------- MODULE ControlReplay ----------------------------
(***************************************************************************)
(* Replaying the journal (.veldo/control_replay.py): the chain is verified *)
(* and the domain state rebuilt record by record, each record checked      *)
(* against the state built so far.  The rebuilt state is compared with the *)
(* live tables of the store.  Signatures are taken as valid: no record is  *)
(* altered in this model.                                                  *)
(***************************************************************************)
EXTENDS ControlStore

Empty ==
  [accepted |-> TRUE, head |-> Genesis, entities |-> [e \in Entities |-> Absent],
   nonces |-> NoRows, obligations |-> NoRows]

\* verify_chain: records run 1, 2, 3 and each names the digest before it.
Chained(state, r) == r.seq = state.head[1] + 1 /\ r.prev = state.head

\* replay's own checks of one record against the state built so far.
Consistent(state, r) ==
  LET rebuilt(e) == IF e \in DOMAIN r.transition THEN r.transition[e] ELSE state.entities[e]
  IN  /\ r.command.request.nonce \notin DOMAIN state.nonces
      /\ r.command.request.rows \cap DOMAIN state.obligations = {}
      /\ \A e \in DOMAIN r.before : state.entities[e].version = r.before[e]
      /\ \A e \in DOMAIN r.transition :
           /\ r.after[e] = r.transition[e].version
           /\ r.transition[e].version = r.before[e] + 1
      /\ \A e \in DOMAIN r.after : rebuilt(e).version = r.after[e]

Applied(state, r) ==
  [accepted |-> TRUE,
   head |-> RecordDigest(r),
   entities |-> [e \in Entities |->
     IF e \in DOMAIN r.transition THEN r.transition[e] ELSE state.entities[e]],
   nonces |-> Insert(state.nonces, r.command.request.nonce, r.command.request.id),
   obligations |-> [x \in DOMAIN state.obligations \cup r.command.request.rows |->
     IF x \in r.command.request.rows THEN r.command.request.id ELSE state.obligations[x]]]

ReplayRecord(state, r) ==
  IF state.accepted /\ Chained(state, r) /\ Consistent(state, r)
  THEN Applied(state, r)
  ELSE [state EXCEPT !.accepted = FALSE]

Replay(records) ==
  LET state[n \in 0..Len(records)] ==
        IF n = 0 THEN Empty ELSE ReplayRecord(state[n - 1], records[n])
  IN  state[Len(records)]

\* In every state of every interleaving the journal alone rebuilds the live domain
\* state: every record is accepted and the rebuilt entities, nonces, reservations
\* and effects are the tables' (compare_with_live finds no difference).
ReplayRebuildsTheStore ==
  LET rebuilt == Replay(journal)
  IN  /\ rebuilt.accepted
      /\ rebuilt.entities = entities
      /\ rebuilt.nonces = nonces
      /\ rebuilt.obligations = obligations
=============================================================================
