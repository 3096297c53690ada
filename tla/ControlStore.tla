---------------------------- MODULE ControlStore ----------------------------
(***************************************************************************)
(* The control store of Veldo (.veldo/control_store.py): one SQLite file,  *)
(* several connections of several processes, every change one journaled    *)
(* command executed in one BEGIN IMMEDIATE transaction.                    *)
(*                                                                         *)
(* A connection forms a command from the versions it reads OUTSIDE the     *)
(* transaction, takes the write lock, checks, commits and answers; it may  *)
(* be killed between any two of these and its caller may send the same     *)
(* command again, or rebuild it from fresh reads under the same id.        *)
(* Services declare, at any time, which commands may write which entities. *)
(*                                                                         *)
(* Abstracted: an entity's data is one value and the retired flag; a       *)
(* digest is collision free, so a command's digest is its content and a    *)
(* record's digest the parts that tell records apart; the signature, the   *)
(* artifact and receipt lists and the authority generation are carried by  *)
(* the record and read by nothing here.  External: SQLite's atomic commit  *)
(* and its single writer.  Not here: rebinding ownership for an upgrade,   *)
(* repository bindings, the publication cursor (module Replica), the guard *)
(* a snapshot command needs on its connection (unregistered_inputs).       *)
(***************************************************************************)
EXTENDS Integers, Sequences, FiniteSets

CONSTANTS
  Conns,         \* connections; each is one process of the control plane
  NoConn,        \* nobody holds the write lock
  Entities,      \* entity ids
  Kinds,         \* entity kinds; "claim" and "project" are read by the store
  NoKind,        \* the kind of an absent entity
  Values,        \* entity data
  NoValue,       \* the data of an absent entity
  Owned,         \* the data of a claim record held by somebody
  ClaimIds,      \* the entity ids that begin with "claim:"
  ProjectOf,     \* the project of the unit a claim record at an id names
  Requests,      \* what callers ask for, before versions are read
  NoRequest,     \* a connection that has formed no command
  StandingRows,  \* ownership in force without a declaration
  Declarations,  \* the sets of rows services declare
  CodeOf,        \* CodeOf[c][op]: the code registered on connection c for op
  MaxSeq         \* bound: journal records written

Ops == {q.op : q \in Requests}
Ids == {q.id : q \in Requests}
Nonces == {q.nonce : q \in Requests}
RowIds == UNION {q.rows : q \in Requests}
Rows == StandingRows \cup UNION Declarations

\* COMMAND_REGISTRY: the store's own commands, which no service may own.
Generic == {"upsert_entity", "retire_entity", "record_receipt", "reserve", "record_effect"}

Datum == [value : Values, retired : BOOLEAN]
NoDatum == [value |-> NoValue, retired |-> FALSE]
Absent == [version |-> 0, kind |-> NoKind, data |-> NoDatum]
Record == {Absent} \cup [version : Nat \ {0}, kind : Kinds, data : Datum]

ASSUME StoreAssumption ==
  /\ MaxSeq \in Nat
  /\ NoConn \notin Conns
  /\ NoKind \notin Kinds
  /\ NoValue \notin Values
  /\ NoRequest \notin Requests
  /\ ClaimIds \subseteq Entities
  /\ Owned \subseteq Values
  /\ ProjectOf \in [Entities -> Entities]
  /\ \A q \in Requests :
       /\ q = [id |-> q.id, op |-> q.op, nonce |-> q.nonce, puts |-> q.puts,
               depends |-> q.depends, rows |-> q.rows]
       /\ q.depends \subseteq Entities
       /\ DOMAIN q.puts \subseteq Entities
       /\ q.puts \in [DOMAIN q.puts -> [kind : Kinds, value : Values]]
  /\ \A r \in Rows :
       /\ r = [kinds |-> r.kinds, ids |-> r.ids, owner |-> r.owner,
               commands |-> r.commands, module |-> r.module]
       /\ r.commands \cap Generic = {}

VARIABLES
  entities,    \* the entities table
  journal,     \* the journal table, in sequence
  commands,    \* the commands table: id -> the content and the sequence committed
  nonces,      \* the nonces table: nonce -> command id
  obligations, \* the reservations and effects tables: row id -> command id
  owners,      \* the entity_owners table
  lock,        \* the connection inside BEGIN IMMEDIATE
  pc,          \* where each connection is
  command,     \* the command each connection carries
  seen,        \* what the transaction read before it writes
  answer       \* the answer each caller has to the command it carries

tables == <<entities, journal, commands, nonces, obligations>>
vars == <<entities, journal, commands, nonces, obligations, owners, lock, pc,
          command, seen, answer>>

\* Every command a caller can form.
Command == UNION {{[request |-> q, expected |-> v] : v \in [q.depends -> 0..MaxSeq]} : q \in Requests}
NoCommand == [request |-> NoRequest, expected |-> <<>>]
NoAnswer == [result |-> "none", seq |-> 0]
Nothing == [before |-> <<>>, tip |-> 0]

NoRows == [x \in {} |-> 0]

Init ==
  /\ entities = [e \in Entities |-> Absent]
  /\ journal = <<>>
  /\ commands = NoRows
  /\ nonces = NoRows
  /\ obligations = NoRows
  /\ owners = {}
  /\ lock = NoConn
  /\ pc = [c \in Conns |-> "idle"]
  /\ command = [c \in Conns |-> NoCommand]
  /\ seen = [c \in Conns |-> Nothing]
  /\ answer = [c \in Conns |-> NoAnswer]

\* A function extended at one point, as an INSERT into a keyed table.
Insert(f, x, v) == [y \in DOMAIN f \cup {x} |-> IF y = x THEN v ELSE f[y]]

-----------------------------------------------------------------------------
(* What a command's transition writes, and what may refuse it.             *)

\* The transitions of the registry: a retirement keeps kind and data and sets
\* the flag, every other one puts what its parameters name.
NewData(q, e, before) ==
  IF q.op = "retire_entity"
  THEN [kind |-> before[e].kind, data |-> [value |-> before[e].data.value, retired |-> TRUE]]
  ELSE [kind |-> q.puts[e].kind, data |-> [value |-> q.puts[e].value, retired |-> FALSE]]

\* The entity rows a command writes: the next version of each entity it names.
Changes(q, before) ==
  [e \in DOMAIN q.puts |->
     [version |-> before[e].version + 1,
      kind |-> NewData(q, e, before).kind,
      data |-> NewData(q, e, before).data]]

\* claim_handout: a claim record written as held hands out work unless it is the
\* same holding renewed, and so does clearing a park.
Handout(was, now) ==
  IF now.value \in Owned
  THEN was # now
  ELSE was.value = "parked" /\ now.value # "parked"

IsClaim(e, kind) == e \in ClaimIds \/ kind = "claim"
ClaimData(e, r) == IF IsClaim(e, r.kind) THEN r.data ELSE NoDatum

HandsOut(e, was, now) == Handout(ClaimData(e, was), ClaimData(e, now))

\* Gate.project_problems, for the state of the unit's project alone.
TakesWork(after, e) ==
  LET p == after[ProjectOf[e]] IN p.kind = "project" /\ p.data.value = "ACTIVE"

\* Mutant: the project is read before the transition's own writes.
HandoutProblemBeforeWrites(changes, before) ==
  \E e \in DOMAIN changes :
    \/ e \in ClaimIds /\ changes[e].kind # "claim"
    \/ HandsOut(e, before[e], changes[e]) /\ ~TakesWork(before, e)

\* handout_problem reads the state the transaction is about to commit, so a pause
\* that the same command writes refuses the handout too.
HandoutProblem(changes, before) ==
  LET after == [e \in Entities |-> IF e \in DOMAIN changes THEN changes[e] ELSE before[e]]
  IN  \E e \in DOMAIN changes :
        \/ e \in ClaimIds /\ changes[e].kind # "claim"
        \/ HandsOut(e, before[e], changes[e]) /\ ~TakesWork(after, e)

\* A declaration matches an entity by its kind, before or after, or by its id.
Matches(r, e, kinds) == r.kinds \cap kinds # {} \/ e \in r.ids

OwnershipProblem(op, changes, before) ==
  \E e \in DOMAIN changes, r \in owners \cup StandingRows :
    Matches(r, e, {before[e].kind, changes[e].kind}) /\ op \notin r.commands

\* An owned command runs only the code its declaration names.
OriginProblem(c, op) == \E r \in owners : op \in r.commands /\ CodeOf[c][op] # r.module

\* Mutant: the nonce is not looked up.
NonceProblemUnchecked(q) == FALSE
NonceProblem(q) == q.nonce \in DOMAIN nonces

StaleProblem(cmd) ==
  \E e \in cmd.request.depends : entities[e].version # cmd.expected[e]

MissingProblem(q) ==
  q.op = "retire_entity" /\ \E e \in DOMAIN q.puts : entities[e] = Absent

\* The refusals of one command in the order execute meets them, or "none".
Refusal(c) ==
  LET q == command[c].request
      changes == Changes(q, entities)
  IN  IF NonceProblem(q) THEN "nonce_consumed"
      ELSE IF StaleProblem(command[c]) THEN "stale_version"
      ELSE IF OriginProblem(c, q.op) THEN "foreign_transition"
      ELSE IF MissingProblem(q) THEN "transition_refused"
      ELSE IF ~(DOMAIN q.puts \subseteq q.depends) THEN "undeclared_version"
      ELSE IF OwnershipProblem(q.op, changes, entities) THEN "entity_owned"
      ELSE IF HandoutProblem(changes, entities) THEN "project_not_active"
      ELSE IF q.rows \cap DOMAIN obligations # {} THEN "foreign_key_violation"
      ELSE "none"

\* Refusals no later retry of the same command can turn into a commit.
Final == {"nonce_consumed", "stale_version"}

-----------------------------------------------------------------------------
(* The caller of a connection.                                             *)

Tell(c, a) == answer' = [answer EXCEPT ![c] = a]

\* A caller reads the versions of the entities its request depends on and forms
\* the command that declares them.
Form(c, q) ==
  /\ pc[c] = "idle"
  /\ command' = [command EXCEPT ![c] =
       [request |-> q, expected |-> [e \in q.depends |-> entities[e].version]]]
  /\ pc' = [pc EXCEPT ![c] = "formed"]
  /\ Tell(c, NoAnswer)
  /\ UNCHANGED <<entities, journal, commands, nonces, obligations, owners, lock, seen>>

\* A caller sends its last command again, whatever answer it had or lost.
Resend(c) ==
  /\ pc[c] = "idle"
  /\ command[c] # NoCommand
  /\ pc' = [pc EXCEPT ![c] = "formed"]
  /\ Tell(c, NoAnswer)
  /\ UNCHANGED <<entities, journal, commands, nonces, obligations, owners, lock, command, seen>>

-----------------------------------------------------------------------------
(* execute: one transaction.                                               *)

\* Mutant: a deferred BEGIN takes no write lock.
BeginDeferred(c) ==
  /\ pc[c] = "formed"
  /\ lock' = c
  /\ pc' = [pc EXCEPT ![c] = "open"]
  /\ UNCHANGED <<entities, journal, commands, nonces, obligations, owners, command, seen, answer>>

\* BEGIN IMMEDIATE waits for the single writer.
Begin(c) ==
  /\ pc[c] = "formed"
  /\ lock = NoConn
  /\ lock' = c
  /\ pc' = [pc EXCEPT ![c] = "open"]
  /\ UNCHANGED <<entities, journal, commands, nonces, obligations, owners, command, seen, answer>>

\* The transaction ends with nothing written and the caller told why.
Rollback(c, a) ==
  /\ lock' = NoConn
  /\ pc' = [pc EXCEPT ![c] = "idle"]
  /\ Tell(c, a)
  /\ UNCHANGED <<entities, journal, commands, nonces, obligations, owners, command, seen>>

\* Mutant: a retry is recognised by its content, not by its id.
PriorByContent(c) ==
  \E id \in DOMAIN commands : commands[id].content = command[c]
Prior(c) == command[c].request.id \in DOMAIN commands

\* Mutant: the first result answers whatever content comes under its id.
AnswerPriorAnyContent(c) ==
  /\ pc[c] = "open"
  /\ Prior(c)
  /\ Rollback(c, [result |-> "committed", seq |-> commands[command[c].request.id].seq])

\* The id was committed: identical content is answered with the first result,
\* other content is a conflict.
AnswerPrior(c) ==
  /\ pc[c] = "open"
  /\ Prior(c)
  /\ LET prior == commands[command[c].request.id]
     IN  IF prior.content = command[c]
         THEN Rollback(c, [result |-> "committed", seq |-> prior.seq])
         ELSE Rollback(c, [result |-> "command_content_conflict", seq |-> 0])

Refuse(c) ==
  /\ pc[c] = "open"
  /\ ~Prior(c)
  /\ Refusal(c) # "none"
  /\ Rollback(c, [result |-> Refusal(c), seq |-> 0])

\* Every check passed: the transaction holds the rows and the journal tip it read
\* and writes from them.
Check(c) ==
  /\ pc[c] = "open"
  /\ ~Prior(c)
  /\ Refusal(c) = "none"
  /\ Len(journal) < MaxSeq
  /\ seen' = [seen EXCEPT ![c] = [before |-> entities, tip |-> Len(journal)]]
  /\ pc' = [pc EXCEPT ![c] = "checked"]
  /\ UNCHANGED <<entities, journal, commands, nonces, obligations, owners, lock, command, answer>>

\* The digest of a record, by the parts that tell one record from another.
RecordDigest(r) == <<r.seq, r.command>>
Genesis == <<0, NoCommand>>
PrevDigest(n) == IF n = 0 THEN Genesis ELSE RecordDigest(journal[n])

JournalRecord(c) ==
  LET q == command[c].request
      before == seen[c].before
      changes == Changes(q, before)
      versioned == {e \in q.depends : before[e] # Absent} \cup DOMAIN q.puts
  IN  [seq |-> seen[c].tip + 1,
       prev |-> PrevDigest(seen[c].tip),
       command |-> command[c],
       before |-> [e \in versioned |-> before[e].version],
       after |-> [e \in versioned |->
                    IF e \in DOMAIN changes THEN changes[e].version ELSE before[e].version],
       transition |-> changes]

\* Entity rows, journal record, command result, obligation rows and nonce
\* become visible together, or not at all.
Commit(c) ==
  LET q == command[c].request
      record == JournalRecord(c)
  IN  /\ pc[c] = "checked"
      /\ entities' = [e \in Entities |->
           IF e \in DOMAIN record.transition THEN record.transition[e] ELSE entities[e]]
      /\ journal' = Append(journal, record)
      /\ commands' = Insert(commands, q.id, [content |-> command[c], seq |-> record.seq])
      /\ nonces' = Insert(nonces, q.nonce, q.id)
      /\ obligations' = [r \in DOMAIN obligations \cup q.rows |->
           IF r \in q.rows THEN q.id ELSE obligations[r]]
      /\ lock' = NoConn
      /\ pc' = [pc EXCEPT ![c] = "committed"]
      /\ seen' = [seen EXCEPT ![c] = Nothing]
      /\ UNCHANGED <<owners, command, answer>>

\* execute returns the committed result.
Reply(c) ==
  /\ pc[c] = "committed"
  /\ pc' = [pc EXCEPT ![c] = "idle"]
  /\ Tell(c, [result |-> "committed", seq |-> commands[command[c].request.id].seq])
  /\ UNCHANGED <<entities, journal, commands, nonces, obligations, owners, lock, command, seen>>

\* The process dies: the transaction it had open is rolled back by SQLite, the
\* answer it had is lost, and its caller still knows the command it sent.
Crash(c) ==
  /\ pc[c] \in {"open", "checked", "committed"}
  /\ pc' = [pc EXCEPT ![c] = "idle"]
  /\ lock' = IF lock = c THEN NoConn ELSE lock
  /\ seen' = [seen EXCEPT ![c] = Nothing]
  /\ UNCHANGED <<entities, journal, commands, nonces, obligations, owners, command, answer>>

-----------------------------------------------------------------------------
(* declare_owners: its own transaction.                                    *)

SameSelector(r, p) == r.kinds = p.kinds /\ r.ids = p.ids
\* Mutant: nobody looks for entities written before the declaration.
OccupiedUnchecked(r) == FALSE
Occupied(r) == \E e \in Entities : entities[e] # Absent /\ Matches(r, e, {entities[e].kind})
AddsCommands(r, p) ==
  p.owner = r.owner /\ p.module = r.module /\ p.commands \subseteq r.commands

OwnershipConflict(rows) ==
  \/ \E r \in rows, p \in owners : r.commands \cap p.commands # {} /\ p.module # r.module
  \/ \E r \in rows, p \in owners : SameSelector(r, p) /\ ~AddsCommands(r, p)
  \/ \E r \in rows : (\A p \in owners : ~SameSelector(r, p)) /\ Occupied(r)

DeclareOwners(rows) ==
  /\ lock = NoConn
  /\ ~(rows \subseteq owners)
  /\ ~OwnershipConflict(rows)
  /\ owners' = rows \cup {p \in owners : \A r \in rows : ~SameSelector(r, p)}
  /\ UNCHANGED <<entities, journal, commands, nonces, obligations, lock, pc, command, seen, answer>>

-----------------------------------------------------------------------------

Execute(c) == Begin(c) \/ AnswerPrior(c) \/ Refuse(c) \/ Check(c) \/ Commit(c) \/ Reply(c)

Next ==
  \/ \E c \in Conns :
       \/ \E q \in Requests : Form(c, q)
       \/ Resend(c)
       \/ Execute(c)
       \/ Crash(c)
  \/ \E rows \in Declarations : DeclareOwners(rows)

Spec == Init /\ [][Next]_vars

-----------------------------------------------------------------------------
(* Properties.                                                             *)

\* A table or a record field: a function on some of the keys.
Partial(f, S, T) == DOMAIN f \subseteq S /\ f \in [DOMAIN f -> T]

IsJournalRecord(r) ==
  /\ r.seq \in 1..MaxSeq
  /\ r.prev \in (0..MaxSeq) \X (Command \cup {NoCommand})
  /\ r.command \in Command
  /\ Partial(r.before, Entities, Nat)
  /\ Partial(r.after, Entities, Nat)
  /\ Partial(r.transition, Entities, Record)

CommandRows == [content : Command, seq : 1..MaxSeq]
Pcs == {"idle", "formed", "open", "checked", "committed"}

\* Type invariant: every table holds rows of its schema and every connection is at
\* a step of execute.
TypeOK ==
  /\ entities \in [Entities -> Record]
  /\ Len(journal) <= MaxSeq
  /\ \A i \in 1..Len(journal) : IsJournalRecord(journal[i])
  /\ Partial(commands, Ids, CommandRows)
  /\ Partial(nonces, Nonces, Ids)
  /\ Partial(obligations, RowIds, Ids)
  /\ owners \subseteq Rows
  /\ lock \in Conns \cup {NoConn}
  /\ pc \in [Conns -> Pcs]
  /\ command \in [Conns -> Command \cup {NoCommand}]

\* The write of an entity that is current: its last record in the journal.
Writes(e) == {i \in 1..Len(journal) : e \in DOMAIN journal[i].transition}
LastWrite(e, i) == i \in Writes(e) /\ \A j \in Writes(e) : j <= i

\* An answer of "committed" names the record of exactly the command it answers, and
\* a command refused for a consumed nonce or a stale version is in no record, now or
\* later, whoever else sends it: a caller may retry after a lost answer and trust
\* what it hears (execute looks the prior command up before nonce and versions).
AnswersAreTrue ==
  \A c \in Conns :
    /\ answer[c].result = "committed" =>
         /\ answer[c].seq \in 1..Len(journal)
         /\ journal[answer[c].seq].command = command[c]
    /\ answer[c].result \in Final =>
         \A i \in 1..Len(journal) : journal[i].command # command[c]

\* A record was decided from the state its own prefix of the journal built: the
\* version it declares for an entity, written or only read, is the one the last
\* record before it left, whatever ran between the read and the commit.
DecidedFromItsPrefix ==
  \A i \in 1..Len(journal) : \A e \in DOMAIN journal[i].before :
    LET earlier == {j \in Writes(e) : j < i}
    IN  \/ earlier = {} /\ journal[i].before[e] = 0
        \/ \E j \in earlier :
             /\ \A k \in earlier : k <= j
             /\ journal[i].before[e] = journal[j].after[e]

\* An entity under a declared owner was last written by one of the owner's
\* commands, in whatever order declaring and writing happened on whichever
\* connections (entity_owners is read inside every command's transaction and a
\* first declaration refuses an occupied selector).
OwnedByItsOwner ==
  \A e \in Entities : \A r \in owners \cup StandingRows :
    entities[e] # Absent /\ Matches(r, e, {entities[e].kind}) =>
      \E i \in Writes(e) : LastWrite(e, i) /\ journal[i].command.request.op \in r.commands

\* No transaction leaves work newly handed out in a project that takes none: not
\* one that paused before the lock, not one the same command pauses.
HandoutsNeedALiveProject ==
  [][\A e \in Entities : HandsOut(e, entities[e], entities'[e]) => TakesWork(entities', e)]_vars
=============================================================================
