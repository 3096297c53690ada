------------------------- MODULE ControlStoreProofs -------------------------
(***************************************************************************)
(* Proofs about the control store for any connections, entities, requests, *)
(* declarations and bound.  The properties of ControlStore are not         *)
(* inductive: what a commit writes is right because of what its connection *)
(* checked earlier, and that is still true because it holds the write      *)
(* lock.  The strengthening IInv says so, and says how the tables relate.  *)
(* The journal it writes rebuilds it.  The last sections are about the     *)
(* upgrade of the engine whose modules own the store's commands, and its   *)
(* UpgradeInv says what each step of setup may rely on.                    *)
(***************************************************************************)
EXTENDS ControlStorePromise, ControlReplay, EngineUpgrade, WellFoundedInduction, TLAPS

PartialFcns(T) == UNION {[S -> T] : S \in SUBSET Entities}
JournalRecords ==
  [seq : Nat, prev : (0..MaxSeq) \X (Command \cup {NoCommand}), command : Command,
   before : PartialFcns(Nat), after : PartialFcns(Nat), transition : PartialFcns(Record)]

Shape ==
  /\ entities \in [Entities -> Record]
  /\ journal \in Seq(JournalRecords)
  /\ Len(journal) <= MaxSeq
  /\ Partial(commands, Ids, CommandRows)
  /\ Partial(nonces, Nonces, Ids)
  /\ Partial(obligations, RowIds, Ids)
  /\ owners \subseteq Rows
  /\ lock \in Conns \cup {NoConn}
  /\ pc \in [Conns -> Pcs]
  /\ command \in [Conns -> Command \cup {NoCommand}]
  /\ seen = [c \in Conns |-> seen[c]]
  /\ answer = [c \in Conns |-> answer[c]]

\* Whoever is inside a transaction holds the write lock and carries a command.
Inside ==
  \A c \in Conns :
    /\ pc[c] \in {"open", "checked"} => lock = c
    /\ pc[c] # "idle" => command[c] \in Command

\* The problems a checked command does not have.
Clear(c) ==
  LET q == command[c].request
  IN  /\ ~Prior(c)
      /\ ~NonceProblem(q)
      /\ ~StaleProblem(command[c])
      /\ ~MissingProblem(q)
      /\ DOMAIN q.puts \subseteq q.depends
      /\ ~OwnershipProblem(q.op, Changes(q, entities), entities)
      /\ ~HandoutProblem(Changes(q, entities), entities)
      /\ q.rows \cap DOMAIN obligations = {}
      /\ Len(journal) < MaxSeq

\* What a transaction checked is still so.
Checked ==
  \A c \in Conns : pc[c] = "checked" =>
    /\ seen[c] = [before |-> entities, tip |-> Len(journal)]
    /\ Clear(c)

\* A record stands at its own sequence and carries the versions it wrote.
Numbered ==
  \A i \in 1..Len(journal) :
    /\ journal[i].seq = i
    /\ \A e \in DOMAIN journal[i].transition :
         /\ e \in DOMAIN journal[i].after
         /\ journal[i].after[e] = journal[i].transition[e].version

\* An entity is what its last record made it.
Current ==
  \A e \in Entities :
    /\ entities[e].version <= Len(journal)
    /\ \/ Writes(e) = {} /\ entities[e] = Absent
       \/ \E i \in Writes(e) : LastWrite(e, i) /\ entities[e] = journal[i].transition[e]

\* The commands and nonces tables index the journal.
Indexed ==
  /\ \A id \in DOMAIN commands :
       /\ commands[id].content.request.id = id
       /\ commands[id].seq \in 1..Len(journal)
       /\ journal[commands[id].seq].command = commands[id].content
  /\ \A i \in 1..Len(journal) : journal[i].command.request.id \in DOMAIN commands
  /\ \A c \in Conns : pc[c] = "committed" =>
       /\ command[c].request.id \in DOMAIN commands
       /\ commands[command[c].request.id].content = command[c]

\* Callers read versions that existed, so a mismatch never heals.
ReadBefore ==
  \A c \in Conns : command[c] \in Command =>
    \A e \in command[c].request.depends : command[c].expected[e] <= entities[e].version

\* Why an answer stays true.
Answered ==
  \A c \in Conns :
    /\ answer[c].result # "none" => command[c] \in Command
    /\ answer[c].result = "nonce_consumed" => command[c].request.nonce \in DOMAIN nonces
    /\ answer[c].result = "stale_version" =>
         \E e \in command[c].request.depends : command[c].expected[e] < entities[e].version

IInv ==
  /\ Shape /\ Inside /\ Checked /\ Numbered /\ Current /\ Indexed /\ ReadBefore
  /\ Answered /\ AnswersAreTrue /\ DecidedFromItsPrefix

-----------------------------------------------------------------------------
(* Lemmas about data.                                                      *)

\* A formed command holds a request and a version for each entity it depends on.
LEMMA CommandShape ==
  ASSUME NEW cmd \in Command
  PROVE  /\ cmd.request \in Requests
         /\ cmd.request.depends \subseteq Entities
         /\ DOMAIN cmd.request.puts \subseteq Entities
         /\ cmd.request.puts \in [DOMAIN cmd.request.puts -> [kind : Kinds, value : Values]]
         /\ cmd.request.id \in Ids
         /\ cmd.request.nonce \in Nonces
         /\ cmd.request.rows \subseteq RowIds
         /\ cmd.expected \in [cmd.request.depends -> 0..MaxSeq]
<1>1. PICK q \in Requests :
        cmd \in {[request |-> q, expected |-> v] : v \in [q.depends -> 0..MaxSeq]}
  BY DEF Command
<1>2. PICK v \in [q.depends -> 0..MaxSeq] : cmd = [request |-> q, expected |-> v]
  BY <1>1
<1>3. q.depends \subseteq Entities /\ DOMAIN q.puts \subseteq Entities
      /\ q.puts \in [DOMAIN q.puts -> [kind : Kinds, value : Values]]
  BY StoreAssumption
<1>4. q.id \in Ids /\ q.nonce \in Nonces /\ q.rows \subseteq RowIds
  BY DEF Ids, Nonces, RowIds
<1>5. cmd.request = q /\ cmd.expected = v
  BY <1>2
<1> QED BY <1>5, <1>3, <1>4

\* No command is the absence of one.
LEMMA NoCommandIsNone == NoCommand \notin Command
<1> SUFFICES ASSUME NoCommand \in Command PROVE FALSE
  OBVIOUS
<1>1. NoCommand.request \in Requests
  BY CommandShape
<1>2. NoCommand.request = NoRequest
  BY DEF NoCommand
<1> QED BY <1>1, <1>2, StoreAssumption

\* Appending a record keeps the earlier ones and puts the new one last.
LEMMA AppendFacts ==
  ASSUME NEW S, NEW s \in Seq(S), NEW x \in S
  PROVE  /\ Append(s, x) \in Seq(S)
         /\ Len(Append(s, x)) = Len(s) + 1
         /\ Append(s, x)[Len(s) + 1] = x
         /\ \A i \in 1..Len(s) : Append(s, x)[i] = s[i]
         /\ Len(s) \in Nat
OBVIOUS

\* What a checked command writes: the next version of each entity it names.
LEMMA ChangesShape ==
  ASSUME NEW cmd \in Command, NEW before \in [Entities -> Record],
         cmd.request.op = "retire_entity" =>
           \A e \in DOMAIN cmd.request.puts : before[e] # Absent
  PROVE  /\ DOMAIN Changes(cmd.request, before) = DOMAIN cmd.request.puts
         /\ Changes(cmd.request, before) \in [DOMAIN cmd.request.puts -> Record]
         /\ \A e \in DOMAIN cmd.request.puts :
              Changes(cmd.request, before)[e].version = before[e].version + 1
<1> DEFINE puts == cmd.request.puts
<1>1. DOMAIN puts \subseteq Entities /\ puts \in [DOMAIN puts -> [kind : Kinds, value : Values]]
  BY CommandShape
<1>2. ASSUME NEW e \in DOMAIN puts
      PROVE  /\ before[e].version + 1 \in Nat \ {0}
             /\ NewData(cmd.request, e, before).kind \in Kinds
             /\ NewData(cmd.request, e, before).data \in Datum
  <2>1. before[e] \in Record /\ e \in Entities
    BY <1>1, <1>2
  <2>2. before[e].version \in Nat
    BY <2>1 DEF Record, Absent
  <2>3. CASE cmd.request.op = "retire_entity"
    <3>1. before[e] \in [version : Nat \ {0}, kind : Kinds, data : Datum]
      BY <2>1, <2>3, <1>2 DEF Record
    <3> QED BY <3>1, <2>2, <2>3 DEF NewData, Datum
  <2>4. CASE cmd.request.op # "retire_entity"
    <3>1. puts[e] \in [kind : Kinds, value : Values]
      BY <1>1, <1>2
    <3> QED BY <3>1, <2>2, <2>4 DEF NewData, Datum
  <2> QED BY <2>3, <2>4
<1>3. ASSUME NEW e \in DOMAIN puts
      PROVE  /\ Changes(cmd.request, before)[e] \in Record
             /\ Changes(cmd.request, before)[e].version = before[e].version + 1
  BY <1>2, <1>3 DEF Changes, Record
<1> QED BY <1>3 DEF Changes

\* A command refused for its nonce or its versions has that problem, and one that
\* is not refused has none.
LEMMA RefusalFacts ==
  ASSUME NEW c \in Conns
  PROVE  /\ Refusal(c) = "nonce_consumed" => NonceProblem(command[c].request)
         /\ Refusal(c) = "stale_version" => StaleProblem(command[c])
         /\ Refusal(c) = "none" =>
              LET q == command[c].request
              IN  /\ ~NonceProblem(q)
                  /\ ~StaleProblem(command[c])
                  /\ ~MissingProblem(q)
                  /\ DOMAIN q.puts \subseteq q.depends
                  /\ ~OwnershipProblem(q.op, Changes(q, entities), entities)
                  /\ ~HandoutProblem(Changes(q, entities), entities)
                  /\ q.rows \cap DOMAIN obligations = {}
         /\ Refusal(c) # "committed"
BY DEF Refusal

-----------------------------------------------------------------------------
(* Frames: what a step that writes no table leaves as it was.              *)

\* The tables alone say what the journal and the rows have to do with each other.
LEMMA TablesFrame ==
  ASSUME Numbered, Current, DecidedFromItsPrefix, UNCHANGED tables
  PROVE  Numbered' /\ Current' /\ DecidedFromItsPrefix'
BY DEF Numbered, Current, DecidedFromItsPrefix, LastWrite, Writes, tables

\* A transaction stays checked while nobody writes and it does not move.
LEMMA CheckedFrame ==
  ASSUME Checked, NEW d \in Conns, pc[d] = "checked",
         UNCHANGED <<entities, journal, commands, nonces, obligations, owners>>,
         command'[d] = command[d], seen'[d] = seen[d]
  PROVE  /\ seen'[d] = [before |-> entities', tip |-> Len(journal')]
         /\ Clear(d)'
<1>1. seen[d] = [before |-> entities, tip |-> Len(journal)] /\ Clear(d)
  BY DEF Checked
<1>2. Clear(d)'
  BY <1>1 DEF Clear, Prior, NonceProblem, StaleProblem, MissingProblem, OwnershipProblem
<1> QED BY <1>1, <1>2

-----------------------------------------------------------------------------
(* The strengthening holds initially.                                      *)

\* The store starts empty, with every process idle and nothing decided.
LEMMA InitIInv == Init => IInv
<1> SUFFICES ASSUME Init PROVE IInv
  OBVIOUS
<1> USE DEF Init
<1>1. Shape
  <2>1. Len(journal) = 0 /\ journal \in Seq(JournalRecords) /\ MaxSeq \in Nat
    BY StoreAssumption
  <2>2. entities \in [Entities -> Record]
    BY DEF Record
  <2>3. NoRows \in [{} -> CommandRows] /\ NoRows \in [{} -> Ids] /\ DOMAIN NoRows = {}
    BY DEF NoRows
  <2> QED BY <2>1, <2>2, <2>3 DEF Shape, Partial, Pcs
<1>2. Inside /\ Checked
  BY DEF Inside, Checked
<1>3. Len(journal) = 0
  OBVIOUS
<1>4. Numbered /\ DecidedFromItsPrefix
  BY <1>3 DEF Numbered, DecidedFromItsPrefix
<1>5. Current
  BY <1>3 DEF Current, Writes, Absent
<1>6. Indexed
  BY <1>3 DEF Indexed, NoRows
<1>7. ReadBefore /\ Answered /\ AnswersAreTrue
  BY NoCommandIsNone DEF ReadBefore, Answered, AnswersAreTrue, NoAnswer, Final
<1> QED BY <1>1, <1>2, <1>4, <1>5, <1>6, <1>7 DEF IInv

-----------------------------------------------------------------------------
(* The steps that write no table.                                          *)

\* A formed command declares versions that are current when it is formed.
LEMMA FormKeeps ==
  ASSUME IInv, NEW c \in Conns, NEW q \in Requests, Form(c, q)
  PROVE  IInv'
<1> DEFINE v == [e \in q.depends |-> entities[e].version]
           cmd == [request |-> q, expected |-> v]
<1> USE DEF IInv
<1>1. /\ command' = [command EXCEPT ![c] = cmd]
      /\ pc' = [pc EXCEPT ![c] = "formed"]
      /\ answer' = [answer EXCEPT ![c] = NoAnswer]
      /\ UNCHANGED <<entities, journal, commands, nonces, obligations, owners, lock, seen>>
  BY DEF Form, Tell
<1>2. cmd \in Command
  <2>1. q.depends \subseteq Entities
    BY StoreAssumption
  <2>2. ASSUME NEW e \in q.depends PROVE entities[e].version \in 0..MaxSeq
    <3>1. entities[e] \in Record /\ entities[e].version <= Len(journal)
      BY <2>1 DEF Shape, Current
    <3>2. entities[e].version \in Nat
      BY <3>1 DEF Record, Absent
    <3>3. Len(journal) <= MaxSeq /\ Len(journal) \in Nat
      BY DEF Shape
    <3> QED BY <3>1, <3>2, <3>3, StoreAssumption
  <2>3. v \in [q.depends -> 0..MaxSeq]
    BY <2>2
  <2>4. cmd \in {[request |-> q, expected |-> w] : w \in [q.depends -> 0..MaxSeq]}
    BY <2>3
  <2> HIDE DEF cmd
  <2> QED BY <2>4 DEF Command
<1>3. Shape'
  BY <1>1, <1>2 DEF Shape, Pcs, Partial
<1>4. Inside'
  BY <1>1, <1>2 DEF Inside, Shape
<1>5. Checked'
  BY <1>1, CheckedFrame DEF Checked, Shape
<1>6. Numbered' /\ Current' /\ DecidedFromItsPrefix'
  BY <1>1, TablesFrame DEF tables
<1>7. Indexed'
  BY <1>1 DEF Indexed, Shape
<1>8. ReadBefore'
  <2> SUFFICES ASSUME NEW d \in Conns, command'[d] \in Command,
                      NEW e \in command'[d].request.depends
               PROVE  command'[d].expected[e] <= entities[e].version
    BY <1>1 DEF ReadBefore
  <2>1. CASE d = c
    <3>1. command'[d] = cmd
      BY <1>1, <2>1 DEF Shape
    <3>2. entities[e] \in Record
      BY <3>1, StoreAssumption DEF Shape
    <3> QED BY <3>1, <3>2 DEF Record, Absent
  <2>2. CASE d # c
    BY <1>1, <2>2 DEF ReadBefore, Shape
  <2> QED BY <2>1, <2>2
<1>9. Answered' /\ AnswersAreTrue'
  BY <1>1 DEF Answered, AnswersAreTrue, Shape, NoAnswer, Final
<1> QED BY <1>3, <1>4, <1>5, <1>6, <1>7, <1>8, <1>9

\* A client that sends its request again changes nothing the store rests on.
LEMMA ResendKeeps ==
  ASSUME IInv, NEW c \in Conns, Resend(c)
  PROVE  IInv'
<1> USE DEF IInv
<1>1. /\ command[c] # NoCommand
      /\ pc' = [pc EXCEPT ![c] = "formed"]
      /\ answer' = [answer EXCEPT ![c] = NoAnswer]
      /\ UNCHANGED <<entities, journal, commands, nonces, obligations, owners, lock,
                     command, seen>>
  BY DEF Resend, Tell
<1>2. Shape'
  BY <1>1 DEF Shape, Pcs, Partial
<1>3. Inside'
  BY <1>1 DEF Inside, Shape
<1>4. Checked'
  BY <1>1, CheckedFrame DEF Checked, Shape
<1>5. Numbered' /\ Current' /\ DecidedFromItsPrefix'
  BY <1>1, TablesFrame DEF tables
<1>6. Indexed' /\ ReadBefore'
  BY <1>1 DEF Indexed, ReadBefore, Shape
<1>7. Answered' /\ AnswersAreTrue'
  BY <1>1 DEF Answered, AnswersAreTrue, Shape, NoAnswer, Final
<1> QED BY <1>2, <1>3, <1>4, <1>5, <1>6, <1>7

\* BEGIN IMMEDIATE opens the one write transaction on the store as it is.
LEMMA BeginKeeps ==
  ASSUME IInv, NEW c \in Conns, Begin(c)
  PROVE  IInv'
<1> USE DEF IInv
<1>1. /\ lock = NoConn /\ lock' = c /\ pc[c] = "formed"
      /\ pc' = [pc EXCEPT ![c] = "open"]
      /\ UNCHANGED <<entities, journal, commands, nonces, obligations, owners, command,
                     seen, answer>>
  BY DEF Begin
<1>2. Shape'
  BY <1>1 DEF Shape, Pcs, Partial
<1>3. Inside'
  BY <1>1, StoreAssumption DEF Inside, Shape
<1>4. Checked'
  BY <1>1, CheckedFrame DEF Checked, Shape
<1>5. Numbered' /\ Current' /\ DecidedFromItsPrefix'
  BY <1>1, TablesFrame DEF tables
<1>6. Indexed' /\ ReadBefore'
  BY <1>1 DEF Indexed, ReadBefore, Shape
<1>7. Answered' /\ AnswersAreTrue'
  BY <1>1 DEF Answered, AnswersAreTrue
<1> QED BY <1>2, <1>3, <1>4, <1>5, <1>6, <1>7

\* A rolled-back transaction writes nothing: what is left to show is that the answer
\* it gives is true.
LEMMA RollbackKeeps ==
  ASSUME IInv, NEW c \in Conns, pc[c] = "open", NEW a, Rollback(c, a),
         a.result = "nonce_consumed" => NonceProblem(command[c].request),
         a.result = "stale_version" => StaleProblem(command[c]),
         a.result \in Final => ~Prior(c),
         a.result = "committed" =>
           /\ a.seq \in 1..Len(journal)
           /\ journal[a.seq].command = command[c]
  PROVE  IInv'
<1> USE DEF IInv
<1>1. /\ lock' = NoConn
      /\ pc' = [pc EXCEPT ![c] = "idle"]
      /\ answer' = [answer EXCEPT ![c] = a]
      /\ UNCHANGED <<entities, journal, commands, nonces, obligations, owners, command, seen>>
  BY DEF Rollback, Tell
<1>2. command[c] \in Command /\ lock = c
  BY DEF Inside
<1>3. Shape'
  BY <1>1 DEF Shape, Pcs, Partial
<1>4. Inside'
  BY <1>1, <1>2 DEF Inside, Shape
<1>5. Checked'
  BY <1>1, CheckedFrame DEF Checked, Shape
<1>6. Numbered' /\ Current' /\ DecidedFromItsPrefix'
  BY <1>1, TablesFrame DEF tables
<1>7. Indexed' /\ ReadBefore'
  BY <1>1 DEF Indexed, ReadBefore, Shape
<1>8. Answered'
  <2>1. a.result = "nonce_consumed" => command[c].request.nonce \in DOMAIN nonces
    BY DEF NonceProblem
  <2>2. a.result = "stale_version" =>
          \E e \in command[c].request.depends : command[c].expected[e] < entities[e].version
    <3> SUFFICES ASSUME a.result = "stale_version"
                 PROVE  \E e \in command[c].request.depends :
                          command[c].expected[e] < entities[e].version
      OBVIOUS
    <3>1. PICK e \in command[c].request.depends : entities[e].version # command[c].expected[e]
      BY DEF StaleProblem
    <3>2. command[c].expected[e] <= entities[e].version
      BY <1>2, <3>1 DEF ReadBefore
    <3>3. entities[e] \in Record /\ command[c].expected[e] \in 0..MaxSeq
      BY <1>2, <3>1, CommandShape DEF Shape
    <3>4. entities[e].version \in Nat /\ command[c].expected[e] \in Nat
      BY <3>3, StoreAssumption DEF Record, Absent
    <3> QED BY <3>1, <3>2, <3>4
  <2> QED BY <1>1, <1>2, <2>1, <2>2 DEF Answered, Shape
<1>9. AnswersAreTrue'
  <2>1. a.result \in Final => \A i \in 1..Len(journal) : journal[i].command # command[c]
    BY DEF Prior, Indexed
  <2> QED BY <1>1, <2>1 DEF AnswersAreTrue, Shape
<1> QED BY <1>3, <1>4, <1>5, <1>6, <1>7, <1>8, <1>9

\* Answering a command that was decided before repeats the recorded answer.
LEMMA AnswerPriorKeeps ==
  ASSUME IInv, NEW c \in Conns, AnswerPrior(c)
  PROVE  IInv'
<1> DEFINE prior == commands[command[c].request.id]
<1>1. pc[c] = "open" /\ Prior(c)
  BY DEF AnswerPrior
<1>2. CASE prior.content = command[c]
  <2>1. Rollback(c, [result |-> "committed", seq |-> prior.seq])
    BY <1>2 DEF AnswerPrior
  <2>2. prior.seq \in 1..Len(journal) /\ journal[prior.seq].command = command[c]
    BY <1>1, <1>2 DEF IInv, Indexed, Prior
  <2> HIDE DEF prior
  <2> QED BY <1>1, <2>1, <2>2, RollbackKeeps DEF Final
<1>3. CASE prior.content # command[c]
  <2>1. Rollback(c, [result |-> "command_content_conflict", seq |-> 0])
    BY <1>3 DEF AnswerPrior
  <2> HIDE DEF prior
  <2> QED BY <1>1, <2>1, RollbackKeeps DEF Final
<1> QED BY <1>2, <1>3

\* A refusal rolls back: the store is left as the transaction found it.
LEMMA RefuseKeeps ==
  ASSUME IInv, NEW c \in Conns, Refuse(c)
  PROVE  IInv'
<1>1. pc[c] = "open" /\ ~Prior(c) /\ Rollback(c, [result |-> Refusal(c), seq |-> 0])
  BY DEF Refuse
<1> QED BY <1>1, RefusalFacts, RollbackKeeps

\* What a transaction checks is what its refusals were about.
LEMMA CheckKeeps ==
  ASSUME IInv, NEW c \in Conns, Check(c)
  PROVE  IInv'
<1> USE DEF IInv
<1>1. /\ pc[c] = "open" /\ ~Prior(c) /\ Refusal(c) = "none" /\ Len(journal) < MaxSeq
      /\ seen' = [seen EXCEPT ![c] = [before |-> entities, tip |-> Len(journal)]]
      /\ pc' = [pc EXCEPT ![c] = "checked"]
      /\ UNCHANGED <<entities, journal, commands, nonces, obligations, owners, lock,
                     command, answer>>
  BY DEF Check
<1>2. Shape'
  BY <1>1 DEF Shape, Pcs, Partial
<1>3. Inside'
  BY <1>1 DEF Inside, Shape
<1>4. Checked'
  <2> SUFFICES ASSUME NEW d \in Conns, pc'[d] = "checked"
               PROVE  seen'[d] = [before |-> entities', tip |-> Len(journal')] /\ Clear(d)'
    BY DEF Checked
  <2>1. CASE d = c
    <3>1. Clear(c)
      BY <1>1, RefusalFacts DEF Clear
    <3>2. Clear(c)'
      BY <1>1, <3>1 DEF Clear, Prior, NonceProblem, StaleProblem, MissingProblem,
                        OwnershipProblem
    <3> QED BY <1>1, <2>1, <3>2 DEF Shape
  <2>2. CASE d # c
    BY <1>1, <2>2, CheckedFrame DEF Shape
  <2> QED BY <2>1, <2>2
<1>5. Numbered' /\ Current' /\ DecidedFromItsPrefix'
  BY <1>1, TablesFrame DEF tables
<1>6. Indexed' /\ ReadBefore'
  BY <1>1 DEF Indexed, ReadBefore, Shape
<1>7. Answered' /\ AnswersAreTrue'
  BY <1>1 DEF Answered, AnswersAreTrue
<1> QED BY <1>2, <1>3, <1>4, <1>5, <1>6, <1>7

\* A reply, delivered or lost, moves only its client.
LEMMA ReplyKeeps ==
  ASSUME IInv, NEW c \in Conns, Reply(c)
  PROVE  IInv'
<1> USE DEF IInv
<1> DEFINE a == [result |-> "committed", seq |-> commands[command[c].request.id].seq]
<1>1. /\ pc[c] = "committed"
      /\ pc' = [pc EXCEPT ![c] = "idle"]
      /\ answer' = [answer EXCEPT ![c] = a]
      /\ UNCHANGED <<entities, journal, commands, nonces, obligations, owners, lock,
                     command, seen>>
  BY DEF Reply, Tell
<1>2. command[c] \in Command /\ a.seq \in 1..Len(journal) /\ journal[a.seq].command = command[c]
  BY <1>1 DEF Indexed, Inside
<1>3. a.result = "committed"
  OBVIOUS
<1> HIDE DEF a
<1>4. Shape'
  BY <1>1 DEF Shape, Pcs, Partial
<1>5. Inside'
  BY <1>1 DEF Inside, Shape
<1>6. Checked'
  BY <1>1, CheckedFrame DEF Checked, Shape
<1>7. Numbered' /\ Current' /\ DecidedFromItsPrefix'
  BY <1>1, TablesFrame DEF tables
<1>8. Indexed' /\ ReadBefore'
  BY <1>1 DEF Indexed, ReadBefore, Shape
<1>9. Answered' /\ AnswersAreTrue'
  BY <1>1, <1>2, <1>3 DEF Answered, AnswersAreTrue, Shape, Final
<1> QED BY <1>4, <1>5, <1>6, <1>7, <1>8, <1>9

\* A crash takes the open transaction and leaves what was committed.
LEMMA CrashKeeps ==
  ASSUME IInv, NEW c \in Conns, Crash(c)
  PROVE  IInv'
<1> USE DEF IInv
<1>1. /\ pc' = [pc EXCEPT ![c] = "idle"]
      /\ lock' = IF lock = c THEN NoConn ELSE lock
      /\ seen' = [seen EXCEPT ![c] = Nothing]
      /\ UNCHANGED <<entities, journal, commands, nonces, obligations, owners, command, answer>>
  BY DEF Crash
<1>2. Shape'
  BY <1>1 DEF Shape, Pcs, Partial
<1>3. Inside'
  BY <1>1 DEF Inside, Shape
<1>4. Checked'
  BY <1>1, CheckedFrame DEF Checked, Shape
<1>5. Numbered' /\ Current' /\ DecidedFromItsPrefix'
  BY <1>1, TablesFrame DEF tables
<1>6. Indexed' /\ ReadBefore'
  BY <1>1 DEF Indexed, ReadBefore, Shape
<1>7. Answered' /\ AnswersAreTrue'
  BY <1>1 DEF Answered, AnswersAreTrue
<1> QED BY <1>2, <1>3, <1>4, <1>5, <1>6, <1>7

\* Nobody is inside a transaction while owners are declared.
LEMMA DeclareOwnersKeeps ==
  ASSUME IInv, NEW rows \in Declarations, DeclareOwners(rows)
  PROVE  IInv'
<1> USE DEF IInv
<1>1. /\ lock = NoConn
      /\ owners' = rows \cup {p \in owners : \A r \in rows : ~SameSelector(r, p)}
      /\ UNCHANGED <<entities, journal, commands, nonces, obligations, lock, pc, command,
                     seen, answer>>
  BY DEF DeclareOwners
<1>2. owners' \subseteq Rows
  BY <1>1 DEF Shape, Rows
<1>3. Shape'
  BY <1>1, <1>2 DEF Shape, Partial
<1>4. Inside'
  BY <1>1 DEF Inside
<1>5. \A d \in Conns : pc[d] # "checked"
  BY <1>1, StoreAssumption DEF Inside
<1>6. Checked'
  BY <1>1, <1>5 DEF Checked
<1>7. Numbered' /\ Current' /\ DecidedFromItsPrefix'
  BY <1>1, TablesFrame DEF tables
<1>8. Indexed' /\ ReadBefore' /\ Answered' /\ AnswersAreTrue'
  BY <1>1 DEF Indexed, ReadBefore, Answered, AnswersAreTrue
<1> QED BY <1>3, <1>4, <1>6, <1>7, <1>8

-----------------------------------------------------------------------------
(* The commit.                                                             *)

\* The record a checked command is about to append, and the rows it writes: next
\* versions of entities the command declared.
LEMMA RecordFacts ==
  ASSUME IInv, NEW c \in Conns, pc[c] = "checked"
  PROVE  LET rec == JournalRecord(c)
             q == command[c].request
         IN  /\ rec \in JournalRecords
             /\ rec.seq = Len(journal) + 1
             /\ rec.prev = PrevDigest(Len(journal))
             /\ rec.command = command[c]
             /\ rec.transition = Changes(q, entities)
             /\ DOMAIN rec.transition = DOMAIN q.puts
             /\ DOMAIN rec.transition \subseteq DOMAIN rec.after
             /\ DOMAIN rec.before \subseteq Entities
             /\ DOMAIN rec.after = DOMAIN rec.before
             /\ \A e \in DOMAIN rec.before :
                  /\ rec.before[e] = entities[e].version
                  /\ e \notin DOMAIN rec.transition => rec.after[e] = entities[e].version
             /\ \A e \in DOMAIN rec.transition :
                  /\ e \in Entities
                  /\ rec.transition[e] \in Record
                  /\ rec.transition[e].version = entities[e].version + 1
                  /\ rec.after[e] = rec.transition[e].version
<1> DEFINE rec == JournalRecord(c)
           q == command[c].request
           changes == Changes(q, entities)
           versioned == {e \in q.depends : entities[e] # Absent} \cup DOMAIN q.puts
<1> USE DEF IInv
<1>1. /\ command[c] \in Command
      /\ seen[c] = [before |-> entities, tip |-> Len(journal)]
      /\ Clear(c)
      /\ entities \in [Entities -> Record]
  BY DEF Inside, Checked, Shape
<1>2. /\ DOMAIN changes = DOMAIN q.puts
      /\ changes \in [DOMAIN q.puts -> Record]
      /\ \A e \in DOMAIN q.puts : changes[e].version = entities[e].version + 1
  <2>1. q.op = "retire_entity" => \A e \in DOMAIN q.puts : entities[e] # Absent
    BY <1>1 DEF Clear, MissingProblem
  <2> QED BY <1>1, <2>1, ChangesShape
<1> HIDE DEF changes
<1>3. q.depends \subseteq Entities /\ DOMAIN q.puts \subseteq Entities
  BY <1>1, CommandShape
<1>4. rec = [seq |-> Len(journal) + 1,
             prev |-> PrevDigest(Len(journal)),
             command |-> command[c],
             before |-> [e \in versioned |-> entities[e].version],
             after |-> [e \in versioned |->
               IF e \in DOMAIN changes THEN changes[e].version ELSE entities[e].version],
             transition |-> changes]
  BY <1>1 DEF JournalRecord, changes
<1>5. versioned \subseteq Entities /\ DOMAIN q.puts \subseteq versioned
  BY <1>3
<1>6. \A r \in Record : r.version \in Nat
  BY DEF Record, Absent
<1>7. PrevDigest(Len(journal)) \in (0..MaxSeq) \X (Command \cup {NoCommand})
  <2>1. Len(journal) \in Nat /\ Len(journal) <= MaxSeq
    BY DEF Shape
  <2>2. CASE Len(journal) = 0
    BY <2>2, StoreAssumption DEF PrevDigest, Genesis
  <2>3. CASE Len(journal) # 0
    <3>1. Len(journal) \in 1..Len(journal)
      BY <2>1, <2>3
    <3>2. journal[Len(journal)].seq = Len(journal)
      BY <3>1 DEF Numbered
    <3>3. journal[Len(journal)].command \in Command
      <4>1. journal[Len(journal)] \in JournalRecords
        BY <3>1 DEF Shape
      <4> QED BY <4>1 DEF JournalRecords
    <3>4. Len(journal) \in 0..MaxSeq
      BY <2>1, StoreAssumption
    <3> QED BY <2>3, <3>2, <3>3, <3>4 DEF PrevDigest, RecordDigest
  <2> QED BY <2>2, <2>3
<1> HIDE DEF versioned
<1>8. /\ [e \in versioned |-> entities[e].version] \in PartialFcns(Nat)
      /\ [e \in versioned |-> IF e \in DOMAIN changes THEN changes[e].version
                                                     ELSE entities[e].version] \in PartialFcns(Nat)
      /\ changes \in PartialFcns(Record)
  <2> DEFINE before == [e \in versioned |-> entities[e].version]
             after == [e \in versioned |-> IF e \in DOMAIN changes THEN changes[e].version
                                                                  ELSE entities[e].version]
  <2>1. before \in [versioned -> Nat]
    BY <1>1, <1>5, <1>6
  <2>2. after \in [versioned -> Nat]
    BY <1>1, <1>2, <1>5, <1>6
  <2>3. [versioned -> Nat] \in {[S -> Nat] : S \in SUBSET Entities}
    BY <1>5
  <2>4. [DOMAIN q.puts -> Record] \in {[S -> Record] : S \in SUBSET Entities}
    BY <1>3
  <2> HIDE DEF before, after
  <2>5. before \in PartialFcns(Nat) /\ after \in PartialFcns(Nat)
    BY <2>1, <2>2, <2>3 DEF PartialFcns
  <2>6. changes \in PartialFcns(Record)
    BY <1>2, <2>4 DEF PartialFcns
  <2> QED BY <2>5, <2>6 DEF before, after
<1>9. rec \in JournalRecords
  <2>1. Len(journal) + 1 \in Nat
    BY DEF Shape
  <2> QED BY <1>1, <1>4, <1>7, <1>8, <2>1 DEF JournalRecords
<1>10. rec.transition = Changes(q, entities)
  BY <1>4 DEF changes
<1> QED BY <1>1, <1>2, <1>3, <1>4, <1>5, <1>9, <1>10

\* What a commit does, with everything its connection checked still so.
LEMMA CommitFacts ==
  ASSUME IInv, NEW c \in Conns, Commit(c)
  PROVE  LET rec == JournalRecord(c)
             q == command[c].request
             n == Len(journal)
         IN  /\ pc[c] = "checked" /\ lock = c /\ command[c] \in Command /\ Clear(c)
             /\ \A d \in Conns : pc[d] = "checked" => d = c
             /\ journal' \in Seq(JournalRecords)
             /\ n \in Nat /\ n < MaxSeq /\ Len(journal') = n + 1
             /\ journal'[n + 1] = rec
             /\ \A i \in 1..n : journal'[i] = journal[i]
             /\ entities' = [e \in Entities |->
                  IF e \in DOMAIN rec.transition THEN rec.transition[e] ELSE entities[e]]
             /\ commands' = Insert(commands, q.id, [content |-> command[c], seq |-> n + 1])
             /\ nonces' = Insert(nonces, q.nonce, q.id)
             /\ obligations' = [r \in DOMAIN obligations \cup q.rows |->
                  IF r \in q.rows THEN q.id ELSE obligations[r]]
             /\ lock' = NoConn
             /\ pc' = [pc EXCEPT ![c] = "committed"]
             /\ seen' = [seen EXCEPT ![c] = Nothing]
             /\ UNCHANGED <<owners, command, answer>>
<1> DEFINE rec == JournalRecord(c)
           q == command[c].request
<1>1. /\ pc[c] = "checked"
      /\ entities' = [e \in Entities |->
           IF e \in DOMAIN rec.transition THEN rec.transition[e] ELSE entities[e]]
      /\ journal' = Append(journal, rec)
      /\ commands' = Insert(commands, q.id, [content |-> command[c], seq |-> rec.seq])
      /\ nonces' = Insert(nonces, q.nonce, q.id)
      /\ obligations' = [r \in DOMAIN obligations \cup q.rows |->
           IF r \in q.rows THEN q.id ELSE obligations[r]]
      /\ lock' = NoConn
      /\ pc' = [pc EXCEPT ![c] = "committed"]
      /\ seen' = [seen EXCEPT ![c] = Nothing]
      /\ UNCHANGED <<owners, command, answer>>
  BY DEF Commit
<1>2. rec \in JournalRecords /\ rec.seq = Len(journal) + 1
  BY <1>1, RecordFacts
<1> HIDE DEF rec
<1>3. journal \in Seq(JournalRecords)
  BY DEF IInv, Shape
<1>4. /\ journal' \in Seq(JournalRecords)
      /\ Len(journal) \in Nat /\ Len(journal') = Len(journal) + 1
      /\ journal'[Len(journal) + 1] = rec
      /\ \A i \in 1..Len(journal) : journal'[i] = journal[i]
  BY <1>1, <1>2, <1>3, AppendFacts
<1>5. Clear(c) /\ lock = c /\ command[c] \in Command
  BY <1>1 DEF IInv, Checked, Inside
<1>6. Len(journal) < MaxSeq
  BY <1>5 DEF Clear
<1>7. \A d \in Conns : pc[d] = "checked" => d = c
  BY <1>5 DEF IInv, Inside
<1> QED BY <1>1, <1>2, <1>4, <1>5, <1>6, <1>7 DEF rec

\* A commit only adds a write: earlier records keep their places, and the new record
\* is the last writer of exactly what it names.
LEMMA CommitWrites ==
  ASSUME IInv, NEW c \in Conns, Commit(c), NEW e \in Entities
  PROVE  LET n == Len(journal)
         IN  /\ Writes(e) \subseteq 1..n
             /\ e \in DOMAIN JournalRecord(c).transition =>
                  Writes(e)' = Writes(e) \cup {n + 1}
             /\ e \notin DOMAIN JournalRecord(c).transition =>
                  Writes(e)' = Writes(e) /\ \A i : LastWrite(e, i) => LastWrite(e, i)'
<1> DEFINE rec == JournalRecord(c)
           n == Len(journal)
<1>1. /\ n \in Nat /\ Len(journal') = n + 1 /\ journal'[n + 1] = rec
      /\ \A i \in 1..n : journal'[i] = journal[i]
  BY CommitFacts
<1> HIDE DEF rec
<1>2. Writes(e) \subseteq 1..n
  BY DEF Writes
<1>3. ASSUME e \in DOMAIN rec.transition
      PROVE  Writes(e)' = Writes(e) \cup {n + 1}
  BY <1>1, <1>3 DEF Writes
<1>4. ASSUME e \notin DOMAIN rec.transition
      PROVE  Writes(e)' = Writes(e) /\ \A i : LastWrite(e, i) => LastWrite(e, i)'
  <2>1. Writes(e)' = Writes(e)
    BY <1>1, <1>4 DEF Writes
  <2> QED BY <2>1 DEF LastWrite
<1> QED BY <1>2, <1>3, <1>4 DEF rec

\* Versions never go back.
LEMMA CommitVersions ==
  ASSUME IInv, NEW c \in Conns, Commit(c), NEW e \in Entities
  PROVE  /\ entities[e].version \in Nat /\ entities'[e].version \in Nat
         /\ entities[e].version <= entities'[e].version
         /\ entities'[e].version <= entities[e].version + 1
<1> DEFINE rec == JournalRecord(c)
<1>1. pc[c] = "checked" /\ entities' = [x \in Entities |->
        IF x \in DOMAIN rec.transition THEN rec.transition[x] ELSE entities[x]]
  BY CommitFacts
<1>2. e \in DOMAIN rec.transition => rec.transition[e].version = entities[e].version + 1
  BY <1>1, RecordFacts
<1>3. entities[e].version \in Nat
  BY DEF IInv, Shape, Record, Absent
<1> HIDE DEF rec
<1> QED BY <1>1, <1>2, <1>3

\* A commit appends one journal entry whose decision follows from its prefix.
LEMMA CommitKeeps ==
  ASSUME IInv, NEW c \in Conns, Commit(c)
  PROVE  IInv'
<1> DEFINE rec == JournalRecord(c)
           q == command[c].request
           n == Len(journal)
<1> USE DEF IInv
<1>1. /\ pc[c] = "checked" /\ lock = c /\ command[c] \in Command /\ Clear(c)
      /\ \A d \in Conns : pc[d] = "checked" => d = c
      /\ journal' \in Seq(JournalRecords)
      /\ n \in Nat /\ n < MaxSeq /\ Len(journal') = n + 1
      /\ journal'[n + 1] = rec
      /\ \A i \in 1..n : journal'[i] = journal[i]
      /\ entities' = [e \in Entities |->
           IF e \in DOMAIN rec.transition THEN rec.transition[e] ELSE entities[e]]
      /\ commands' = Insert(commands, q.id, [content |-> command[c], seq |-> n + 1])
      /\ nonces' = Insert(nonces, q.nonce, q.id)
      /\ obligations' = [r \in DOMAIN obligations \cup q.rows |->
           IF r \in q.rows THEN q.id ELSE obligations[r]]
      /\ lock' = NoConn
      /\ pc' = [pc EXCEPT ![c] = "committed"]
      /\ seen' = [seen EXCEPT ![c] = Nothing]
      /\ UNCHANGED <<owners, command, answer>>
  BY CommitFacts
<1>2. /\ rec \in JournalRecords
      /\ rec.seq = n + 1 /\ rec.command = command[c]
      /\ DOMAIN rec.transition \subseteq DOMAIN rec.after
      /\ DOMAIN rec.before \subseteq Entities
      /\ \A e \in DOMAIN rec.before : rec.before[e] = entities[e].version
      /\ \A e \in DOMAIN rec.transition :
           /\ e \in Entities
           /\ rec.transition[e] \in Record
           /\ rec.transition[e].version = entities[e].version + 1
           /\ rec.after[e] = rec.transition[e].version
  BY <1>1, RecordFacts
<1>3. q.id \in Ids /\ q.nonce \in Nonces /\ q.rows \subseteq RowIds
  BY <1>1, CommandShape
<1>4. q.id \notin DOMAIN commands /\ q.nonce \notin DOMAIN nonces
  BY <1>1 DEF Clear, Prior, NonceProblem
<1> HIDE DEF rec
<1>5. Shape'
  <2>1. entities' \in [Entities -> Record]
    BY <1>1, <1>2 DEF Shape
  <2>2. Partial(commands, Ids, CommandRows)'
    <3>1. [content |-> command[c], seq |-> n + 1] \in CommandRows
      BY <1>1, StoreAssumption DEF CommandRows
    <3> QED BY <1>1, <1>3, <3>1 DEF Shape, Partial, Insert
  <2>3. Partial(nonces, Nonces, Ids)'
    BY <1>1, <1>3 DEF Shape, Partial, Insert
  <2>4. Partial(obligations, RowIds, Ids)'
    BY <1>1, <1>3 DEF Shape, Partial
  <2>5. /\ lock' \in Conns \cup {NoConn} /\ pc' \in [Conns -> Pcs]
        /\ seen' = [d \in Conns |-> seen'[d]]
    BY <1>1 DEF Shape, Pcs
  <2>6. Len(journal') <= MaxSeq
    BY <1>1, StoreAssumption
  <2> QED BY <1>1, <2>1, <2>2, <2>3, <2>4, <2>5, <2>6 DEF Shape
<1>6. Inside'
  BY <1>1 DEF Inside, Shape
<1>7. Checked'
  BY <1>1 DEF Checked, Shape
<1>8. Numbered'
  BY <1>1, <1>2 DEF Numbered
<1>9. Current'
  <2> SUFFICES ASSUME NEW e \in Entities
               PROVE  /\ entities'[e].version <= n + 1
                      /\ \/ Writes(e)' = {} /\ entities'[e] = Absent
                         \/ \E i \in Writes(e)' :
                              LastWrite(e, i)' /\ entities'[e] = journal'[i].transition[e]
    BY <1>1 DEF Current
  <2>1. entities'[e].version <= n + 1
    BY <1>1, CommitVersions DEF Current
  <2>2. CASE e \in DOMAIN rec.transition
    <3>1. Writes(e) \subseteq 1..n /\ Writes(e)' = Writes(e) \cup {n + 1}
      BY <2>2, CommitWrites DEF rec
    <3>2. \A j \in Writes(e)' : j <= n + 1
      BY <1>1, <3>1
    <3>3. PICK i : i = n + 1
      OBVIOUS
    <3>4. i \in Writes(e)' /\ LastWrite(e, i)'
      BY <3>1, <3>2, <3>3 DEF LastWrite
    <3>5. entities'[e] = journal'[i].transition[e]
      BY <1>1, <2>2, <3>3
    <3> QED BY <2>1, <3>4, <3>5
  <2>3. CASE e \notin DOMAIN rec.transition
    <3>1. Writes(e)' = Writes(e) /\ \A i : LastWrite(e, i) => LastWrite(e, i)'
      BY <2>3, CommitWrites DEF rec
    <3>2. entities'[e] = entities[e]
      BY <1>1, <2>3
    <3>3. \A i \in Writes(e) : journal'[i] = journal[i]
      BY <1>1 DEF Writes
    <3>4. CASE Writes(e) = {} /\ entities[e] = Absent
      BY <2>1, <3>1, <3>2, <3>4
    <3>5. ASSUME NEW i \in Writes(e), LastWrite(e, i), entities[e] = journal[i].transition[e]
          PROVE  i \in Writes(e)' /\ LastWrite(e, i)' /\ entities'[e] = journal'[i].transition[e]
      <4>1. i \in Writes(e)' /\ LastWrite(e, i)'
        BY <3>1, <3>5, Zenon
      <4>2. journal'[i] = journal[i]
        BY <3>3, <3>5, Zenon
      <4> QED BY <3>2, <3>5, <4>1, <4>2
    <3> QED BY <2>1, <3>4, <3>5 DEF Current
  <2> QED BY <2>2, <2>3
<1>10. Indexed'
  <2>1. /\ n \in Nat /\ Len(journal') = n + 1 /\ journal'[n + 1].command = command[c]
        /\ \A i \in 1..n : journal'[i] = journal[i]
    BY <1>1, <1>2
  <2>2. DOMAIN commands' = DOMAIN commands \cup {q.id}
    BY <1>1 DEF Insert
  <2>3. commands'[q.id] = [content |-> command[c], seq |-> n + 1]
    BY <1>1 DEF Insert
  <2>4. \A id \in DOMAIN commands : commands'[id] = commands[id]
    BY <1>1, <1>4 DEF Insert
  <2>5. ASSUME NEW id \in DOMAIN commands'
        PROVE  /\ commands'[id].content.request.id = id
               /\ commands'[id].seq \in 1..Len(journal')
               /\ journal'[commands'[id].seq].command = commands'[id].content
    <3>1. CASE id = q.id
      <4>1. commands'[id].content = command[c] /\ commands'[id].seq = n + 1
        BY <2>3, <3>1
      <4>2. n + 1 \in 1..Len(journal') /\ journal'[n + 1].command = command[c]
        BY <2>1
      <4> QED BY <3>1, <4>1, <4>2
    <3>2. CASE id \in DOMAIN commands
      <4>1. /\ commands[id].content.request.id = id
            /\ commands[id].seq \in 1..n
            /\ journal[commands[id].seq].command = commands[id].content
        BY <3>2 DEF Indexed
      <4>2. commands'[id] = commands[id]
        BY <2>4, <3>2
      <4>3. commands[id].seq \in 1..Len(journal')
        BY <4>1, <2>1
      <4>4. journal'[commands[id].seq] = journal[commands[id].seq]
        BY <4>1, <2>1
      <4> QED BY <4>1, <4>2, <4>3, <4>4
    <3> QED BY <2>2, <3>1, <3>2
  <2>6. \A i \in 1..Len(journal') : journal'[i].command.request.id \in DOMAIN commands'
    <3>1. \A i \in 1..n : journal[i].command.request.id \in DOMAIN commands
      BY DEF Indexed
    <3>2. \A i \in 1..n : journal'[i].command.request.id \in DOMAIN commands'
      BY <2>2, <3>1, <2>1
    <3>3. journal'[n + 1].command.request.id \in DOMAIN commands'
      BY <2>2, <2>1
    <3> QED BY <3>2, <3>3, <2>1
  <2>7. ASSUME NEW d \in Conns, pc'[d] = "committed"
        PROVE  /\ command[d].request.id \in DOMAIN commands'
               /\ commands'[command[d].request.id].content = command[d]
    <3>1. CASE d = c
      <4>1. command[d].request.id = q.id /\ [content |-> command[c], seq |-> n + 1].content = command[d]
        BY <3>1
      <4> QED BY <2>2, <2>3, <4>1
    <3>2. CASE d # c
      <4>1. pc[d] = "committed"
        BY <1>1, <2>7, <3>2 DEF Shape
      <4>2. /\ command[d].request.id \in DOMAIN commands
            /\ commands[command[d].request.id].content = command[d]
        BY <4>1 DEF Indexed
      <4> QED BY <2>2, <2>4, <4>2
    <3> QED BY <3>1, <3>2
  <2> QED BY <1>1, <2>5, <2>6, <2>7, Zenon DEF Indexed
<1>11. ReadBefore'
  <2> SUFFICES ASSUME NEW d \in Conns, command[d] \in Command,
                      NEW e \in command[d].request.depends
               PROVE  command[d].expected[e] <= entities'[e].version
    BY <1>1 DEF ReadBefore
  <2>1. e \in Entities /\ command[d].expected[e] \in Nat
    BY CommandShape, StoreAssumption
  <2>2. command[d].expected[e] <= entities[e].version
    BY DEF ReadBefore
  <2> QED BY <2>1, <2>2, CommitVersions
<1>12. Answered'
  <2>1. DOMAIN nonces \subseteq DOMAIN nonces'
    BY <1>1 DEF Insert
  <2>2. ASSUME NEW d \in Conns, answer[d].result = "stale_version"
        PROVE  \E e \in command[d].request.depends :
                 command[d].expected[e] < entities'[e].version
    <3>1. PICK e \in command[d].request.depends : command[d].expected[e] < entities[e].version
      BY <2>2 DEF Answered
    <3>2. command[d] \in Command
      BY <2>2 DEF Answered
    <3>3. e \in Entities /\ command[d].expected[e] \in Nat
      BY <3>2, CommandShape, StoreAssumption
    <3>4. command[d].expected[e] < entities'[e].version
      BY <3>1, <3>3, CommitVersions
    <3> QED BY <3>4
  <2> QED BY <1>1, <2>1, <2>2 DEF Answered
<1>13. AnswersAreTrue'
  <2>1. ASSUME NEW d \in Conns, answer[d].result = "committed"
        PROVE  /\ answer[d].seq \in 1..Len(journal')
               /\ journal'[answer[d].seq].command = command[d]
    BY <1>1, <2>1 DEF AnswersAreTrue
  <2>2. ASSUME NEW d \in Conns, answer[d].result \in Final
        PROVE  \A i \in 1..Len(journal') : journal'[i].command # command[d]
    <3>1. command[c] # command[d]
      <4>1. CASE answer[d].result = "nonce_consumed"
        BY <1>4, <4>1 DEF Answered
      <4>2. CASE answer[d].result = "stale_version"
        <5>1. PICK e \in command[d].request.depends :
                command[d].expected[e] < entities[e].version
          BY <4>2 DEF Answered
        <5>2. command[d] \in Command
          BY <4>2 DEF Answered
        <5>3. e \in Entities /\ command[d].expected[e] \in Nat
          BY <5>2, CommandShape, StoreAssumption
        <5>4. entities[e].version # command[d].expected[e]
          BY <5>1, <5>3, CommitVersions
        <5>5. ~StaleProblem(command[c])
          BY <1>1 DEF Clear
        <5> QED BY <5>4, <5>5 DEF StaleProblem
      <4> QED BY <2>2, <4>1, <4>2 DEF Final
    <3>2. \A i \in 1..n : journal[i].command # command[d]
      BY <2>2 DEF AnswersAreTrue
    <3>3. Len(journal') = n + 1 /\ journal'[n + 1].command = command[c]
      BY <1>1, <1>2
    <3>4. \A i \in 1..n : journal'[i] = journal[i]
      BY <1>1
    <3> QED BY <1>2, <3>1, <3>2, <3>3, <3>4
  <2> QED BY <1>1, <2>1, <2>2 DEF AnswersAreTrue
<1>14. DecidedFromItsPrefix'
  <2> SUFFICES ASSUME NEW i \in 1..(n + 1), NEW e \in DOMAIN journal'[i].before
               PROVE  LET earlier == {j \in Writes(e)' : j < i}
                      IN  \/ earlier = {} /\ journal'[i].before[e] = 0
                          \/ \E j \in earlier :
                               /\ \A k \in earlier : k <= j
                               /\ journal'[i].before[e] = journal'[j].after[e]
    BY <1>1 DEF DecidedFromItsPrefix
  <2>1. e \in Entities
    <3>1. i \in 1..n => journal[i] \in JournalRecords
      BY DEF Shape
    <3> QED BY <1>1, <1>2, <3>1, SMTT(30) DEF JournalRecords, PartialFcns
  <2>2. {j \in Writes(e)' : j < i} = {j \in Writes(e) : j < i}
    BY <1>1, <2>1, CommitWrites DEF rec
  <2>3. \A j \in Writes(e) : journal'[j] = journal[j]
    BY <1>1 DEF Writes
  <2>4. CASE i \in 1..n
    <3> DEFINE earlier == {j \in Writes(e) : j < i}
    <3>1. journal'[i] = journal[i]
      BY <1>1, <2>4
    <3>2. \/ earlier = {} /\ journal[i].before[e] = 0
          \/ \E j \in earlier :
               /\ \A k \in earlier : k <= j
               /\ journal[i].before[e] = journal[j].after[e]
      BY <2>4, <3>1 DEF DecidedFromItsPrefix
    <3>3. \A j \in earlier : journal'[j] = journal[j]
      BY <2>3
    <3> HIDE DEF earlier
    <3> QED BY <2>2, <3>1, <3>2, <3>3 DEF earlier
  <2>5. CASE i = n + 1
    <3>1. {j \in Writes(e) : j < i} = Writes(e)
      BY <1>1, <2>5 DEF Writes
    <3>2. journal'[i].before[e] = entities[e].version
      BY <1>1, <1>2, <2>5
    <3>3. CASE Writes(e) = {} /\ entities[e] = Absent
      BY <2>2, <3>1, <3>2, <3>3 DEF Absent
    <3>4. ASSUME NEW j \in Writes(e), LastWrite(e, j), entities[e] = journal[j].transition[e]
          PROVE  /\ \A k \in Writes(e) : k <= j
                 /\ journal'[i].before[e] = journal'[j].after[e]
      BY <2>3, <3>2, <3>4 DEF LastWrite, Numbered, Writes
    <3> QED BY <2>1, <2>2, <3>1, <3>3, <3>4 DEF Current
  <2> QED BY <1>1, <2>4, <2>5
<1> QED BY <1>5, <1>6, <1>7, <1>8, <1>9, <1>10, <1>11, <1>12, <1>13, <1>14

-----------------------------------------------------------------------------
(* The theorems.                                                           *)

\* Every step of every connection keeps the strengthening.
LEMMA NextIInv == IInv /\ [Next]_vars => IInv'
<1> SUFFICES ASSUME IInv, [Next]_vars PROVE IInv'
  OBVIOUS
<1>1. ASSUME NEW c \in Conns, NEW q \in Requests, Form(c, q) PROVE IInv'
  BY <1>1, FormKeeps
<1>2. ASSUME NEW c \in Conns, Resend(c) PROVE IInv'
  BY <1>2, ResendKeeps
<1>3. ASSUME NEW c \in Conns, Begin(c) PROVE IInv'
  BY <1>3, BeginKeeps
<1>4. ASSUME NEW c \in Conns, AnswerPrior(c) PROVE IInv'
  BY <1>4, AnswerPriorKeeps
<1>5. ASSUME NEW c \in Conns, Refuse(c) PROVE IInv'
  BY <1>5, RefuseKeeps
<1>6. ASSUME NEW c \in Conns, Check(c) PROVE IInv'
  BY <1>6, CheckKeeps
<1>7. ASSUME NEW c \in Conns, Commit(c) PROVE IInv'
  BY <1>7, CommitKeeps
<1>8. ASSUME NEW c \in Conns, Reply(c) PROVE IInv'
  BY <1>8, ReplyKeeps
<1>9. ASSUME NEW c \in Conns, Crash(c) PROVE IInv'
  BY <1>9, CrashKeeps
<1>10. ASSUME NEW rows \in Declarations, DeclareOwners(rows) PROVE IInv'
  BY <1>10, DeclareOwnersKeeps
<1>11. CASE UNCHANGED vars
  <2>1. UNCHANGED vars /\ UNCHANGED tables
    BY <1>11 DEF vars, tables
  <2>2. Numbered' /\ Current' /\ DecidedFromItsPrefix'
    BY <2>1, TablesFrame DEF IInv
  <2>3. Shape' /\ Inside'
    BY <2>1 DEF vars, IInv, Shape, Inside, Partial
  <2>4. Checked'
    BY <2>1, CheckedFrame DEF vars, IInv, Checked
  <2>5. Indexed' /\ ReadBefore' /\ Answered' /\ AnswersAreTrue'
    BY <2>1 DEF vars, IInv, Indexed, ReadBefore, Answered, AnswersAreTrue
  <2> QED BY <2>2, <2>3, <2>4, <2>5 DEF IInv
<1> QED BY <1>1, <1>2, <1>3, <1>4, <1>5, <1>6, <1>7, <1>8, <1>9, <1>10, <1>11 DEF Next, Execute

\* The strengthening is an invariant of the store.
THEOREM StoreInvariant == Spec => []IInv
<1>1. Init => IInv
  BY InitIInv
<1>2. IInv /\ [Next]_vars => IInv'
  BY NextIInv
<1> QED BY <1>1, <1>2, PTL DEF Spec

\* The inductive invariant includes the type invariant.
LEMMA IInvTypes == IInv => TypeOK
<1> SUFFICES ASSUME IInv PROVE TypeOK
  OBVIOUS
<1>1. ASSUME NEW i \in 1..Len(journal) PROVE IsJournalRecord(journal[i])
  <2>1. journal[i] \in JournalRecords
    BY DEF IInv, Shape
  <2>2. journal[i].seq = i
    BY DEF IInv, Numbered
  <2>3. i \in 1..MaxSeq
    BY StoreAssumption DEF IInv, Shape
  <2>4. ASSUME NEW T, NEW f \in PartialFcns(T) PROVE Partial(f, Entities, T)
    <3>1. PICK S \in SUBSET Entities : f \in [S -> T]
      BY DEF PartialFcns
    <3> QED BY <3>1 DEF Partial
  <2>5. /\ journal[i].prev \in (0..MaxSeq) \X (Command \cup {NoCommand})
        /\ journal[i].command \in Command
        /\ journal[i].before \in PartialFcns(Nat)
        /\ journal[i].after \in PartialFcns(Nat)
        /\ journal[i].transition \in PartialFcns(Record)
    BY <2>1 DEF JournalRecords
  <2> QED BY <2>2, <2>3, <2>4, <2>5 DEF IsJournalRecord
<1> QED BY <1>1 DEF TypeOK, IInv, Shape

\* Type correctness: every table of the store holds rows of its schema, for any
\* connections, requests and declarations.
THEOREM TypeCorrect == Spec => []TypeOK
BY StoreInvariant, IInvTypes, PTL

\* A caller may believe the store: "committed" is the command's own record, and a
\* command refused for its nonce or a stale version never appears in the journal.
THEOREM AnswersTrue == Spec => []AnswersAreTrue
<1>1. IInv => AnswersAreTrue
  BY DEF IInv
<1> QED BY <1>1, StoreInvariant, PTL

\* Optimistic concurrency is sound: every record declares exactly the versions its
\* own prefix of the journal built.
THEOREM PrefixDecides == Spec => []DecidedFromItsPrefix
<1>1. IInv => DecidedFromItsPrefix
  BY DEF IInv
<1> QED BY <1>1, StoreInvariant, PTL

\* Ownership is kept by commits because it is read inside the transaction, and by
\* declarations because an occupied selector is refused and a declared one only grows.
LEMMA NextOwned == IInv /\ OwnedByItsOwner /\ [Next]_vars => OwnedByItsOwner'
<1> SUFFICES ASSUME IInv, OwnedByItsOwner, [Next]_vars PROVE OwnedByItsOwner'
  OBVIOUS
<1>1. ASSUME NEW c \in Conns, Commit(c) PROVE OwnedByItsOwner'
  <2> DEFINE rec == JournalRecord(c)
             q == command[c].request
             n == Len(journal)
  <2> SUFFICES ASSUME NEW e \in Entities, NEW r \in owners' \cup StandingRows,
                      entities'[e] # Absent, Matches(r, e, {entities'[e].kind})
               PROVE  \E i \in Writes(e)' :
                        LastWrite(e, i)' /\ journal'[i].command.request.op \in r.commands
    BY DEF OwnedByItsOwner
  <2>1. /\ pc[c] = "checked" /\ Clear(c) /\ n \in Nat
        /\ journal'[n + 1] = rec
        /\ \A i \in 1..n : journal'[i] = journal[i]
        /\ entities' = [x \in Entities |->
             IF x \in DOMAIN rec.transition THEN rec.transition[x] ELSE entities[x]]
        /\ UNCHANGED owners
    BY <1>1, CommitFacts
  <2>2. rec.command = command[c] /\ rec.transition = Changes(q, entities)
    BY <2>1, RecordFacts
  <2> HIDE DEF rec
  <2>3. CASE e \in DOMAIN rec.transition
    <3>1. Writes(e) \subseteq 1..n /\ Writes(e)' = Writes(e) \cup {n + 1}
      BY <1>1, <2>3, CommitWrites DEF rec
    <3>2. \A j \in Writes(e)' : j <= n + 1
      BY <2>1, <3>1
    <3>3. PICK i : i = n + 1
      OBVIOUS
    <3>4. i \in Writes(e)' /\ LastWrite(e, i)'
      BY <3>1, <3>2, <3>3 DEF LastWrite
    <3>5. ~OwnershipProblem(q.op, rec.transition, entities)
      BY <2>1, <2>2 DEF Clear
    <3>6. Matches(r, e, {entities[e].kind, rec.transition[e].kind})
      BY <2>1, <2>3 DEF Matches
    <3>7. q.op \in r.commands
      BY <2>1, <2>3, <3>5, <3>6 DEF OwnershipProblem
    <3> QED BY <2>1, <2>2, <3>3, <3>4, <3>7
  <2>4. CASE e \notin DOMAIN rec.transition
    <3>1. entities'[e] = entities[e]
      BY <2>1, <2>4
    <3>2. PICK i \in Writes(e) : LastWrite(e, i) /\ journal[i].command.request.op \in r.commands
      BY <2>1, <3>1 DEF OwnedByItsOwner
    <3>3. Writes(e)' = Writes(e) /\ LastWrite(e, i)'
      BY <1>1, <2>4, <3>2, CommitWrites DEF rec
    <3>4. journal'[i] = journal[i]
      BY <2>1 DEF Writes
    <3> QED BY <3>2, <3>3, <3>4
  <2> QED BY <2>3, <2>4
<1>2. ASSUME NEW rows \in Declarations, DeclareOwners(rows) PROVE OwnedByItsOwner'
  <2> SUFFICES ASSUME NEW e \in Entities, NEW r \in owners' \cup StandingRows,
                      entities[e] # Absent, Matches(r, e, {entities[e].kind})
               PROVE  \E i \in Writes(e) :
                        LastWrite(e, i) /\ journal[i].command.request.op \in r.commands
    BY <1>2 DEF OwnedByItsOwner, DeclareOwners, LastWrite, Writes
  <2>1. ~OwnershipConflict(rows) /\
        owners' = rows \cup {p \in owners : \A x \in rows : ~SameSelector(x, p)}
    BY <1>2 DEF DeclareOwners
  <2>2. CASE r \in owners \cup StandingRows
    BY <2>2 DEF OwnedByItsOwner
  <2>3. CASE r \in rows
    <3>1. ~(\A p \in owners : ~SameSelector(r, p))
      BY <2>1, <2>3 DEF OwnershipConflict, Occupied
    <3>2. PICK p \in owners : SameSelector(r, p)
      BY <3>1
    <3>3. p.commands \subseteq r.commands
      BY <2>1, <2>3, <3>2 DEF OwnershipConflict, AddsCommands
    <3>4. Matches(p, e, {entities[e].kind})
      BY <3>2 DEF Matches, SameSelector
    <3> QED BY <3>2, <3>3, <3>4 DEF OwnedByItsOwner
  <2> QED BY <2>1, <2>2, <2>3
<1>3. CASE UNCHANGED <<entities, journal, owners>>
  BY <1>3 DEF OwnedByItsOwner, LastWrite, Writes
<1> QED
  BY <1>1, <1>2, <1>3 DEF Next, Execute, vars, Form, Resend, Begin, AnswerPrior, Refuse,
     Rollback, Check, Reply, Crash

\* An entity under an owner was last written by one of the owner's commands.
THEOREM OwnershipHolds == Spec => []OwnedByItsOwner
<1>1. Init => OwnedByItsOwner
  BY DEF Init, OwnedByItsOwner
<1> QED BY <1>1, NextOwned, StoreInvariant, PTL DEF Spec

\* A handout commits only into a project that takes work once the command is in effect.
LEMMA NextHandout ==
  IInv /\ [Next]_vars =>
    \A e \in Entities : HandsOut(e, entities[e], entities'[e]) => TakesWork(entities', e)
<1> SUFFICES ASSUME IInv, [Next]_vars, NEW e \in Entities,
                    HandsOut(e, entities[e], entities'[e])
             PROVE  TakesWork(entities', e)
  OBVIOUS
<1>1. entities'[e] # entities[e]
  BY DEF HandsOut, Handout
<1>2. PICK c \in Conns : Commit(c)
  BY <1>1 DEF Next, Execute, vars, Form, Resend, Begin, AnswerPrior, Refuse, Rollback, Check,
              Reply, Crash, DeclareOwners
<1> DEFINE changes == Changes(command[c].request, entities)
<1>3. /\ pc[c] = "checked" /\ Clear(c)
      /\ entities' = [x \in Entities |->
           IF x \in DOMAIN JournalRecord(c).transition
           THEN JournalRecord(c).transition[x] ELSE entities[x]]
  BY <1>2, CommitFacts
<1>4. JournalRecord(c).transition = changes
  BY <1>3, RecordFacts
<1>5. entities' = [x \in Entities |-> IF x \in DOMAIN changes THEN changes[x] ELSE entities[x]]
  BY <1>3, <1>4
<1>6. ~HandoutProblem(changes, entities)
  BY <1>3 DEF Clear
<1> HIDE DEF changes
<1>7. e \in DOMAIN changes /\ entities'[e] = changes[e]
  BY <1>1, <1>5
<1> QED BY <1>5, <1>6, <1>7 DEF HandoutProblem

\* No transaction hands out work in a project that takes none.
THEOREM HandoutsChecked == Spec => HandoutsNeedALiveProject
BY NextHandout, StoreInvariant, PTL DEF Spec, HandoutsNeedALiveProject

-----------------------------------------------------------------------------
(* Replaying a sequence of records.                                        *)

\* Trace(f, s, m): f is the state after each of the first m records of s.
Trace(f, s, m) ==
  /\ f = [n \in 0..m |-> f[n]]
  /\ f[0] = Empty
  /\ \A n \in 1..m : f[n] = ReplayRecord(f[n - 1], s[n])

Less == {p \in Nat \X Nat : p[1] < p[2]}

\* A set of numbers that is not empty has a least one.
LEMMA LeastNumber ==
  ASSUME NEW T \in SUBSET Nat, T # {}
  PROVE  \E k \in T : \A j \in T : ~(j < k)
<1>1. IsWellFoundedOn(Less, Nat)
  BY NatLessThanWellFounded DEF Less, OpToRel
<1>2. \E k \in T : \A j \in T : ~(<<j, k>> \in Less)
  BY <1>1, WFMin
<1> QED BY <1>2 DEF Less

\* Every number of records has a trace: a least number without one would have one,
\* the trace before it extended by one record.
LEMMA TraceExists ==
  ASSUME NEW s, NEW m \in Nat
  PROVE  \E f : Trace(f, s, m)
<1> DEFINE Without == {k \in Nat : ~\E f : Trace(f, s, k)}
<1> SUFFICES ASSUME m \in Without PROVE FALSE
  OBVIOUS
<1>1. PICK k \in Without : \A j \in Without : ~(j < k)
  BY LeastNumber
<1>2. CASE k = 0
  <2> DEFINE g == [n \in 0..0 |-> Empty]
  <2>1. Trace(g, s, 0)
    BY DEF Trace
  <2> QED BY <1>1, <1>2, <2>1
<1>3. CASE k # 0
  <2>1. k - 1 \in Nat /\ k \in Nat
    BY <1>1, <1>3
  <2>2. PICK f : Trace(f, s, k - 1)
    BY <1>1, <2>1
  <2> DEFINE g == [n \in 0..k |-> IF n = k THEN ReplayRecord(f[k - 1], s[k]) ELSE f[n]]
  <2>3. g = [n \in 0..k |-> g[n]]
    OBVIOUS
  <2>4. g[0] = Empty
    BY <1>3, <2>1, <2>2 DEF Trace
  <2>5. ASSUME NEW n \in 1..k PROVE g[n] = ReplayRecord(g[n - 1], s[n])
    <3>1. n - 1 \in 0..(k - 1) /\ n - 1 # k /\ n \in 0..k
      BY <2>1
    <3>2. g[n - 1] = f[n - 1]
      BY <3>1, <2>1
    <3>3. CASE n = k
      BY <3>1, <3>2, <3>3
    <3>4. CASE n # k
      <4>1. n \in 1..(k - 1)
        BY <2>1, <3>4
      <4>2. f[n] = ReplayRecord(f[n - 1], s[n])
        BY <2>2, <4>1 DEF Trace
      <4> QED BY <3>1, <3>2, <3>4, <4>2
    <3> QED BY <3>3, <3>4
  <2> HIDE DEF g
  <2>6. Trace(g, s, k)
    BY <2>3, <2>4, <2>5 DEF Trace
  <2> QED BY <1>1, <2>6
<1> QED BY <1>2, <1>3

\* Two journals that begin alike are rebuilt alike up to there: a least number of
\* records after which the traces differ is not the first and not a later one.
LEMMA TracesAgree ==
  ASSUME NEW s, NEW t, NEW f, NEW g, NEW m \in Nat, NEW k \in Nat, m <= k,
         Trace(f, s, m), Trace(g, t, k), \A i \in 1..m : s[i] = t[i]
  PROVE  \A n \in 0..m : f[n] = g[n]
<1> DEFINE Differ == {n \in Nat : n <= m /\ f[n] # g[n]}
<1> SUFFICES ASSUME Differ # {} PROVE FALSE
  OBVIOUS
<1>1. PICK n \in Differ : \A j \in Differ : ~(j < n)
  BY LeastNumber
<1>2. CASE n = 0
  BY <1>1, <1>2 DEF Trace
<1>3. CASE n # 0
  <2>1. n - 1 \in Nat /\ n - 1 < n /\ n - 1 <= m /\ n \in 1..m /\ n \in 1..k
    BY <1>1, <1>3
  <2>2. f[n - 1] = g[n - 1]
    BY <1>1, <2>1
  <2>3. f[n] = ReplayRecord(f[n - 1], s[n]) /\ g[n] = ReplayRecord(g[n - 1], t[n]) /\ s[n] = t[n]
    BY <2>1 DEF Trace
  <2> QED BY <1>1, <2>2, <2>3
<1> QED BY <1>2, <1>3

\* Replay ends where a trace of all records ends.
LEMMA ReplayTrace ==
  ASSUME NEW s, Len(s) \in Nat, NEW f, Trace(f, s, Len(s))
  PROVE  Replay(s) = f[Len(s)]
<1> DEFINE Is(g) == g = [n \in 0..Len(s) |->
                           IF n = 0 THEN Empty ELSE ReplayRecord(g[n - 1], s[n])]
<1>1. Is(f)
  <2>1. \A n \in 0..Len(s) : n = 0 \/ n \in 1..Len(s)
    OBVIOUS
  <2>2. \A n \in 0..Len(s) : f[n] = IF n = 0 THEN Empty ELSE ReplayRecord(f[n - 1], s[n])
    BY <2>1 DEF Trace
  <2>3. f = [n \in 0..Len(s) |-> f[n]]
    BY DEF Trace
  <2> QED BY <2>2, <2>3
<1>2. PICK g : Is(g) /\ Replay(s) = g[Len(s)]
  BY <1>1 DEF Replay
<1>3. Trace(g, s, Len(s))
  BY <1>2 DEF Trace
<1>4. \A n \in 0..Len(s) : f[n] = g[n]
  BY <1>3, TracesAgree
<1> QED BY <1>2, <1>4

\* Nothing journaled rebuilds the empty store.
LEMMA ReplayEmpty == ASSUME NEW s, Len(s) = 0 PROVE Replay(s) = Empty
<1>1. PICK f : Trace(f, s, 0)
  BY TraceExists
<1>2. f[0] = Empty
  BY <1>1 DEF Trace
<1> QED BY <1>1, <1>2, ReplayTrace

\* One more record is replayed on what the journal before it rebuilt.
LEMMA ReplayAppend ==
  ASSUME NEW S, NEW s \in Seq(S), NEW x \in S
  PROVE  Replay(Append(s, x)) = ReplayRecord(Replay(s), x)
<1> DEFINE t == Append(s, x)
           n == Len(s)
<1>1. n \in Nat /\ Len(t) = n + 1 /\ t[n + 1] = x /\ \A i \in 1..n : s[i] = t[i]
  OBVIOUS
<1> HIDE DEF t, n
<1>2. PICK f : Trace(f, s, n)
  BY <1>1, TraceExists
<1>3. PICK g : Trace(g, t, n + 1)
  <2>1. n + 1 \in Nat
    BY <1>1
  <2> QED BY <2>1, TraceExists
<1>4. f[n] = g[n]
  BY <1>1, <1>2, <1>3, TracesAgree
<1>5. g[n + 1] = ReplayRecord(g[n], x)
  <2>1. n + 1 \in 1..(n + 1) /\ (n + 1) - 1 = n
    BY <1>1
  <2> QED BY <1>1, <1>3, <2>1 DEF Trace
<1>6. Replay(s) = f[n]
  BY <1>1, <1>2, ReplayTrace DEF n
<1>7. Replay(t) = g[n + 1]
  BY <1>1, <1>3, ReplayTrace
<1> QED BY <1>4, <1>5, <1>6, <1>7 DEF t

-----------------------------------------------------------------------------
(* The journal rebuilds the store.                                         *)

\* What replay of the whole journal ends in: everything accepted, the chain at the
\* journal's tip and every table as it stands.
Rebuilds ==
  Replay(journal) =
    [accepted |-> TRUE, head |-> PrevDigest(Len(journal)), entities |-> entities,
     nonces |-> nonces, obligations |-> obligations]

\* The record a commit appends passes every check of replay, made against the tables
\* it was decided from, and leaves the tables the commit leaves.
LEMMA CommitReplays ==
  ASSUME IInv, NEW c \in Conns, Commit(c), Rebuilds
  PROVE  Rebuilds'
<1> DEFINE rec == JournalRecord(c)
           q == command[c].request
           n == Len(journal)
           old == [accepted |-> TRUE, head |-> PrevDigest(n), entities |-> entities,
                   nonces |-> nonces, obligations |-> obligations]
<1>1. /\ pc[c] = "checked" /\ Clear(c)
      /\ n \in Nat /\ Len(journal') = n + 1
      /\ journal'[n + 1] = rec
      /\ entities' = [e \in Entities |->
           IF e \in DOMAIN rec.transition THEN rec.transition[e] ELSE entities[e]]
      /\ nonces' = Insert(nonces, q.nonce, q.id)
      /\ obligations' = [r \in DOMAIN obligations \cup q.rows |->
           IF r \in q.rows THEN q.id ELSE obligations[r]]
  BY CommitFacts
<1>2. /\ rec \in JournalRecords
      /\ rec.seq = n + 1 /\ rec.prev = PrevDigest(n) /\ rec.command = command[c]
      /\ DOMAIN rec.transition \subseteq DOMAIN rec.after
      /\ DOMAIN rec.after = DOMAIN rec.before
      /\ \A e \in DOMAIN rec.before :
           /\ rec.before[e] = entities[e].version
           /\ e \notin DOMAIN rec.transition => rec.after[e] = entities[e].version
      /\ \A e \in DOMAIN rec.transition :
           /\ rec.transition[e].version = entities[e].version + 1
           /\ rec.after[e] = rec.transition[e].version
  BY <1>1, RecordFacts
<1>3. journal \in Seq(JournalRecords) /\ journal' = Append(journal, rec)
  BY DEF Commit, IInv, Shape
<1>4. q.nonce \notin DOMAIN nonces /\ q.rows \cap DOMAIN obligations = {}
  BY <1>1 DEF Clear, NonceProblem
<1> HIDE DEF rec
<1>5. Replay(journal') = ReplayRecord(old, rec)
  <2>1. Replay(Append(journal, rec)) = ReplayRecord(Replay(journal), rec)
    BY <1>2, <1>3, ReplayAppend
  <2>2. Replay(journal) = old
    BY DEF Rebuilds
  <2> QED BY <1>3, <2>1, <2>2
<1>6. Chained(old, rec)
  <2>1. PrevDigest(n)[1] = n
    <3>1. CASE n = 0
      BY <3>1 DEF PrevDigest, Genesis
    <3>2. CASE n # 0
      <4>1. journal[n].seq = n
        BY <1>1, <3>2 DEF IInv, Numbered
      <4> QED BY <3>2, <4>1 DEF PrevDigest, RecordDigest
    <3> QED BY <3>1, <3>2
  <2> QED BY <1>2, <2>1 DEF Chained
<1>7. Consistent(old, rec)
  BY <1>2, <1>4 DEF Consistent
<1>8. Replay(journal') = Applied(old, rec)
  BY <1>5, <1>6, <1>7 DEF ReplayRecord
<1>9. PrevDigest(Len(journal))' = RecordDigest(rec)
  BY <1>1 DEF PrevDigest
<1> QED BY <1>1, <1>2, <1>8, <1>9 DEF Applied, Rebuilds

\* A step that commits nothing leaves journal and tables as they were.
LEMMA NextRebuilds == IInv /\ Rebuilds /\ [Next]_vars => Rebuilds'
<1> SUFFICES ASSUME IInv, Rebuilds, [Next]_vars PROVE Rebuilds'
  OBVIOUS
<1>1. ASSUME NEW c \in Conns, Commit(c) PROVE Rebuilds'
  BY <1>1, CommitReplays
<1>2. CASE UNCHANGED <<entities, journal, nonces, obligations>>
  BY <1>2 DEF Rebuilds, PrevDigest
<1> QED
  BY <1>1, <1>2 DEF Next, Execute, vars, Form, Resend, Begin, AnswerPrior, Refuse, Rollback,
     Check, Reply, Crash, DeclareOwners

\* The journal alone rebuilds the live store, in every interleaving of every set of
\* connections, requests and declarations and for a journal of any length.
THEOREM JournalRebuildsStore == Spec => []ReplayRebuildsTheStore
<1>1. Init => Rebuilds
  <2> SUFFICES ASSUME Init PROVE Rebuilds
    OBVIOUS
  <2>1. Len(journal) = 0
    BY DEF Init
  <2>2. Replay(journal) = Empty
    BY <2>1, ReplayEmpty
  <2> QED BY <2>1, <2>2 DEF Init, Rebuilds, Empty, PrevDigest
<1>2. Rebuilds => ReplayRebuildsTheStore
  BY DEF Rebuilds, ReplayRebuildsTheStore
<1> QED BY <1>1, <1>2, NextRebuilds, StoreInvariant, PTL DEF Spec

-----------------------------------------------------------------------------
(* The store implements the atomic map.                                    *)

\* Initially nothing is stored, in effect or heard.
LEMMA PromiseInit == Init => Promise!Init
<1> SUFFICES ASSUME Init PROVE Promise!Init
  OBVIOUS
<1>1. CommandsDone = [i \in {} |-> NoCommand]
  BY DEF Init, CommandsDone, NoRows
<1>2. HeardBy = [c \in Conns |-> NoCommand]
  BY DEF Init, HeardBy, NoAnswer
<1> QED BY <1>1, <1>2 DEF Init, Promise!Init

\* A commit is its command taking effect.
LEMMA CommitApplies ==
  ASSUME IInv, NEW c \in Conns, Commit(c)
  PROVE  Promise!Apply(command[c])
<1> DEFINE q == command[c].request
           rec == JournalRecord(c)
<1>1. /\ pc[c] = "checked" /\ command[c] \in Command /\ Clear(c)
      /\ entities' = [e \in Entities |->
           IF e \in DOMAIN rec.transition THEN rec.transition[e] ELSE entities[e]]
      /\ commands' = Insert(commands, q.id, [content |-> command[c], seq |-> Len(journal) + 1])
      /\ UNCHANGED <<command, answer>>
  BY CommitFacts
<1>2. rec.transition = RowsWritten(command[c], entities) /\ DOMAIN rec.transition = DOMAIN q.puts
  BY <1>1, RecordFacts DEF RowsWritten
<1>3. DOMAIN command[c].expected = q.depends
  BY <1>1, CommandShape
<1>4. q.id \notin DOMAIN commands
  BY <1>1 DEF Clear, Prior
<1>5. /\ \A e \in q.depends : entities[e].version = command[c].expected[e]
      /\ DOMAIN q.puts \subseteq q.depends
  BY <1>1 DEF Clear, StaleProblem
<1>6. DOMAIN CommandsDone = DOMAIN commands
  BY DEF CommandsDone
<1>7. CommandsDone' = [i \in DOMAIN CommandsDone \cup {q.id} |->
                         IF i = q.id THEN command[c] ELSE CommandsDone[i]]
  BY <1>1, <1>4 DEF CommandsDone, Insert
<1>8. UNCHANGED HeardBy
  BY <1>1 DEF HeardBy
<1> HIDE DEF rec
<1> QED BY <1>1, <1>2, <1>3, <1>4, <1>5, <1>6, <1>7, <1>8 DEF Promise!Apply

\* A caller that hears "committed" hears of a command in effect.
LEMMA AnswerIsHeard ==
  ASSUME IInv, NEW c \in Conns, NEW a, answer' = [answer EXCEPT ![c] = a],
         UNCHANGED <<entities, commands, command>>,
         a.result = "committed" =>
           /\ command[c].request.id \in DOMAIN commands
           /\ commands[command[c].request.id].content = command[c]
  PROVE  Promise!Answer(c) \/ Promise!Ask(c)
<1>1. UNCHANGED CommandsDone
  BY DEF CommandsDone
<1>2. CASE a.result = "committed"
  <2>1. HeardBy' = [HeardBy EXCEPT ![c] = command[c]]
    BY <1>2 DEF HeardBy, IInv, Shape
  <2>2. command[c].request.id \in DOMAIN CommandsDone
        /\ CommandsDone[command[c].request.id] = command[c]
    BY <1>2 DEF CommandsDone
  <2> QED BY <1>1, <2>1, <2>2 DEF Promise!Answer
<1>3. CASE a.result # "committed"
  <2>1. HeardBy' = [HeardBy EXCEPT ![c] = NoCommand]
    BY <1>3 DEF HeardBy, IInv, Shape
  <2> QED BY <1>1, <2>1 DEF Promise!Ask
<1> QED BY <1>2, <1>3

\* Every step is a step of the map or one it cannot see.
LEMMA PromiseStep ==
  IInv /\ [Next]_vars => [Promise!Next]_<<entities, CommandsDone, HeardBy>>
<1> SUFFICES ASSUME IInv, [Next]_vars
             PROVE  Promise!Next \/ UNCHANGED <<entities, CommandsDone, HeardBy>>
  OBVIOUS
<1>1. ASSUME NEW c \in Conns, NEW q \in Requests, Form(c, q)
      PROVE  Promise!Next
  <2> DEFINE cmd == [request |-> q, expected |-> [e \in q.depends |-> entities[e].version]]
  <2>1. /\ command' = [command EXCEPT ![c] = cmd]
        /\ answer' = [answer EXCEPT ![c] = NoAnswer]
        /\ UNCHANGED <<entities, commands>>
    BY <1>1 DEF Form, Tell
  <2> HIDE DEF cmd
  <2>2. HeardBy' = [HeardBy EXCEPT ![c] = NoCommand]
    BY <2>1 DEF HeardBy, IInv, Shape, NoAnswer
  <2>3. UNCHANGED CommandsDone
    BY <2>1 DEF CommandsDone
  <2> QED BY <2>1, <2>2, <2>3 DEF Promise!Next, Promise!Ask
<1>2. ASSUME NEW c \in Conns, Resend(c)
      PROVE  Promise!Next
  <2>1. answer' = [answer EXCEPT ![c] = NoAnswer] /\ UNCHANGED <<entities, commands, command>>
    BY <1>2 DEF Resend, Tell
  <2>2. NoAnswer.result # "committed"
    BY DEF NoAnswer
  <2> QED BY <2>1, <2>2, AnswerIsHeard DEF Promise!Next
<1>3. ASSUME NEW c \in Conns, AnswerPrior(c)
      PROVE  Promise!Next
  <2> DEFINE id == command[c].request.id
             yes == [result |-> "committed", seq |-> commands[id].seq]
             no == [result |-> "command_content_conflict", seq |-> 0]
  <2>1. CASE commands[id].content = command[c]
    <3>1. answer' = [answer EXCEPT ![c] = yes] /\ UNCHANGED <<entities, commands, command>>
          /\ id \in DOMAIN commands
      BY <1>3, <2>1 DEF AnswerPrior, Rollback, Tell, Prior
    <3> HIDE DEF yes
    <3> QED BY <2>1, <3>1, AnswerIsHeard DEF Promise!Next
  <2>2. CASE commands[id].content # command[c]
    <3>1. answer' = [answer EXCEPT ![c] = no] /\ UNCHANGED <<entities, commands, command>>
      BY <1>3, <2>2 DEF AnswerPrior, Rollback, Tell
    <3>2. no.result # "committed"
      OBVIOUS
    <3> QED BY <3>1, <3>2, AnswerIsHeard DEF Promise!Next
  <2> QED BY <2>1, <2>2
<1>4. ASSUME NEW c \in Conns, Refuse(c)
      PROVE  Promise!Next
  <2> DEFINE a == [result |-> Refusal(c), seq |-> 0]
  <2>1. answer' = [answer EXCEPT ![c] = a] /\ UNCHANGED <<entities, commands, command>>
    BY <1>4 DEF Refuse, Rollback, Tell
  <2>2. a.result # "committed"
    BY RefusalFacts
  <2> HIDE DEF a
  <2> QED BY <2>1, <2>2, AnswerIsHeard DEF Promise!Next
<1>5. ASSUME NEW c \in Conns, Commit(c)
      PROVE  Promise!Next
  <2>1. command[c] \in Command
    BY <1>5, CommitFacts
  <2> QED BY <1>5, <2>1, CommitApplies DEF Promise!Next
<1>6. ASSUME NEW c \in Conns, Reply(c)
      PROVE  Promise!Next
  <2> DEFINE id == command[c].request.id
             a == [result |-> "committed", seq |-> commands[id].seq]
  <2>1. answer' = [answer EXCEPT ![c] = a] /\ UNCHANGED <<entities, commands, command>>
    BY <1>6 DEF Reply, Tell
  <2>2. id \in DOMAIN commands /\ commands[id].content = command[c]
    BY <1>6 DEF Reply, IInv, Indexed
  <2> HIDE DEF a
  <2> QED BY <2>1, <2>2, AnswerIsHeard DEF Promise!Next
<1>7. CASE UNCHANGED <<entities, commands, command, answer>>
  BY <1>7 DEF CommandsDone, HeardBy
<1> QED
  BY <1>1, <1>2, <1>3, <1>4, <1>5, <1>6, <1>7 DEF Next, Execute, vars, Begin, Check, Crash,
     DeclareOwners

\* The store implements its promise, whatever its connections do.
THEOREM StoreImplementsMap == Spec => ImplementsAtomicStore
<1>1. Init => Promise!Init
  BY PromiseInit
<1>2. IInv /\ [Next]_vars => [Promise!Next]_<<entities, CommandsDone, HeardBy>>
  BY PromiseStep
<1> QED BY <1>1, <1>2, StoreInvariant, PTL DEF Spec, ImplementsAtomicStore, Promise!Spec

-----------------------------------------------------------------------------
(* The upgrade of the engine that owns the store's commands.               *)

UpgradeFiles == [unit : Engine \cup {NoEngine}, record : Engine \cup {NoEngine}]
UpgradeLog ==
  [switched : BOOLEAN, due : BOOLEAN, back : BOOLEAN, active : BOOLEAN,
   backups : UpgradeFiles, outside : BOOLEAN]

\* The steps of a run of setup, by what it is doing.
Staging == {"unstage", "unstaging", "stage", "staging", "prepare", "prepared", "exchange"}
Ahead == {"exchanged", "pins", "unit", "record", "restart", "await", "restarted"}
Removing == {"remove", "removing", "commit", "done"}
BackSteps == {"back_record", "back_unit", "switched_back"}
Finishing == {"stop", "restore", "restart_previous", "await_previous"}
SetupPcs == {"idle", "back"} \cup Staging \cup Ahead \cup Removing \cup BackSteps \cup Finishing

SetupRun ==
  [pc : SetupPcs, state : {"upgrade", "resume", "current", "refused"}, due : BOOLEAN,
   active : BOOLEAN, locked : BOOLEAN, switched : BOOLEAN, failed : BOOLEAN,
   replaced : UpgradeFiles, outside : BOOLEAN]
Process ==
  [at : {"down", "loading", "bound", "up"}, code : Engine \cup {NoEngine},
   recorded : Engine \cup {NoEngine}, keep : BOOLEAN]
Rebound == [was : Engine, is : Engine]

\* Types.  What serves was loaded from an engine.
Installation ==
  /\ bound \in [Module -> Engine]
  /\ DOMAIN prev \subseteq Module
  /\ prev \in [DOMAIN prev -> Rebound]
  /\ bin \in Engine \cup {HalfEngine}
  /\ stage \in Engine \cup {NoEngine, HalfEngine}
  /\ unit \in Engine /\ record \in Engine
  /\ checkout \in Engine \ {1}
  /\ log \in UpgradeLog
  /\ setup \in SetupRun
  /\ service \in Process
  /\ service # Down => service.at # "down" /\ service.code \in Engine /\ service.recorded \in Engine

\* Where setup is says what it found and how far it came.
Upgradable == bin = record /\ record # checkout
Steps ==
  /\ setup.pc \in Staging => Upgradable /\ setup.state = "upgrade"
  /\ setup.pc \in {"prepare", "prepared", "exchange"} => stage = checkout
  /\ setup.pc \in Ahead \cup Removing => bin = checkout
  /\ setup.pc \in Staging \cup Ahead \cup Removing \cup {"back"} => ~log.back
  /\ setup.pc = "exchanged" => setup.switched /\ setup.state = "upgrade"
  /\ setup.pc = "pins" /\ setup.state = "current" =>
       record = checkout /\ (log.due => setup.due)
  /\ setup.pc = "record" => unit = checkout
  /\ setup.pc \in {"restart", "await", "restarted"} \cup Removing => record = checkout
  /\ setup.pc \in Removing => ~log.due
  /\ setup.pc \in {"commit", "done"} => stage = NoEngine
  /\ setup.pc \in Finishing => log.back
  /\ setup.pc \in Finishing /\ ~setup.failed => setup.state = Found /\ Found # "refused"
  /\ log.back => log.due

\* A half engine is one that is being written or removed, or was when setup was
\* killed; setup exchanges directories only when one stands beside bin.
NothingHalf ==
  /\ bin = HalfEngine =>
       "removal" \in cut /\ setup.pc \in BackSteps \cup Finishing \cup {"idle"}
  /\ stage = HalfEngine =>
       \/ "removal" \in cut
       \/ At("removing")
       \/ Upgradable /\ setup.pc \in {"idle", "unstage", "unstaging", "staging"}
       \/ Upgradable /\ setup.pc \in Finishing /\ ~setup.failed
  /\ setup.switched /\ setup.pc \in Ahead => stage # NoEngine
  /\ At("back") => stage # NoEngine
  /\ setup.switched /\ setup.pc \in Finishing /\ ~setup.failed /\ setup.state # "upgrade" =>
       stage # NoEngine

\* Outside two windows the log, or the running setup, knows what an exchange took
\* away: the files are the previous release's or on their way between it and the
\* checkout's, and the way back leads to it.
Going == setup.pc \in Staging \cup Ahead \cup {"back"} \/ (setup.pc \in Finishing /\ ~setup.failed)
Kept ==
  cut \cap {"back", "done"} = {} =>
    /\ bin \in Engine \ {checkout} =>
         /\ setup.pc # "back_record" => bin = record
         /\ setup.pc \notin {"back_record", "back_unit"} => unit = bin
    /\ bin = checkout =>
         /\ record # checkout => stage # NoEngine
         /\ stage # NoEngine =>
              /\ log.backups.record \in Engine \ {checkout}
              /\ log.backups.unit = log.backups.record
              /\ stage \in Engine => stage = log.backups.record
         /\ record = checkout => unit = checkout
         /\ ~log.back
    /\ log.switched /\ setup.pc \notin BackSteps \cup {"commit", "done"} =>
         bin = checkout /\ stage # NoEngine
    /\ setup.switched /\ Going =>
         /\ bin = checkout /\ stage # NoEngine
         /\ setup.replaced = log.backups
    /\ At("back") => setup.switched
    /\ At("prepared") => setup.replaced = [unit |-> unit, record |-> record]
    /\ At("exchange") =>
         /\ log.backups = [unit |-> unit, record |-> record]
         /\ setup.replaced = log.backups
    /\ setup.pc \in BackSteps =>
         /\ setup.replaced.record \in Engine \ {checkout}
         /\ setup.replaced.unit = setup.replaced.record
         /\ bin \in Engine => bin = setup.replaced.record

\* The service runs the installed engine with the ownership bound to it, unless a
\* restart is owed, an exchange is not logged yet, or its owner runs it outside.
Fresh == service = Down \/ (service.code = bin /\ (Up => Attachable(bin)))
Unlogged == BackSteps \cup {"exchanged", "back"}
Serving ==
  /\ setup.pc \in {"await", "restarted"} /\ ~setup.outside => Fresh
  /\ setup.pc \in {"restore", "restart_previous", "await_previous"} => Fresh
  /\ cut \cap {"exchange", "back", "done"} = {} /\ setup.pc \notin Unlogged =>
       /\ bin = checkout /\ record # checkout => log.due
       /\ ~log.due /\ bin \in Engine =>
            /\ log.outside \/ Fresh
            /\ bin \in Rebinds \/ (Attachable(bin) /\ ~log.outside)

UpgradeInv == Installation /\ Steps /\ NothingHalf /\ Kept /\ Serving

-----------------------------------------------------------------------------
(* Types of the upgrade.                                                   *)

\* A step of setup by name keeps the record of the run.
LEMMA RunMoves ==
  ASSUME setup \in SetupRun, NEW p \in SetupPcs
  PROVE  [setup EXCEPT !.pc = p] \in SetupRun
BY DEF SetupRun

\* The bindings name releases: rebinding takes bytes from an engine, restoring from
\* the record of what was rebound.
LEMMA OwnershipTypes ==
  ASSUME Installation, UpgradeNext
  PROVE  (bound \in [Module -> Engine] /\ DOMAIN prev \subseteq Module
          /\ prev \in [DOMAIN prev -> Rebound])'
<1> USE DEF Installation
<1>1. ASSUME ServeBegins, Rebind(service.recorded, bin, stage # NoEngine)
      PROVE  (bound \in [Module -> Engine] /\ DOMAIN prev \subseteq Module
              /\ prev \in [DOMAIN prev -> Rebound])'
  <2> DEFINE due == IF bin \in Engine THEN Due(service.recorded, bin) ELSE {}
  <2>1. due \subseteq Module
    BY DEF Due
  <2>2. service.recorded \in Engine
    BY <1>1 DEF ServeBegins, Down
  <2>3. \A m \in Module : Bytes[service.recorded][m] \in Engine
    BY <2>2, OwnershipAssumption
  <2>4. /\ bound' = [m \in Module |-> IF m \in due THEN Bytes[service.recorded][m] ELSE bound[m]]
        /\ prev' = IF (stage # NoEngine) /\ due # {}
                   THEN [m \in due |-> [was |-> bound[m], is |-> Bytes[service.recorded][m]]]
                   ELSE prev
    BY <1>1 DEF Rebind
  <2> HIDE DEF due
  <2>5. bound' \in [Module -> Engine]
    BY <2>3, <2>4
  <2>6. CASE stage # NoEngine /\ due # {}
    BY <2>1, <2>3, <2>4, <2>5, <2>6 DEF Rebound
  <2>7. CASE ~(stage # NoEngine /\ due # {})
    BY <2>4, <2>5, <2>7
  <2> QED BY <2>6, <2>7
<1>2. CASE Restore
  <2>1. \A m \in DOMAIN prev : prev[m].was \in Engine
    BY DEF Rebound
  <2> QED BY <1>2, <2>1 DEF Restore, NoRecord
<1>3. CASE DropPrevious
  BY <1>3 DEF DropPrevious, NoRecord
<1>4. CASE UNCHANGED ownershipVars
  BY <1>4 DEF ownershipVars
<1>5. ServeBegins => Rebind(service.recorded, bin, stage # NoEngine) \/ UNCHANGED ownershipVars
  BY DEF ServeBegins
<1>6. Serves \/ OwnerStarts \/ Stops \/ RunSetup \/ NewRelease =>
        ServeBegins \/ DropPrevious \/ UNCHANGED ownershipVars
  BY DEF Serves, Attach, OwnerStarts, Stops, RunSetup, NewRelease
<1>7. Forward => DropPrevious \/ UNCHANGED ownershipVars
  BY DEF Forward, Unstage, Unstaged, Stage, Staged, Prepare, Prepared, Exchange, Exchanged,
    Pins, WriteUnit, WriteRecord, Restart, Answers, NotAnswered, RestartLogged, Remove,
    Removed, CommitUpgrade, Done
<1>8. Backward => Restore \/ UNCHANGED ownershipVars
  BY DEF Backward, Back, BackRecord, BackUnit, SwitchedBack, Stop, RestoreOwners,
    RestoreRefused, RestartPrevious, PreviousAnswers, PreviousDoesNot
<1>9. NotCommitted \/ RestoreLost \/ Fails \/ Killed => Restore \/ UNCHANGED ownershipVars
  BY DEF NotCommitted, RestoreLost, Fails, Killed
<1> QED BY <1>1, <1>2, <1>3, <1>4, <1>5, <1>6, <1>7, <1>8, <1>9 DEF UpgradeNext

\* The process of the service is down or was loaded from an engine.
LEMMA ProcessTypes ==
  ASSUME Installation, UpgradeNext
  PROVE  (service \in Process
          /\ (service # Down =>
                service.at # "down" /\ service.code \in Engine /\ service.recorded \in Engine))'
<1> USE DEF Installation
<1>1. Down \in Process
  BY DEF Process, Down
<1>2. CASE service' \in {service, Down}
  BY <1>1, <1>2
<1>3. CASE service' = Loading /\ CanStart
  BY <1>3 DEF CanStart, Loading, Process
<1>4. CASE ServeBegins
  <2>1. service # Down
    BY <1>4 DEF ServeBegins, Down
  <2>2. PICK k \in BOOLEAN : service' = [service EXCEPT !.at = "bound", !.keep = k]
    BY <1>4 DEF ServeBegins
  <2> QED BY <2>1, <2>2 DEF Process
<1>5. CASE Attach
  BY <1>1, <1>5 DEF Attach, Process, Down
<1>6. OwnerStarts \/ Stops \/ RunSetup \/ NewRelease =>
        service' \in {service, Down} \/ (service' = Loading /\ CanStart)
  BY DEF OwnerStarts, Stops, RunSetup, NewRelease
<1>7. Forward => service' \in {service, Down} \/ (service' = Loading /\ CanStart)
  BY DEF Forward, Unstage, Unstaged, Stage, Staged, Prepare, Prepared, Exchange, Exchanged,
    Pins, WriteUnit, WriteRecord, Restart, Restarted, Answers, NotAnswered, RestartLogged, Remove,
    Removed, CommitUpgrade, Done
<1>8. Backward => service' \in {service, Down} \/ (service' = Loading /\ CanStart)
  BY DEF Backward, Back, BackRecord, BackUnit, SwitchedBack, Stop, RestoreOwners,
    RestoreRefused, RestartPrevious, Restarted, PreviousAnswers, PreviousDoesNot
<1>9. NotCommitted \/ RestoreLost \/ Fails \/ Killed => service' = service
  BY DEF NotCommitted, RestoreLost, Fails, Killed
<1> QED BY <1>2, <1>3, <1>4, <1>5, <1>6, <1>7, <1>8, <1>9 DEF UpgradeNext, Serves

\* The files are a release's, nothing, or a half engine: a directory that is
\* exchanged holds something.
LEMMA FileTypes ==
  ASSUME Installation, Steps, NothingHalf, UpgradeNext
  PROVE  (/\ bin \in Engine \cup {HalfEngine}
          /\ stage \in Engine \cup {NoEngine, HalfEngine}
          /\ unit \in Engine /\ record \in Engine /\ checkout \in Engine \ {1})'
<1> USE DEF Installation
<1>1. RunSetup \/ Serves \/ OwnerStarts \/ Stops \/ NotCommitted \/ RestoreLost \/ Fails \/ Killed =>
        UNCHANGED <<fileVars, checkout>>
  BY DEF RunSetup, Serves, ServeBegins, Attach, OwnerStarts, Stops, NotCommitted, RestoreLost,
    Fails, Killed
<1>2. CASE NewRelease
  <2>1. checkout + 1 # 1
    BY OwnershipAssumption DEF Engine
  <2> QED BY <1>2, <2>1 DEF NewRelease, fileVars
<1>3. Exchange \/ Back => stage # NoEngine
  <2>1. checkout # NoEngine
    BY UpgradeAssumption
  <2> QED BY <2>1 DEF Exchange, Back, At, Steps, NothingHalf
<1>4. setup.replaced.unit \in Engine \cup {NoEngine} /\ setup.replaced.record \in Engine \cup {NoEngine}
  BY DEF SetupRun, UpgradeFiles
<1>5. CASE Forward
  BY <1>3, <1>5 DEF Forward, fileVars, Unstage, Unstaged, Stage, Staged, Prepare, Prepared,
    Exchange, Swapped, Exchanged, Pins, WriteUnit, WriteRecord, Restart, Answers, NotAnswered,
    RestartLogged, Remove, Removed, CommitUpgrade, Done
<1>6. CASE Backward
  BY <1>3, <1>4, <1>6 DEF Backward, fileVars, Back, Swapped, BackRecord, BackUnit, SwitchedBack,
    Stop, RestoreOwners, RestoreRefused, RestartPrevious, PreviousAnswers, PreviousDoesNot
<1> QED BY <1>1, <1>2, <1>5, <1>6 DEF UpgradeNext, fileVars

\* The step log and the run of setup keep their shape.
LEMMA RunTypes ==
  ASSUME Installation, UpgradeNext
  PROVE  log' \in UpgradeLog /\ setup' \in SetupRun
<1> USE DEF Installation
<1>1. /\ "idle" \in SetupPcs /\ "back" \in SetupPcs /\ "unstage" \in SetupPcs
      /\ "unstaging" \in SetupPcs /\ "stage" \in SetupPcs /\ "staging" \in SetupPcs
      /\ "prepare" \in SetupPcs /\ "prepared" \in SetupPcs /\ "exchange" \in SetupPcs
      /\ "exchanged" \in SetupPcs /\ "pins" \in SetupPcs /\ "unit" \in SetupPcs
      /\ "record" \in SetupPcs /\ "restart" \in SetupPcs /\ "await" \in SetupPcs
      /\ "restarted" \in SetupPcs /\ "remove" \in SetupPcs /\ "removing" \in SetupPcs
      /\ "commit" \in SetupPcs /\ "done" \in SetupPcs /\ "back_record" \in SetupPcs
      /\ "back_unit" \in SetupPcs /\ "switched_back" \in SetupPcs /\ "stop" \in SetupPcs
      /\ "restore" \in SetupPcs /\ "restart_previous" \in SetupPcs /\ "await_previous" \in SetupPcs
  BY DEF SetupPcs, Staging, Ahead, Removing, BackSteps, Finishing
<1>2. \A p \in SetupPcs : Goes(p) => setup' \in SetupRun
  BY RunMoves DEF Goes
<1>3. Resting \in SetupRun /\ CleanLog \in UpgradeLog
  BY <1>1 DEF Resting, CleanLog, NoBackups, UpgradeFiles, SetupRun, UpgradeLog
<1>4. CASE RunSetup
  <2> DEFINE p == IF log.back THEN "stop" ELSE IF Found = "upgrade" THEN "unstage" ELSE "pins"
             w == IF Found = "upgrade" THEN log.switched
                  ELSE (log.switched \/ Found = "resume") /\ stage # NoEngine
             a == Up \/ (RestartDue /\ log.active)
             l == ~Running /\ ~RestartDue
             d == RestartDue
  <2>1. /\ setup' = [pc |-> p, state |-> Found, due |-> d, active |-> a, locked |-> l,
                     switched |-> w, failed |-> FALSE, replaced |-> log.backups,
                     outside |-> FALSE]
        /\ log' = log
    BY <1>4 DEF RunSetup
  <2>2. p \in SetupPcs
    BY <1>1
  <2>3. Found \in {"upgrade", "resume", "current", "refused"}
    BY DEF Found
  <2>4. d \in BOOLEAN /\ a \in BOOLEAN /\ l \in BOOLEAN /\ w \in BOOLEAN
    BY DEF RestartDue, UpgradeLog
  <2>5. log.backups \in UpgradeFiles
    BY DEF UpgradeLog
  <2> HIDE DEF p, w, a, l, d
  <2>6. setup' \in SetupRun
    BY <2>1, <2>2, <2>3, <2>4, <2>5 DEF SetupRun
  <2> QED BY <2>1, <2>6
<1>5. CASE UNCHANGED <<log, setup>>
  BY <1>5
<1>6. Serves \/ OwnerStarts \/ Stops \/ NewRelease => UNCHANGED <<log, setup>>
  BY DEF Serves, ServeBegins, Attach, OwnerStarts, Stops, NewRelease
<1>7. CASE Unstage \/ Unstaged \/ Stage \/ Staged
  <2>1. log' = log /\ \E p \in SetupPcs : Goes(p)
    BY <1>7, <1>1 DEF Unstage, Unstaged, Stage, Staged
  <2> QED BY <2>1, <1>2
<1>8. CASE Prepare
  BY <1>8, <1>1 DEF Prepare, Replaced, SetupRun, UpgradeFiles
<1>9. CASE Prepared
  BY <1>9, <1>1, <1>2 DEF Prepared, SetupRun, UpgradeLog
<1>10. CASE Exchange
  BY <1>10, <1>1 DEF Exchange, SetupRun
<1>11. CASE Exchanged
  BY <1>11, <1>1, <1>2 DEF Exchanged, UpgradeLog
<1>12. CASE Answers \/ Remove \/ Removed \/ CommitUpgrade \/ NotCommitted
  <2>1. log' = log /\ \E p \in SetupPcs : Goes(p)
    BY <1>12, <1>1 DEF Answers, Remove, Removed, CommitUpgrade, NotCommitted
  <2> QED BY <2>1, <1>2
<1>13. CASE Pins
  <2>1. log' = log /\ \E p \in {"unit", "restart", "remove"} : Goes(p)
    BY <1>13 DEF Pins
  <2> QED BY <2>1, <1>1, <1>2
<1>14. CASE WriteUnit
  BY <1>14, <1>1 DEF WriteUnit, SetupRun, UpgradeFiles
<1>15. CASE WriteRecord
  BY <1>15, <1>1 DEF WriteRecord, SetupRun, UpgradeFiles
<1>16. CASE Restart
  <2>1. CASE setup' = [setup EXCEPT !.pc = "await"]
    BY <1>16, <2>1, <1>1, RunMoves DEF Restart
  <2>2. CASE setup' = [setup EXCEPT !.pc = "restarted", !.outside = Running]
    <3>1. PICK b \in BOOLEAN : setup' = [setup EXCEPT !.pc = "restarted", !.outside = b]
      BY <2>2 DEF Running
    <3>2. setup' \in SetupRun
      BY <3>1, <1>1 DEF SetupRun
    <3> QED BY <1>16, <3>2 DEF Restart
  <2> QED BY <1>16, <2>1, <2>2 DEF Restart, Goes
<1>17. CASE NotAnswered
  <2>1. log' = log /\ (setup' = Resting \/ setup' = [setup EXCEPT !.pc = "back", !.failed = TRUE])
    BY <1>17 DEF NotAnswered
  <2>2. CASE setup' = [setup EXCEPT !.pc = "back", !.failed = TRUE]
    BY <2>1, <2>2, <1>1 DEF SetupRun
  <2> QED BY <2>1, <2>2, <1>3
<1>18. CASE RestartLogged
  <2>1. /\ log' = [log EXCEPT !.due = FALSE, !.back = FALSE, !.outside = setup.outside]
        /\ Goes("remove")
    BY <1>18 DEF RestartLogged
  <2>2. setup.outside \in BOOLEAN
    BY DEF SetupRun
  <2>3. log' \in UpgradeLog
    BY <2>1, <2>2 DEF UpgradeLog
  <2> QED BY <2>1, <2>3, <1>1, <1>2
<1>19. CASE Done
  BY <1>3, <1>19 DEF Done, Returns, UpgradeLog, CleanLog
<1>20. CASE Back \/ BackRecord \/ BackUnit \/ Stop \/ RestoreOwners \/ RestartPrevious
  <2>1. log' = log /\ \E p \in SetupPcs : Goes(p)
    BY <1>20, <1>1 DEF Back, BackRecord, BackUnit, Stop, RestoreOwners, RestartPrevious
  <2> QED BY <2>1, <1>2
<1>21. CASE SwitchedBack
  <2>1. log' \in UpgradeLog
    BY <1>21 DEF SwitchedBack, UpgradeLog
  <2>2. setup' = Resting \/ Goes("stop")
    BY <1>21 DEF SwitchedBack, Returns
  <2> QED BY <1>3, <2>1, <2>2, <1>1, <1>2
<1>22. CASE RestoreRefused \/ RestoreLost
  BY <1>3, <1>22 DEF RestoreRefused, RestoreLost, Returns, UpgradeLog
<1>23. CASE PreviousAnswers
  <2>1. log' \in UpgradeLog
    BY <1>23 DEF PreviousAnswers, UpgradeLog
  <2>2. \/ setup' = Resting
        \/ \E p \in {"unstage", "pins"} : setup' = [setup EXCEPT !.pc = p, !.active = TRUE]
    BY <1>23 DEF PreviousAnswers, Returns
  <2>3. ASSUME NEW p \in SetupPcs, setup' = [setup EXCEPT !.pc = p, !.active = TRUE]
        PROVE  setup' \in SetupRun
    BY <2>3 DEF SetupRun
  <2>4. {"unstage", "pins"} \subseteq SetupPcs
    BY <1>1
  <2> QED BY <1>3, <2>1, <2>2, <2>3, <2>4
<1>24. CASE PreviousDoesNot \/ Killed
  BY <1>3, <1>24 DEF PreviousDoesNot, Killed, Returns
<1>25. CASE Fails
  <2>1. \/ setup' = Resting
        \/ \E b \in BOOLEAN : setup' = [setup EXCEPT !.pc = "back", !.failed = b]
    BY <1>25 DEF Fails
  <2>2. log' = log
    BY <1>25 DEF Fails
  <2>3. ASSUME NEW b \in BOOLEAN, setup' = [setup EXCEPT !.pc = "back", !.failed = b]
        PROVE  setup' \in SetupRun
    BY <2>3, <1>1 DEF SetupRun
  <2> QED BY <1>3, <2>1, <2>2, <2>3
<1> QED
  BY <1>4, <1>5, <1>6, <1>7, <1>8, <1>9, <1>10, <1>11, <1>13, <1>14, <1>15, <1>16, <1>17, <1>18,
     <1>19, <1>20, <1>21, <1>22, <1>23, <1>24, <1>25, <1>12 DEF UpgradeNext, Forward, Backward

-----------------------------------------------------------------------------
(* Where the steps of setup and of the service lead.                       *)

\* Where the pins lead: to the files while they are not all the checkout's, else to
\* the restart that is owed, else to the removal.
LEMMA PinsLead ==
  ASSUME Pins, setup \in SetupRun
  PROVE  /\ At("pins")
         /\ UNCHANGED <<ownershipVars, fileVars, log, checkout, service, cut>>
         /\ \/ setup.state # "current" /\ Goes("unit")
            \/ setup.state = "current" /\ setup.due /\ Goes("restart")
            \/ setup.state = "current" /\ ~setup.due /\ Goes("remove")
<1>1. CASE setup.state # "current"
  BY <1>1 DEF Pins, Goes
<1>2. CASE setup.state = "current" /\ setup.due
  BY <1>2 DEF Pins, Goes
<1>3. CASE setup.state = "current" /\ ~setup.due
  BY <1>3 DEF Pins, Goes, SetupRun
<1> QED BY <1>1, <1>2, <1>3

\* A unit that was active is restarted on the installed engine, and waited for.
LEMMA RestartLeads ==
  ASSUME Restart, setup \in SetupRun
  PROVE  /\ At("restart")
         /\ UNCHANGED <<ownershipVars, fileVars, log, checkout, cut>>
         /\ \/ Restarted /\ Goes("await")
            \/ \E b \in BOOLEAN :
                 /\ setup' = [setup EXCEPT !.pc = "restarted", !.outside = b]
                 /\ service # Down => b
                 /\ UNCHANGED service
<1>1. CASE setup.active
  BY <1>1 DEF Restart
<1>2. CASE ~setup.active
  <2> DEFINE b == Running
  <2>1. b \in BOOLEAN
    BY DEF Running
  <2>2. /\ At("restart")
        /\ UNCHANGED <<ownershipVars, fileVars, log, checkout, cut>>
        /\ setup' = [setup EXCEPT !.pc = "restarted", !.outside = b]
        /\ UNCHANGED service
    BY <1>2 DEF Restart
  <2>3. service # Down => b
    BY DEF Running
  <2> QED BY <2>1, <2>2, <2>3
<1> QED BY <1>1, <1>2

\* What a restart starts was loaded from the installed engine.
LEMMA RestartedIsFresh == ASSUME Restarted, service \in Process, UNCHANGED bin PROVE Fresh'
BY DEF Restarted, CanStart, Loading, Fresh, Up

\* After the exchange back a failed run goes on to finish it; another ends.
LEMMA SwitchedBackLeads ==
  ASSUME SwitchedBack
  PROVE  /\ At("switched_back")
         /\ log' = [log EXCEPT !.switched = FALSE, !.due = TRUE, !.back = TRUE]
         /\ UNCHANGED <<ownershipVars, fileVars, checkout, service, cut>>
         /\ \/ setup.failed /\ Goes("stop")
            \/ Returns
<1>1. CASE setup.failed
  BY <1>1 DEF SwitchedBack
<1>2. CASE ~setup.failed
  BY <1>2 DEF SwitchedBack
<1> QED BY <1>1, <1>2

\* A later run that finished the switch back goes on with what it found.
LEMMA PreviousAnswersLeads ==
  ASSUME PreviousAnswers
  PROVE  /\ At("await_previous") /\ Up
         /\ log' = [log EXCEPT !.due = FALSE, !.back = FALSE, !.outside = FALSE]
         /\ UNCHANGED <<ownershipVars, fileVars, checkout, service, cut>>
         /\ \/ setup.failed /\ Returns
            \/ /\ ~setup.failed /\ setup.state = "upgrade"
               /\ setup' = [setup EXCEPT !.pc = "unstage", !.active = TRUE]
            \/ /\ ~setup.failed /\ setup.state # "upgrade"
               /\ setup' = [setup EXCEPT !.pc = "pins", !.active = TRUE]
<1>1. CASE setup.failed
  BY <1>1 DEF PreviousAnswers
<1>2. CASE ~setup.failed
  BY <1>2 DEF PreviousAnswers
<1> QED BY <1>1, <1>2

\* A service that comes up keeps the code it loaded; one that rebinds may move the
\* ownership, and is not up yet.
LEMMA ServeBeginsLeads ==
  ASSUME ServeBegins, service \in Process
  PROVE  /\ service.at = "loading" /\ service'.at = "bound" /\ service'.code = service.code
         /\ UNCHANGED <<fileVars, log, checkout, setup, cut>>
         /\ service.code \notin Rebinds => bound' = bound
         /\ Fresh => Fresh'
<1>1. CASE service.code \in Rebinds
  <2>1. /\ service.at = "loading" /\ service'.at = "bound" /\ service'.code = service.code
        /\ UNCHANGED <<fileVars, log, checkout, setup, cut>>
    BY <1>1 DEF ServeBegins, Process
  <2> QED BY <1>1, <2>1 DEF Fresh, Down, Up, fileVars
<1>2. CASE service.code \notin Rebinds
  <2>1. /\ service.at = "loading" /\ service'.at = "bound" /\ service'.code = service.code
        /\ UNCHANGED <<fileVars, log, checkout, setup, cut>> /\ UNCHANGED ownershipVars
    BY <1>2 DEF ServeBegins, Process
  <2> QED BY <2>1 DEF Fresh, Down, Up, fileVars, ownershipVars
<1> QED BY <1>1, <1>2

-----------------------------------------------------------------------------
(* No step breaks the invariant.                                           *)

\* The service comes up, is started, or stops: the files are as they were.
LEMMA ServiceKeeps ==
  ASSUME UpgradeInv, ServeBegins \/ Attach \/ OwnerStarts \/ Stops
  PROVE  (Steps /\ NothingHalf /\ Kept /\ Serving)'
<1> USE UpgradeAssumption, OwnershipAssumption
<1> USE DEF UpgradeInv, Installation, UpgradeFiles, UpgradeLog, SetupRun, Process
<1> USE DEF ownershipVars, fileVars, At, Goes, Idle, Returns, Resting, NoBackups, Up, Down, Running
<1> USE DEF Staging, Ahead, Removing, BackSteps, Finishing, Upgradable
<1>1. CASE ServeBegins
  <2> USE <1>1, ServeBeginsLeads
  <2>1. Steps'
    BY DEF Steps, Found
  <2>2. NothingHalf'
    BY DEF Steps, NothingHalf, Found
  <2>3. Kept'
    BY DEF Steps, NothingHalf, Kept, Going, Found
  <2>4. Serving'
    BY DEF Steps, NothingHalf, Kept, Going, Serving, Fresh, Attachable, Unlogged, Found
  <2> QED BY <2>1, <2>2, <2>3, <2>4
<1>2. CASE Attach
  <2> USE <1>2 DEF Attach, DropPrevious, Attachable
  <2>1. Steps'
    BY DEF Steps, Found
  <2>2. NothingHalf'
    BY DEF Steps, NothingHalf, Found
  <2>3. Kept'
    BY DEF Steps, NothingHalf, Kept, Going, Found
  <2>4. Serving'
    BY DEF Steps, NothingHalf, Kept, Going, Serving, Fresh, Attachable, Unlogged, Found
  <2> QED BY <2>1, <2>2, <2>3, <2>4
<1>3. CASE OwnerStarts
  <2> USE <1>3 DEF OwnerStarts, CanStart, Loading
  <2>1. Steps'
    BY DEF Steps, Found
  <2>2. NothingHalf'
    BY DEF Steps, NothingHalf, Found
  <2>3. Kept'
    BY DEF Steps, NothingHalf, Kept, Going, Found
  <2>4. Serving'
    BY DEF Steps, NothingHalf, Kept, Going, Serving, Fresh, Attachable, Unlogged, Found
  <2> QED BY <2>1, <2>2, <2>3, <2>4
<1>4. CASE Stops
  <2> USE <1>4 DEF Stops
  <2>1. Steps'
    BY DEF Steps, Found
  <2>2. NothingHalf'
    BY DEF Steps, NothingHalf, Found
  <2>3. Kept'
    BY DEF Steps, NothingHalf, Kept, Going, Found
  <2>4. Serving'
    BY DEF Steps, NothingHalf, Kept, Going, Serving, Fresh, Attachable, Unlogged, Found
  <2> QED BY <2>1, <2>2, <2>3, <2>4
<1> QED BY <1>1, <1>2, <1>3, <1>4

\* A run of setup starts from what it finds, or the owner turns to a newer release.
LEMMA StartKeeps ==
  ASSUME UpgradeInv, RunSetup \/ NewRelease
  PROVE  (Steps /\ NothingHalf /\ Kept /\ Serving)'
<1> USE UpgradeAssumption, OwnershipAssumption
<1> USE DEF UpgradeInv, Installation, UpgradeFiles, UpgradeLog, SetupRun, Process
<1> USE DEF ownershipVars, fileVars, At, Goes, Idle, Returns, Resting, NoBackups, Up, Down, Running
<1> USE DEF Staging, Ahead, Removing, BackSteps, Finishing, Upgradable
<1>1. CASE RunSetup
  <2>1. /\ Idle /\ Found # "refused"
        /\ UNCHANGED <<ownershipVars, fileVars, log, checkout, service, cut>>
    BY <1>1 DEF RunSetup
  <2>2. /\ setup'.state = Found /\ ~setup'.failed /\ ~setup'.outside
        /\ log.due => setup'.due
        /\ setup'.replaced = log.backups
    BY <1>1 DEF RunSetup, RestartDue
  <2>3. \/ log.back /\ setup'.pc = "stop"
        \/ ~log.back /\ Found = "upgrade" /\ setup'.pc = "unstage"
        \/ ~log.back /\ Found # "upgrade" /\ setup'.pc = "pins"
    BY <1>1 DEF RunSetup
  <2>4. /\ Found = "upgrade" => setup'.switched = log.switched
        /\ Found # "upgrade" /\ setup'.switched => stage # NoEngine
    BY <1>1 DEF RunSetup
  <2> USE <2>1, <2>2, <2>3, <2>4
  <2>5. Steps'
    BY DEF Steps, Found
  <2>6. NothingHalf'
    BY DEF Steps, NothingHalf, Found
  <2>7. Kept'
    BY DEF Steps, NothingHalf, Kept, Going, Found
  <2>8. Serving'
    BY DEF Steps, NothingHalf, Kept, Going, Serving, Fresh, Attachable, Unlogged, Found
  <2> QED BY <2>5, <2>6, <2>7, <2>8
<1>2. CASE NewRelease
  <2> USE <1>2 DEF NewRelease, Settled
  <2>1. Steps'
    BY DEF Steps, Found
  <2>2. NothingHalf'
    BY DEF Steps, NothingHalf, Found
  <2>3. Kept'
    BY DEF Steps, NothingHalf, Kept, Going, Found
  <2>4. Serving'
    BY DEF Steps, NothingHalf, Kept, Going, Serving, Fresh, Attachable, Unlogged, Found
  <2> QED BY <2>1, <2>2, <2>3, <2>4
<1> QED BY <1>1, <1>2

\* The new engine is written beside the installed one, and exchanged with it whole.
LEMMA StagingKeeps ==
  ASSUME UpgradeInv, Unstage \/ Unstaged \/ Stage \/ Staged \/ Prepare \/ Prepared \/ Exchange
  PROVE  (Steps /\ NothingHalf /\ Kept /\ Serving)'
<1> USE UpgradeAssumption, OwnershipAssumption
<1> USE DEF UpgradeInv, Installation, UpgradeFiles, UpgradeLog, SetupRun, Process
<1> USE DEF ownershipVars, fileVars, At, Goes, Idle, Returns, Resting, NoBackups, Up, Down, Running
<1> USE DEF Staging, Ahead, Removing, BackSteps, Finishing, Upgradable
<1>1. CASE Unstage
  <2> USE <1>1 DEF Unstage
  <2>1. Steps'
    BY DEF Steps, Found
  <2>2. NothingHalf'
    BY DEF Steps, NothingHalf, Found
  <2>3. Kept'
    <3>1. bin # checkout /\ At("unstage")
      BY DEF Steps
    <3>2. UNCHANGED <<bin, unit, record, log, checkout, cut>>
      OBVIOUS
    <3>3. setup'.pc \in {"stage", "unstaging"} /\ setup'.switched = setup.switched
      OBVIOUS
    <3> QED BY <3>1, <3>2, <3>3 DEF Kept, Going
  <2>4. Serving'
    BY DEF Steps, NothingHalf, Kept, Going, Serving, Fresh, Attachable, Unlogged, Found
  <2> QED BY <2>1, <2>2, <2>3, <2>4
<1>2. CASE Unstaged
  <2> USE <1>2 DEF Unstaged
  <2>1. Steps'
    BY DEF Steps, Found
  <2>2. NothingHalf'
    BY DEF Steps, NothingHalf, Found
  <2>3. Kept'
    BY DEF Steps, NothingHalf, Kept, Going, Found
  <2>4. Serving'
    BY DEF Steps, NothingHalf, Kept, Going, Serving, Fresh, Attachable, Unlogged, Found
  <2> QED BY <2>1, <2>2, <2>3, <2>4
<1>3. CASE Stage
  <2> USE <1>3 DEF Stage
  <2>1. Steps'
    BY DEF Steps, Found
  <2>2. NothingHalf'
    BY DEF Steps, NothingHalf, Found
  <2>3. Kept'
    BY DEF Steps, NothingHalf, Kept, Going, Found
  <2>4. Serving'
    BY DEF Steps, NothingHalf, Kept, Going, Serving, Fresh, Attachable, Unlogged, Found
  <2> QED BY <2>1, <2>2, <2>3, <2>4
<1>4. CASE Staged
  <2> USE <1>4 DEF Staged
  <2>1. Steps'
    BY DEF Steps, Found
  <2>2. NothingHalf'
    BY DEF Steps, NothingHalf, Found
  <2>3. Kept'
    BY DEF Steps, NothingHalf, Kept, Going, Found
  <2>4. Serving'
    BY DEF Steps, NothingHalf, Kept, Going, Serving, Fresh, Attachable, Unlogged, Found
  <2> QED BY <2>1, <2>2, <2>3, <2>4
<1>5. CASE Prepare
  <2> USE <1>5 DEF Prepare, Replaced
  <2>1. Steps'
    BY DEF Steps, Found
  <2>2. NothingHalf'
    BY DEF Steps, NothingHalf, Found
  <2>3. Kept'
    BY DEF Steps, NothingHalf, Kept, Going, Found
  <2>4. Serving'
    BY DEF Steps, NothingHalf, Kept, Going, Serving, Fresh, Attachable, Unlogged, Found
  <2> QED BY <2>1, <2>2, <2>3, <2>4
<1>6. CASE Prepared
  <2> USE <1>6 DEF Prepared
  <2>1. Steps'
    BY DEF Steps, Found
  <2>2. NothingHalf'
    BY DEF Steps, NothingHalf, Found
  <2>3. Kept'
    BY DEF Steps, NothingHalf, Kept, Going, Found
  <2>4. Serving'
    BY DEF Steps, NothingHalf, Kept, Going, Serving, Fresh, Attachable, Unlogged, Found
  <2> QED BY <2>1, <2>2, <2>3, <2>4
<1>7. CASE Exchange
  <2> USE <1>7 DEF Exchange, Swapped
  <2>1. Steps'
    BY DEF Steps, Found
  <2>2. NothingHalf'
    BY DEF Steps, NothingHalf, Found
  <2>3. Kept'
    BY DEF Steps, NothingHalf, Kept, Going, Found
  <2>4. Serving'
    BY DEF Steps, NothingHalf, Kept, Going, Serving, Fresh, Attachable, Unlogged, Found
  <2> QED BY <2>1, <2>2, <2>3, <2>4
<1> QED BY <1>1, <1>2, <1>3, <1>4, <1>5, <1>6, <1>7

\* The exchange is logged, and unit, record and service follow the files.
LEMMA AheadKeeps ==
  ASSUME UpgradeInv,
         \/ Exchanged \/ Pins \/ WriteUnit \/ WriteRecord
         \/ Restart \/ Answers \/ NotAnswered \/ RestartLogged
  PROVE  (Steps /\ NothingHalf /\ Kept /\ Serving)'
<1> USE UpgradeAssumption, OwnershipAssumption
<1> USE DEF UpgradeInv, Installation, UpgradeFiles, UpgradeLog, SetupRun, Process
<1> USE DEF ownershipVars, fileVars, At, Goes, Idle, Returns, Resting, NoBackups, Up, Down, Running
<1> USE DEF Staging, Ahead, Removing, BackSteps, Finishing, Upgradable
<1>1. CASE Exchanged
  <2> USE <1>1 DEF Exchanged
  <2>1. Steps'
    BY DEF Steps, Found
  <2>2. NothingHalf'
    BY DEF Steps, NothingHalf, Found
  <2>3. Kept'
    BY DEF Steps, NothingHalf, Kept, Going, Found
  <2>4. Serving'
    BY DEF Steps, NothingHalf, Kept, Going, Serving, Fresh, Attachable, Unlogged, Found
  <2> QED BY <2>1, <2>2, <2>3, <2>4
<1>2. CASE Pins
  <2>1. /\ At("pins")
        /\ UNCHANGED <<ownershipVars, fileVars, log, checkout, service, cut>>
    BY <1>2, PinsLead
  <2>2. \/ setup.state # "current" /\ Goes("unit")
        \/ setup.state = "current" /\ setup.due /\ Goes("restart")
        \/ setup.state = "current" /\ ~setup.due /\ Goes("remove")
    BY <1>2, PinsLead
  <2>3. CASE setup.state # "current" /\ Goes("unit")
    <3> USE <2>1, <2>3
    <3>1. Steps'
      BY DEF Steps, Found
    <3>2. NothingHalf'
      BY DEF Steps, NothingHalf, Found
    <3>3. Kept'
      BY DEF Steps, NothingHalf, Kept, Going, Found
    <3>4. Serving'
      BY DEF Steps, NothingHalf, Kept, Going, Serving, Fresh, Attachable, Unlogged, Found
    <3> QED BY <3>1, <3>2, <3>3, <3>4
  <2>4. CASE setup.state = "current" /\ setup.due /\ Goes("restart")
    <3> USE <2>1, <2>4
    <3>1. Steps'
      BY DEF Steps, Found
    <3>2. NothingHalf'
      BY DEF Steps, NothingHalf, Found
    <3>3. Kept'
      BY DEF Steps, NothingHalf, Kept, Going, Found
    <3>4. Serving'
      BY DEF Steps, NothingHalf, Kept, Going, Serving, Fresh, Attachable, Unlogged, Found
    <3> QED BY <3>1, <3>2, <3>3, <3>4
  <2>5. CASE setup.state = "current" /\ ~setup.due /\ Goes("remove")
    <3> USE <2>1, <2>5
    <3>1. Steps'
      BY DEF Steps, Found
    <3>2. NothingHalf'
      BY DEF Steps, NothingHalf, Found
    <3>3. Kept'
      BY DEF Steps, NothingHalf, Kept, Going, Found
    <3>4. Serving'
      BY DEF Steps, NothingHalf, Kept, Going, Serving, Fresh, Attachable, Unlogged, Found
    <3> QED BY <3>1, <3>2, <3>3, <3>4
  <2> QED BY <2>3, <2>4, <2>5, <2>2
<1>3. CASE WriteUnit
  <2> USE <1>3 DEF WriteUnit
  <2>1. Steps'
    BY DEF Steps, Found
  <2>2. NothingHalf'
    BY DEF Steps, NothingHalf, Found
  <2>3. Kept'
    BY DEF Steps, NothingHalf, Kept, Going, Found
  <2>4. Serving'
    BY DEF Steps, NothingHalf, Kept, Going, Serving, Fresh, Attachable, Unlogged, Found
  <2> QED BY <2>1, <2>2, <2>3, <2>4
<1>4. CASE WriteRecord
  <2> USE <1>4 DEF WriteRecord
  <2>1. Steps'
    BY DEF Steps, Found
  <2>2. NothingHalf'
    BY DEF Steps, NothingHalf, Found
  <2>3. Kept'
    BY DEF Steps, NothingHalf, Kept, Going, Found
  <2>4. Serving'
    BY DEF Steps, NothingHalf, Kept, Going, Serving, Fresh, Attachable, Unlogged, Found
  <2> QED BY <2>1, <2>2, <2>3, <2>4
<1>5. CASE Restart
  <2>1. At("restart") /\ UNCHANGED <<ownershipVars, fileVars, log, checkout, cut>>
    BY <1>5, RestartLeads
  <2>2. \/ Fresh' /\ Goes("await")
        \/ \E b \in BOOLEAN :
             /\ setup' = [setup EXCEPT !.pc = "restarted", !.outside = b]
             /\ service # Down => b
             /\ UNCHANGED service
    BY <1>5, <2>1, RestartLeads, RestartedIsFresh
  <2>3. Attachable(bin)' = Attachable(bin)
    BY <2>1 DEF Attachable
  <2>4. UNCHANGED service /\ (Fresh \/ service = Down) => Fresh'
    BY <2>1, <2>3 DEF Fresh
  <2>5. CASE Fresh' /\ Goes("await")
    <3> USE <2>1, <2>5
    <3>1. Steps'
      BY DEF Steps, Found
    <3>2. NothingHalf'
      BY DEF Steps, NothingHalf, Found
    <3>3. Kept'
      BY DEF Steps, NothingHalf, Kept, Going, Found
    <3>4. Serving'
      BY <2>3, <2>4 DEF Steps, Serving, Unlogged
    <3> QED BY <3>1, <3>2, <3>3, <3>4
  <2>6. ASSUME NEW b \in BOOLEAN, setup' = [setup EXCEPT !.pc = "restarted", !.outside = b],
              service # Down => b, UNCHANGED service
       PROVE  (Steps /\ NothingHalf /\ Kept /\ Serving)'
    <3> USE <2>1, <2>6
    <3>1. Steps'
      BY DEF Steps, Found
    <3>2. NothingHalf'
      BY DEF Steps, NothingHalf, Found
    <3>3. Kept'
      BY DEF Steps, NothingHalf, Kept, Going, Found
    <3>4. Serving'
      BY <2>3, <2>4 DEF Steps, Serving, Unlogged
    <3> QED BY <3>1, <3>2, <3>3, <3>4
  <2> QED BY <2>5, <2>6, <2>2
<1>6. CASE Answers
  <2> USE <1>6 DEF Answers
  <2>1. Steps'
    BY DEF Steps, Found
  <2>2. NothingHalf'
    BY DEF Steps, NothingHalf, Found
  <2>3. Kept'
    BY DEF Steps, NothingHalf, Kept, Going, Found
  <2>4. Serving'
    BY DEF Steps, NothingHalf, Kept, Going, Serving, Fresh, Attachable, Unlogged, Found
  <2> QED BY <2>1, <2>2, <2>3, <2>4
<1>7. CASE NotAnswered
  <2>1. CASE setup.switched
    <3> USE <1>7, <2>1 DEF NotAnswered
    <3>1. Steps'
      BY DEF Steps, Found
    <3>2. NothingHalf'
      BY DEF Steps, NothingHalf, Found
    <3>3. Kept'
      BY DEF Steps, NothingHalf, Kept, Going, Found
    <3>4. Serving'
      BY DEF Steps, NothingHalf, Kept, Going, Serving, Fresh, Attachable, Unlogged, Found
    <3> QED BY <3>1, <3>2, <3>3, <3>4
  <2>2. CASE ~setup.switched
    <3> USE <1>7, <2>2 DEF NotAnswered
    <3>1. Steps'
      BY DEF Steps, Found
    <3>2. NothingHalf'
      BY DEF Steps, NothingHalf, Found
    <3>3. Kept'
      BY DEF Steps, NothingHalf, Kept, Going, Found
    <3>4. Serving'
      BY DEF Steps, NothingHalf, Kept, Going, Serving, Fresh, Attachable, Unlogged, Found
    <3> QED BY <3>1, <3>2, <3>3, <3>4
  <2> QED BY <2>1, <2>2
<1>8. CASE RestartLogged
  <2> USE <1>8 DEF RestartLogged
  <2>1. Steps'
    BY DEF Steps, Found
  <2>2. NothingHalf'
    BY DEF Steps, NothingHalf, Found
  <2>3. Kept'
    BY DEF Steps, NothingHalf, Kept, Going, Found
  <2>4. Serving'
    BY DEF Steps, NothingHalf, Kept, Going, Serving, Fresh, Attachable, Unlogged, Found
  <2> QED BY <2>1, <2>2, <2>3, <2>4
<1> QED BY <1>1, <1>2, <1>3, <1>4, <1>5, <1>6, <1>7, <1>8

\* The previous engine is removed when nothing needs it any more.
LEMMA RemovingKeeps ==
  ASSUME UpgradeInv, Remove \/ Removed \/ CommitUpgrade \/ NotCommitted \/ Done
  PROVE  (Steps /\ NothingHalf /\ Kept /\ Serving)'
<1> USE UpgradeAssumption, OwnershipAssumption
<1> USE DEF UpgradeInv, Installation, UpgradeFiles, UpgradeLog, SetupRun, Process
<1> USE DEF ownershipVars, fileVars, At, Goes, Idle, Returns, Resting, NoBackups, Up, Down, Running
<1> USE DEF Staging, Ahead, Removing, BackSteps, Finishing, Upgradable
<1>1. CASE Remove
  <2> USE <1>1 DEF Remove
  <2>1. Steps'
    BY DEF Steps, Found
  <2>2. NothingHalf'
    BY DEF Steps, NothingHalf, Found
  <2>3. Kept'
    BY DEF Steps, NothingHalf, Kept, Going, Found
  <2>4. Serving'
    BY DEF Steps, NothingHalf, Kept, Going, Serving, Fresh, Attachable, Unlogged, Found
  <2> QED BY <2>1, <2>2, <2>3, <2>4
<1>2. CASE Removed
  <2> USE <1>2 DEF Removed
  <2>1. Steps'
    BY DEF Steps, Found
  <2>2. NothingHalf'
    BY DEF Steps, NothingHalf, Found
  <2>3. Kept'
    BY DEF Steps, NothingHalf, Kept, Going, Found
  <2>4. Serving'
    BY DEF Steps, NothingHalf, Kept, Going, Serving, Fresh, Attachable, Unlogged, Found
  <2> QED BY <2>1, <2>2, <2>3, <2>4
<1>3. CASE CommitUpgrade
  <2> USE <1>3 DEF CommitUpgrade, DropPrevious
  <2>1. Steps'
    BY DEF Steps, Found
  <2>2. NothingHalf'
    BY DEF Steps, NothingHalf, Found
  <2>3. Kept'
    BY DEF Steps, NothingHalf, Kept, Going, Found
  <2>4. Serving'
    BY DEF Steps, NothingHalf, Kept, Going, Serving, Fresh, Attachable, Unlogged, Found
  <2> QED BY <2>1, <2>2, <2>3, <2>4
<1>4. CASE NotCommitted
  <2> USE <1>4 DEF NotCommitted
  <2>1. Steps'
    BY DEF Steps, Found
  <2>2. NothingHalf'
    BY DEF Steps, NothingHalf, Found
  <2>3. Kept'
    BY DEF Steps, NothingHalf, Kept, Going, Found
  <2>4. Serving'
    BY DEF Steps, NothingHalf, Kept, Going, Serving, Fresh, Attachable, Unlogged, Found
  <2> QED BY <2>1, <2>2, <2>3, <2>4
<1>5. CASE Done
  <2> USE <1>5 DEF Done, CleanLog
  <2>1. Steps'
    BY DEF Steps, Found
  <2>2. NothingHalf'
    BY DEF Steps, NothingHalf, Found
  <2>3. Kept'
    BY DEF Steps, NothingHalf, Kept, Going, Found
  <2>4. Serving'
    BY DEF Steps, NothingHalf, Kept, Going, Serving, Fresh, Attachable, Unlogged, Found
  <2> QED BY <2>1, <2>2, <2>3, <2>4
<1> QED BY <1>1, <1>2, <1>3, <1>4, <1>5

\* The way back puts back what the exchange took away.
LEMMA BackKeeps ==
  ASSUME UpgradeInv, Back \/ BackRecord \/ BackUnit \/ SwitchedBack
  PROVE  (Steps /\ NothingHalf /\ Kept /\ Serving)'
<1> USE UpgradeAssumption, OwnershipAssumption
<1> USE DEF UpgradeInv, Installation, UpgradeFiles, UpgradeLog, SetupRun, Process
<1> USE DEF ownershipVars, fileVars, At, Goes, Idle, Returns, Resting, NoBackups, Up, Down, Running
<1> USE DEF Staging, Ahead, Removing, BackSteps, Finishing, Upgradable
<1>1. CASE Back
  <2> USE <1>1 DEF Back, Swapped
  <2>1. Steps'
    BY DEF Steps, Found
  <2>2. NothingHalf'
    BY DEF Steps, NothingHalf, Found
  <2>3. Kept'
    BY DEF Steps, NothingHalf, Kept, Going, Found
  <2>4. Serving'
    BY DEF Steps, NothingHalf, Kept, Going, Serving, Fresh, Attachable, Unlogged, Found
  <2> QED BY <2>1, <2>2, <2>3, <2>4
<1>2. CASE BackRecord
  <2> USE <1>2 DEF BackRecord
  <2>1. Steps'
    BY DEF Steps, Found
  <2>2. NothingHalf'
    BY DEF Steps, NothingHalf, Found
  <2>3. Kept'
    BY DEF Steps, NothingHalf, Kept, Going, Found
  <2>4. Serving'
    BY DEF Steps, NothingHalf, Kept, Going, Serving, Fresh, Attachable, Unlogged, Found
  <2> QED BY <2>1, <2>2, <2>3, <2>4
<1>3. CASE BackUnit
  <2> USE <1>3 DEF BackUnit
  <2>1. Steps'
    BY DEF Steps, Found
  <2>2. NothingHalf'
    BY DEF Steps, NothingHalf, Found
  <2>3. Kept'
    BY DEF Steps, NothingHalf, Kept, Going, Found
  <2>4. Serving'
    BY DEF Steps, NothingHalf, Kept, Going, Serving, Fresh, Attachable, Unlogged, Found
  <2> QED BY <2>1, <2>2, <2>3, <2>4
<1>4. CASE SwitchedBack
  <2>1. /\ At("switched_back")
        /\ log' = [log EXCEPT !.switched = FALSE, !.due = TRUE, !.back = TRUE]
        /\ UNCHANGED <<ownershipVars, fileVars, checkout, service, cut>>
    BY <1>4, SwitchedBackLeads
  <2>2. (setup.failed /\ Goes("stop")) \/ Returns
    BY <1>4, SwitchedBackLeads
  <2>3. CASE setup.failed /\ Goes("stop")
    <3> USE <2>1, <2>3
    <3>1. Steps'
      BY DEF Steps, Found
    <3>2. NothingHalf'
      BY DEF Steps, NothingHalf, Found
    <3>3. Kept'
      BY DEF Steps, NothingHalf, Kept, Going, Found
    <3>4. Serving'
      BY DEF Steps, NothingHalf, Kept, Going, Serving, Fresh, Attachable, Unlogged, Found
    <3> QED BY <3>1, <3>2, <3>3, <3>4
  <2>4. CASE Returns
    <3> USE <2>1, <2>4
    <3>1. Steps'
      BY DEF Steps, Found
    <3>2. NothingHalf'
      BY DEF Steps, NothingHalf, Found
    <3>3. Kept'
      BY DEF Steps, NothingHalf, Kept, Going, Found
    <3>4. Serving'
      BY DEF Steps, NothingHalf, Kept, Going, Serving, Fresh, Attachable, Unlogged, Found
    <3> QED BY <3>1, <3>2, <3>3, <3>4
  <2> QED BY <2>3, <2>4, <2>2
<1> QED BY <1>1, <1>2, <1>3, <1>4

\* A switch back is finished on the previous release, by this run or by a later one.
LEMMA FinishingKeeps ==
  ASSUME UpgradeInv,
         \/ Stop \/ RestoreOwners \/ RestoreRefused \/ RestoreLost
         \/ RestartPrevious \/ PreviousAnswers \/ PreviousDoesNot
  PROVE  (Steps /\ NothingHalf /\ Kept /\ Serving)'
<1> USE UpgradeAssumption, OwnershipAssumption
<1> USE DEF UpgradeInv, Installation, UpgradeFiles, UpgradeLog, SetupRun, Process
<1> USE DEF ownershipVars, fileVars, At, Goes, Idle, Returns, Resting, NoBackups, Up, Down, Running
<1> USE DEF Staging, Ahead, Removing, BackSteps, Finishing, Upgradable
<1>1. CASE Stop
  <2> USE <1>1 DEF Stop
  <2>1. Steps'
    BY DEF Steps, Found
  <2>2. NothingHalf'
    BY DEF Steps, NothingHalf, Found
  <2>3. Kept'
    BY DEF Steps, NothingHalf, Kept, Going, Found
  <2>4. Serving'
    BY DEF Steps, NothingHalf, Kept, Going, Serving, Fresh, Attachable, Unlogged, Found
  <2> QED BY <2>1, <2>2, <2>3, <2>4
<1>2. CASE RestoreOwners
  <2> USE <1>2 DEF RestoreOwners, Restores, Restore, MayRestore
  <2>1. Steps'
    BY DEF Steps, Found
  <2>2. NothingHalf'
    BY DEF Steps, NothingHalf, Found
  <2>3. Kept'
    BY DEF Steps, NothingHalf, Kept, Going, Found
  <2>4. Serving'
    BY DEF Steps, NothingHalf, Kept, Going, Serving, Fresh, Attachable, Unlogged, Found
  <2> QED BY <2>1, <2>2, <2>3, <2>4
<1>3. CASE RestoreRefused
  <2> USE <1>3 DEF RestoreRefused, Restores
  <2>1. Steps'
    BY DEF Steps, Found
  <2>2. NothingHalf'
    BY DEF Steps, NothingHalf, Found
  <2>3. Kept'
    BY DEF Steps, NothingHalf, Kept, Going, Found
  <2>4. Serving'
    BY DEF Steps, NothingHalf, Kept, Going, Serving, Fresh, Attachable, Unlogged, Found
  <2> QED BY <2>1, <2>2, <2>3, <2>4
<1>4. CASE RestoreLost
  <2> USE <1>4 DEF RestoreLost, Restores, Restore, MayRestore
  <2>1. Steps'
    BY DEF Steps, Found
  <2>2. NothingHalf'
    BY DEF Steps, NothingHalf, Found
  <2>3. Kept'
    BY DEF Steps, NothingHalf, Kept, Going, Found
  <2>4. Serving'
    BY DEF Steps, NothingHalf, Kept, Going, Serving, Fresh, Attachable, Unlogged, Found
  <2> QED BY <2>1, <2>2, <2>3, <2>4
<1>5. CASE RestartPrevious
  <2> USE <1>5 DEF RestartPrevious, Restarted, CanStart, Loading
  <2>1. Steps'
    BY DEF Steps, Found
  <2>2. NothingHalf'
    BY DEF Steps, NothingHalf, Found
  <2>3. Kept'
    BY DEF Steps, NothingHalf, Kept, Going, Found
  <2>4. Serving'
    BY DEF Steps, NothingHalf, Kept, Going, Serving, Fresh, Attachable, Unlogged, Found
  <2> QED BY <2>1, <2>2, <2>3, <2>4
<1>6. CASE PreviousAnswers
  <2>1. /\ At("await_previous") /\ Up
        /\ log' = [log EXCEPT !.due = FALSE, !.back = FALSE, !.outside = FALSE]
        /\ UNCHANGED <<ownershipVars, fileVars, checkout, service, cut>>
    BY <1>6, PreviousAnswersLeads
  <2>2. \/ setup.failed /\ Returns
        \/ /\ ~setup.failed /\ setup.state = "upgrade"
           /\ setup' = [setup EXCEPT !.pc = "unstage", !.active = TRUE]
        \/ /\ ~setup.failed /\ setup.state # "upgrade"
           /\ setup' = [setup EXCEPT !.pc = "pins", !.active = TRUE]
    BY <1>6, PreviousAnswersLeads
  <2>3. CASE setup.failed /\ Returns
    <3> USE <2>1, <2>3
    <3>1. Steps'
      BY DEF Steps, Found
    <3>2. NothingHalf'
      BY DEF Steps, NothingHalf, Found
    <3>3. Kept'
      BY DEF Steps, NothingHalf, Kept, Going, Found
    <3>4. Serving'
      BY DEF Steps, NothingHalf, Kept, Going, Serving, Fresh, Attachable, Unlogged, Found
    <3> QED BY <3>1, <3>2, <3>3, <3>4
  <2>4. CASE /\ ~setup.failed /\ setup.state = "upgrade"
              /\ setup' = [setup EXCEPT !.pc = "unstage", !.active = TRUE]
    <3> USE <2>1, <2>4
    <3>1. Steps'
      BY DEF Steps, Found
    <3>2. NothingHalf'
      BY DEF Steps, NothingHalf, Found
    <3>3. Kept'
      BY DEF Steps, NothingHalf, Kept, Going, Found
    <3>4. Serving'
      BY DEF Steps, NothingHalf, Kept, Going, Serving, Fresh, Attachable, Unlogged, Found
    <3> QED BY <3>1, <3>2, <3>3, <3>4
  <2>5. CASE /\ ~setup.failed /\ setup.state # "upgrade"
              /\ setup' = [setup EXCEPT !.pc = "pins", !.active = TRUE]
    <3> USE <2>1, <2>5
    <3>1. Steps'
      BY DEF Steps, Found
    <3>2. NothingHalf'
      BY DEF Steps, NothingHalf, Found
    <3>3. Kept'
      BY DEF Steps, NothingHalf, Kept, Going, Found
    <3>4. Serving'
      BY DEF Steps, NothingHalf, Kept, Going, Serving, Fresh, Attachable, Unlogged, Found
    <3> QED BY <3>1, <3>2, <3>3, <3>4
  <2> QED BY <2>3, <2>4, <2>5, <2>2
<1>7. CASE PreviousDoesNot
  <2> USE <1>7 DEF PreviousDoesNot
  <2>1. Steps'
    BY DEF Steps, Found
  <2>2. NothingHalf'
    BY DEF Steps, NothingHalf, Found
  <2>3. Kept'
    BY DEF Steps, NothingHalf, Kept, Going, Found
  <2>4. Serving'
    BY DEF Steps, NothingHalf, Kept, Going, Serving, Fresh, Attachable, Unlogged, Found
  <2> QED BY <2>1, <2>2, <2>3, <2>4
<1> QED BY <1>1, <1>2, <1>3, <1>4, <1>5, <1>6, <1>7

\* A step that fails after the exchange goes back; a kill leaves one of the windows.
LEMMA FaultsKeep ==
  ASSUME UpgradeInv, Fails \/ Killed
  PROVE  (Steps /\ NothingHalf /\ Kept /\ Serving)'
<1> USE UpgradeAssumption, OwnershipAssumption
<1> USE DEF UpgradeInv, Installation, UpgradeFiles, UpgradeLog, SetupRun, Process
<1> USE DEF ownershipVars, fileVars, At, Goes, Idle, Returns, Resting, NoBackups, Up, Down, Running
<1> USE DEF Staging, Ahead, Removing, BackSteps, Finishing, Upgradable
<1>1. CASE Fails
  <2> USE <1>1 DEF Fails, Guarded
  <2>1. Steps'
    BY DEF Steps, Found
  <2>2. NothingHalf'
    BY DEF Steps, NothingHalf, Found
  <2>3. Kept'
    BY DEF Steps, NothingHalf, Kept, Going, Found
  <2>4. Serving'
    BY DEF Steps, NothingHalf, Kept, Going, Serving, Fresh, Attachable, Unlogged, Found
  <2> QED BY <2>1, <2>2, <2>3, <2>4
<1>2. CASE Killed
  <2>1. /\ setup.pc # "idle" /\ setup' = Resting
        /\ UNCHANGED <<ownershipVars, fileVars, log, checkout, service>>
    BY <1>2 DEF Killed
  <2>2. /\ cut \subseteq cut'
        /\ setup.pc \in {"exchanged", "back"} /\ ~log.due => "exchange" \in cut'
        /\ setup.pc = "removing" => "removal" \in cut'
        /\ setup.pc \in BackSteps => "back" \in cut'
        /\ setup.pc \in {"commit", "done"} => "done" \in cut'
    BY <1>2 DEF Killed, Cuts
  <2> USE <2>1, <2>2
  <2>3. Steps'
    BY DEF Steps, Found
  <2>4. NothingHalf'
    BY DEF Steps, NothingHalf, Found
  <2>5. cut' \cap {"back", "done"} = {} =>
          cut \cap {"back", "done"} = {} /\ setup.pc \notin BackSteps \cup {"commit", "done"}
    OBVIOUS
  <2>6. Kept'
    BY <2>5 DEF Steps, NothingHalf, Kept, Going, Found
  <2>7. cut' \cap {"exchange", "back", "done"} = {} =>
          /\ cut \cap {"exchange", "back", "done"} = {}
          /\ setup.pc \in Unlogged => log.due
    BY DEF Unlogged
  <2>8. Attachable(bin)' = Attachable(bin) /\ (Fresh => Fresh')
    BY DEF Attachable, Fresh
  <2>9. Serving'
    BY <2>5, <2>7, <2>8 DEF Steps, NothingHalf, Kept, Serving, Unlogged
  <2> QED BY <2>3, <2>4, <2>6, <2>9
<1> QED BY <1>1, <1>2

-----------------------------------------------------------------------------
(* What every upgrade leaves.                                              *)

\* The first installation, and a service on it or none.
LEMMA UpgradeStarts == UpgradeInit => UpgradeInv
<1> SUFFICES ASSUME UpgradeInit PROVE UpgradeInv
  OBVIOUS
<1> USE UpgradeAssumption, OwnershipAssumption DEF UpgradeInit, OwnershipInit
<1>1. 1 \in Engine /\ 2 \in Engine \ {1}
  BY DEF Engine
<1>2. Resting \in SetupRun /\ CleanLog \in UpgradeLog
  BY DEF Resting, CleanLog, NoBackups, UpgradeFiles, SetupRun, UpgradeLog, SetupPcs
<1>3. Attachable(1)
  BY <1>1 DEF Attachable
<1>4. service \in Process /\ Fresh
      /\ (service # Down =>
            service.at # "down" /\ service.code \in Engine /\ service.recorded \in Engine)
  <2>1. CASE service = Down
    BY <2>1 DEF Down, Process, Fresh
  <2>2. CASE service = UpOn(1)
    <3>1. service.code = bin /\ service.at = "up" /\ service.recorded = 1
      BY <2>2 DEF UpOn
    <3>2. service \in Process
      BY <1>1, <2>2 DEF UpOn, Process
    <3> QED BY <1>1, <1>3, <3>1, <3>2 DEF Fresh
  <2> QED BY <2>1, <2>2
<1>5. bound \in [Module -> Engine] /\ DOMAIN prev \subseteq Module
      /\ prev \in [DOMAIN prev -> Rebound]
  BY <1>1 DEF NoRecord
<1>6. Installation
  BY <1>1, <1>2, <1>4, <1>5 DEF Installation
<1> USE <1>1 DEF Resting, CleanLog, At, Staging, Ahead, Removing, BackSteps, Finishing, Going
<1>7. Steps /\ NothingHalf
  BY DEF Steps, NothingHalf
<1>8. Kept
  BY DEF Kept
<1>9. Serving
  BY <1>3, <1>4 DEF Serving, Unlogged
<1> QED BY <1>6, <1>7, <1>8, <1>9 DEF UpgradeInv

\* Every step of setup, of the service and of their faults keeps the invariant.
LEMMA UpgradeKeeps == UpgradeInv /\ [UpgradeNext]_upgradeVars => UpgradeInv'
<1> SUFFICES ASSUME UpgradeInv, [UpgradeNext]_upgradeVars PROVE UpgradeInv'
  OBVIOUS
<1>1. CASE UNCHANGED upgradeVars
  BY <1>1 DEF upgradeVars, ownershipVars, fileVars, UpgradeInv, Installation, Steps, Upgradable, Found,
    NothingHalf, At, Kept, Going, Serving, Fresh, Up, Attachable
<1>2. CASE UpgradeNext
  <2>1. Installation'
    BY <1>2, OwnershipTypes, ProcessTypes, FileTypes, RunTypes DEF UpgradeInv, Installation
  <2>2. (Steps /\ NothingHalf /\ Kept /\ Serving)'
    BY <1>2, ServiceKeeps, StartKeeps, StagingKeeps, AheadKeeps, RemovingKeeps, BackKeeps,
       FinishingKeeps, FaultsKeep DEF UpgradeNext, Serves, Forward, Backward
  <2> QED BY <2>1, <2>2 DEF UpgradeInv
<1> QED BY <1>1, <1>2

\* The invariant of the upgrade holds in every reachable state.
THEOREM UpgradeInvariant == UpgradeSpec => []UpgradeInv
BY UpgradeStarts, UpgradeKeeps, PTL DEF UpgradeSpec

\* However setup is killed, fails or switches back, what it leaves is installed and
\* accepted by its next run, but for the windows a later run cannot tell.
THEOREM OnlyACutEverSticks == UpgradeSpec => []OnlyACutIsStuck
<1>1. UpgradeInv => OnlyACutIsStuck
  <2> SUFFICES ASSUME UpgradeInv PROVE OnlyACutIsStuck
    OBVIOUS
  <2>1. bin \in Engine \/ (bin = HalfEngine /\ "removal" \in cut)
    BY DEF UpgradeInv, Installation, NothingHalf
  <2>2. ASSUME Idle, Found = "refused", cut \cap {"removal", "back", "done"} = {}
        PROVE  FALSE
    <3>1. setup.pc = "idle" /\ cut \cap {"back", "done"} = {}
      BY <2>2 DEF Idle, At
    <3>2. bin \in Engine
      BY <2>1, <2>2
    <3>3. bin # checkout => bin = record
      BY <3>1, <3>2 DEF UpgradeInv, Kept, BackSteps
    <3> QED BY <2>2, <3>3 DEF Found
  <2> QED BY <2>1, <2>2 DEF OnlyACutIsStuck
<1> QED BY <1>1, UpgradeInvariant, PTL

\* A setup at rest on the recorded engine that owes no restart left a whole
\* installation: the unit, the bindings and the running service are that engine's.
THEOREM FinishedIsAlwaysWhole == UpgradeSpec => []FinishedIsWhole
<1>1. UpgradeInv => FinishedIsWhole
  <2> SUFFICES ASSUME UpgradeInv, Idle, bin = record, ~log.due,
                      cut \cap {"exchange", "back", "done"} = {}
               PROVE  /\ unit = bin
                      /\ bin \in Rebinds \/ Attachable(bin)
                      /\ Up /\ ~log.outside => (service.code = bin /\ Attachable(bin))
    BY DEF FinishedIsWhole
  <2>1. setup.pc = "idle" /\ bin \in Engine
    BY DEF Idle, At, UpgradeInv, Installation
  <2>2. unit = bin
    BY <2>1 DEF UpgradeInv, Kept
  <2>3. /\ log.outside \/ Fresh
        /\ bin \in Rebinds \/ (Attachable(bin) /\ ~log.outside)
    BY <2>1 DEF UpgradeInv, Serving, Unlogged, BackSteps
  <2> QED BY <2>2, <2>3 DEF Fresh, Up, Down
<1> QED BY <1>1, UpgradeInvariant, PTL
=============================================================================
