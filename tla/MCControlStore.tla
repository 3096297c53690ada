--------------------------- MODULE MCControlStore ---------------------------
(***************************************************************************)
(* Two connections over three entities: a document that a service comes to *)
(* own, a claim record and the project of its unit.  The requests collide  *)
(* on purpose: two contents under one id, two ids with one nonce, one      *)
(* reservation id twice, a pause against a handout, a generic write        *)
(* against a declaration, and a connection that registered foreign code    *)
(* for the owned command.                                                  *)
(***************************************************************************)
EXTENDS ControlReplay, ControlStorePromise

CONSTANTS c1, c2

MCEntities == {"doc", "claim:u", "project:p"}
MCKinds == {"note", "snapshot", "claim", "project", "architecture_contract"}
MCValues == {"x", "ACTIVE", "PAUSED", "held", "parked", "free"}
MCProjectOf == [e \in MCEntities |-> "project:p"]

Put(e, k, v) == [x \in {e} |-> [kind |-> k, value |-> v]]
Ask(id, op, nonce, puts, depends, rows) ==
  [id |-> id, op |-> op, nonce |-> nonce, puts |-> puts, depends |-> depends, rows |-> rows]

MCRequests == {
  Ask("k1", "project_change", "n1", Put("project:p", "project", "ACTIVE"), {"project:p"}, {}),
  Ask("k2", "project_change", "n2", Put("project:p", "project", "PAUSED"), {"project:p"}, {}),
  Ask("k2", "project_change", "n2",
      [e \in {"claim:u", "project:p"} |->
         IF e = "claim:u" THEN [kind |-> "claim", value |-> "held"]
                          ELSE [kind |-> "project", value |-> "PAUSED"]],
      {"claim:u", "project:p"}, {}),
  Ask("k3", "claim_operation", "n3", Put("claim:u", "claim", "held"), {"claim:u"}, {}),
  Ask("k4", "upsert_entity", "n4", Put("doc", "snapshot", "x"), {"doc"}, {}),
  Ask("k4", "retire_entity", "n5", Put("doc", "note", "x"), {"doc"}, {}),
  Ask("k5", "accept_snapshot", "n6", Put("doc", "snapshot", "x"), {"doc"}, {}),
  Ask("k6", "reserve", "n6", <<>>, {"project:p"}, {"r1"}),
  Ask("k7", "upsert_entity", "n7", Put("doc", "architecture_contract", "x"), {"doc"}, {})}

Row(kinds, ids, owner, cmds, module) ==
  [kinds |-> kinds, ids |-> ids, owner |-> owner, commands |-> cmds, module |-> module]
MCStandingRows == {Row({"architecture_contract"}, {}, "architecture", {"accept_architecture"}, "any")}
MCDeclarations == {{Row({"snapshot"}, {}, "snapshots", {"accept_snapshot"}, "control_snapshot")}}
MCCodeOf == [c \in {c1, c2} |->
  [op \in {q.op : q \in MCRequests} |->
     IF c = c2 /\ op = "accept_snapshot" THEN "elsewhere" ELSE "control_snapshot"]]
=============================================================================
