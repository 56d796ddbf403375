------------------------------- MODULE Migrations ------------------------------
(***************************************************************************)
(* The database as `alembic upgrade` and `alembic downgrade` take it from one  *)
(* set of revisions to another, while the program, of whatever version, writes *)
(* and deletes rows.  A command of several revisions is that many steps here.   *)
(***************************************************************************)
EXTENDS Revisions, MappedTables, FiniteSets

CONSTANTS Facts,      \* what rows may say: [table, column, value]
          MaxFacts    \* bound on the facts that hold at once

VARIABLES applied,    \* the revisions that alembic_version stands for
          db

vars == <<applied, db>>

Revision == DOMAIN Revisions

(* The revision comes next; nothing that is applied comes after it.            *)
Upgradable(r, stage) == r \notin stage /\ Revisions[r].after \subseteq stage

Downgradable(r, stage) == r \in stage /\ \A s \in stage : r \notin Revisions[s].after

(* Without a transaction the statements a command has got to would stay.        *)
UpgradeStatementwise(r) ==
  \E n \in 0 .. Len(Revisions[r].upgrade) :
    LET done == Executed(db, Revisions[r].upgrade)[n]
    IN  /\ Upgradable(r, applied)
        /\ done.ok
        /\ applied' = IF n = Len(Revisions[r].upgrade) THEN applied \union {r} ELSE applied
        /\ db' = done.db

Upgrade(r) ==
  LET run == Run(db, Revisions[r].upgrade)
  IN  /\ Upgradable(r, applied)
      /\ run.ok
      /\ applied' = applied \union {r}
      /\ db' = run.db

DowngradeStatementwise(r) ==
  \E n \in 0 .. Len(Revisions[r].downgrade) :
    LET done == Executed(db, Revisions[r].downgrade)[n]
    IN  /\ Downgradable(r, applied)
        /\ done.ok
        /\ applied' = IF n = Len(Revisions[r].downgrade) THEN applied \ {r} ELSE applied
        /\ db' = done.db

Downgrade(r) ==
  LET run == Run(db, Revisions[r].downgrade)
  IN  /\ Downgradable(r, applied)
      /\ run.ok
      /\ applied' = applied \ {r}
      /\ db' = run.db

(* The program stores a value, if the tables let it.                          *)
Write(f) ==
  /\ f \notin db.rows
  /\ Cardinality(db.rows) < MaxFacts
  /\ Storable(db, f)
  /\ db' = [db EXCEPT !.rows = @ \union {f}]
  /\ UNCHANGED applied

(* The last row with that value is deleted or changed.                        *)
Erase(f) ==
  /\ f \in db.rows
  /\ db' = [db EXCEPT !.rows = @ \ {f}]
  /\ UNCHANGED applied

Init ==
  /\ applied = {}
  /\ db = Empty

Next ==
  \/ \E r \in Revision : Upgrade(r) \/ Downgrade(r)
  \/ \E f \in Facts : Write(f) \/ Erase(f)

Spec == Init /\ [][Next]_vars

--------------------------------------------------------------------------------
(* What the database holds besides its rows.                                  *)
Bare(base) == [namespace |-> base.namespace, tables |-> base.tables, rows |-> {}]

(* What upgrades alone make of an empty database, a revision at a time.           *)
Upgraded[n \in 0 .. Cardinality(Revision)] ==
  IF n = 0 THEN {[revisions |-> {}, schema |-> Empty]}
  ELSE {[revisions |-> step[1].revisions \union {step[2]},
         schema |-> Run(step[1].schema, Revisions[step[2]].upgrade).db] :
          step \in {step \in Upgraded[n - 1] \X Revision :
                    Upgradable(step[2], step[1].revisions)}}

SchemaOf(revisions) ==
  (CHOOSE base \in Upgraded[Cardinality(revisions)] : base.revisions = revisions).schema

(* The schema is what the upgrades of the applied revisions make of an empty     *)
(* database, in whatever order the commands took the two branches and however    *)
(* often a revision was taken back: every downgrade undoes its upgrade and nothing *)
(* else.                                                                     *)
SchemaFollowsRevisions == Bare(db) = SchemaOf(applied)

(* Wherever the database stands and whatever its rows say, the next upgrade runs  *)
(* to its end and loses none of it; a downgrade is refused only for a row that the *)
(* older tables could not hold ("Only safe if no row already uses ...").          *)
MigrationsRun ==
  /\ \A r \in Revision : Upgradable(r, applied) =>
       LET run == Run(db, Revisions[r].upgrade)
       IN  run.ok /\ run.db.rows = db.rows
  /\ \A r \in Revision : Downgradable(r, applied) =>
       \/ Run(db, Revisions[r].downgrade).ok
       \/ LET older == SchemaOf(applied \ {r})
          IN  \E f \in db.rows :
                /\ Exists(older, f.table)
                /\ f.column \in Columns(older.tables[f.table])
                /\ ~Storable(older, f)

(* With every revision applied, the tables are those the repositories are written *)
(* for: the columns, which of them may be NULL, the keys and what a deletion does    *)
(* along them; no unique constraint or check the program counts on is missing; an    *)
(* index of the database has the columns of each of the program's; and every value   *)
(* of an enumeration can be stored where the program keeps it.                       *)
Serves(base) ==
  /\ DOMAIN base.tables = DOMAIN MappedTables
  /\ \A t \in DOMAIN MappedTables :
       LET mapped == MappedTables[t]
           real == base.tables[t]
       IN  /\ real.required = mapped.required
           /\ real.optional = mapped.optional
           /\ real.keys = mapped.keys
           /\ mapped.unique \subseteq real.unique
           /\ \A i \in mapped.indexes : \E j \in real.indexes : i \subseteq j
           /\ \A c \in mapped.checks : \E d \in real.checks :
                c.columns = d.columns /\ c.values = d.values
  /\ \A held \in HeldValues : \A v \in held.values :
       Storable(base, [table |-> held.table, column |-> held.column, value |-> v])

HeadServesProgram == applied = Revision => Serves(db)

--------------------------------------------------------------------------------
(* What the scripts are counted on for.  They are fixed, so this is one finite       *)
(* question, with an answer that no row and no command has a part in.             *)

(* Where the commands can get to.                                            *)
Stages ==
  UNION {{base.revisions : base \in Upgraded[n]} : n \in 0 .. Cardinality(Revision)}

IsTable(t) == t = Table(t.required, t.optional, t.keys, t.unique, t.checks, t.indexes)

Alterations ==
  {"create index", "drop index", "add column", "drop column", "set not null",
   "drop not null", "add check", "drop check"}

IsStatement(s) ==
  \/ s.op \in {"create schema", "drop schema", "drop table"} \union Alterations
  \/ s.op = "create table" /\ IsTable(s.as)

IsScript(script) ==
  /\ Len(script) \in Nat
  /\ \A n \in 1 .. Len(script) : IsStatement(script[n])

(* Every row the base can hold meets the check: none is there, or none has the     *)
(* columns, or a check of the base says as much.                               *)
Implied(base, table, check) ==
  \/ ~Exists(base, table)
  \/ check.columns \intersect Columns(base.tables[table]) = {}
  \/ check.values = {}
  \/ \E c \in base.tables[table].checks :
       check.columns \subseteq c.columns /\ c.values # {} /\ c.values \subseteq check.values

(* A statement that no row of the base is lost to and none stands in the way of.    *)
Harmless(base, s) ==
  /\ s.op \notin {"drop table", "drop column"}
  /\ s.op = "add check" => Implied(base, s.table, s.check)
  /\ s.op = "set not null" /\ Exists(base, s.table) =>
       s.column \notin base.tables[s.table].optional

(* A statement that rows stand in the way of only if the older tables do.          *)
Restores(older, s) ==
  /\ s.op = "add check" =>
       /\ Exists(older, s.table)
       /\ s.check \in older.tables[s.table].checks
       /\ s.check.columns \subseteq Columns(older.tables[s.table])
  /\ s.op = "set not null" =>
       /\ Exists(older, s.table)
       /\ s.column \in Columns(older.tables[s.table]) \ older.tables[s.table].optional

(* From each stage a script ends at the next one, and asks of the rows nothing but   *)
(* what the tables of one of the two ask.                                      *)
UpgradeSound(r, stage) ==
  /\ stage \union {r} \in Stages
  /\ Run(SchemaOf(stage), Revisions[r].upgrade)
       = [ok |-> TRUE, db |-> SchemaOf(stage \union {r})]
  /\ IsScript(Revisions[r].upgrade)
  /\ \A n \in 1 .. Len(Revisions[r].upgrade) :
       Harmless(SchemaOf(stage), Revisions[r].upgrade[n])

DowngradeSound(r, stage) ==
  /\ stage \ {r} \in Stages
  /\ Run(SchemaOf(stage), Revisions[r].downgrade)
       = [ok |-> TRUE, db |-> SchemaOf(stage \ {r})]
  /\ IsScript(Revisions[r].downgrade)
  /\ \A n \in 1 .. Len(Revisions[r].downgrade) :
       Restores(SchemaOf(stage \ {r}), Revisions[r].downgrade[n])

ScriptsAssumption ==
  /\ {} \in Stages /\ SchemaOf({}) = Empty
  /\ \A stage \in Stages : \A r \in Revision :
       /\ Upgradable(r, stage) => UpgradeSound(r, stage)
       /\ Downgradable(r, stage) => DowngradeSound(r, stage)

(* The invariant: the database stands at a stage, with the schema of it, and every   *)
(* row is one that the tables as they are now can hold.                          *)
Formed(base) ==
  /\ base = [namespace |-> base.namespace, tables |-> base.tables, rows |-> base.rows]
  /\ \A t \in DOMAIN base.tables : IsTable(base.tables[t])

Fit(base) == \A f \in base.rows : Storable(base, f)

IInv ==
  /\ Formed(db)
  /\ applied \in Stages
  /\ SchemaFollowsRevisions
  /\ Fit(db)
================================================================================
