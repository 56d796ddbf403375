----------------------------- MODULE DatabaseSchema -----------------------------
(***************************************************************************)
(* The statements of the migrations and what PostgreSQL does with them.      *)
(* A database is the namespace "cadmus", its tables, and the rows the        *)
(* migrations care about: facts "some row of this table has this value in     *)
(* this column".  The types of columns are left out.                         *)
(*                                                                         *)
(* A constraint or an index is known by what it says, where the statements    *)
(* use the names that the naming convention makes of it; a check keeps the    *)
(* name the statements give it.                                             *)
(***************************************************************************)
EXTENDS Integers, Sequences

(* The value of a column without NOT NULL that a row leaves empty.           *)
NULL == "null"

--------------------------------------------------------------------------------
(* The parts of a table; "unique" holds the primary key too. *)

(* A foreign key, and what the deletion of the row it refers to does.        *)
Key(column, table, ondelete) == [column |-> column, table |-> table, ondelete |-> ondelete]

(* column IN values (or NULL).                                              *)
OneOf(name, column, values) == [name |-> name, columns |-> {column}, values |-> values]

(* Any other condition on the columns; which values meet it is left out.      *)
Rule(name, columns) == [name |-> name, columns |-> columns, values |-> {}]

Table(required, optional, keys, unique, checks, indexes) ==
  [required |-> required, optional |-> optional, keys |-> keys, unique |-> unique,
   checks |-> checks, indexes |-> indexes]

--------------------------------------------------------------------------------
(* The statements. *)

CreateSchema == [op |-> "create schema"]

DropSchema == [op |-> "drop schema"]

CreateTable(table, required, optional, keys, unique, checks) ==
  [op |-> "create table", table |-> table,
   as |-> Table(required, optional, keys, unique, checks, {})]

DropTable(table) == [op |-> "drop table", table |-> table]

CreateIndex(table, columns) == [op |-> "create index", table |-> table, columns |-> columns]

DropIndex(table, columns) == [op |-> "drop index", table |-> table, columns |-> columns]

(* A column that may be NULL; with a key, one that refers to another table.   *)
AddColumn(table, column) ==
  [op |-> "add column", table |-> table, column |-> column, required |-> FALSE, keys |-> {}]

AddKeyColumn(table, key) ==
  [op |-> "add column", table |-> table, column |-> key.column, required |-> FALSE,
   keys |-> {key}]

(* NOT NULL with a server default, which the rows there are take.            *)
AddFilledColumn(table, column) ==
  [op |-> "add column", table |-> table, column |-> column, required |-> TRUE, keys |-> {}]

DropColumn(table, column) == [op |-> "drop column", table |-> table, column |-> column]

Require(table, column) == [op |-> "set not null", table |-> table, column |-> column]

Relax(table, column) == [op |-> "drop not null", table |-> table, column |-> column]

AddCheck(table, check) == [op |-> "add check", table |-> table, check |-> check]

DropCheck(table, name) == [op |-> "drop check", table |-> table, name |-> name]

--------------------------------------------------------------------------------
(* What they need and do.  DROP TABLE is refused while another table has a key   *)
(* to it; DROP COLUMN and DROP TABLE take along their own constraints and indexes. *)

Empty == [namespace |-> FALSE, tables |-> [t \in {} |-> {}], rows |-> {}]

Exists(db, t) == t \in DOMAIN db.tables

Columns(table) == table.required \union table.optional

Admits(check, f) == f.column \notin check.columns \/ check.values = {} \/ f.value = NULL
                      \/ f.value \in check.values

(* A row with this value can be stored.                                     *)
Storable(db, f) ==
  /\ Exists(db, f.table)
  /\ f.column \in Columns(db.tables[f.table])
  /\ f.value = NULL => f.column \in db.tables[f.table].optional
  /\ \A c \in db.tables[f.table].checks : Admits(c, f)

(* What the schema must be for the statement to make sense.                  *)
WellFormed(db, s) ==
  CASE s.op = "create schema" -> ~db.namespace
    [] s.op = "drop schema" -> db.namespace /\ DOMAIN db.tables = {}
    [] s.op = "create table" ->
         /\ db.namespace
         /\ ~Exists(db, s.table)
         /\ \A k \in s.as.keys : Exists(db, k.table) \/ k.table = s.table
    [] s.op = "drop table" ->
         /\ Exists(db, s.table)
         /\ \A t \in DOMAIN db.tables \ {s.table} :
              \A k \in db.tables[t].keys : k.table # s.table
    [] OTHER ->
         /\ Exists(db, s.table)
         /\ LET t == db.tables[s.table]
            IN  CASE s.op = "create index" ->
                       s.columns \subseteq Columns(t) /\ s.columns \notin t.indexes
                  [] s.op = "drop index" -> s.columns \in t.indexes
                  [] s.op = "add column" ->
                       /\ s.column \notin Columns(t)
                       /\ \A k \in s.keys : Exists(db, k.table)
                  [] s.op \in {"drop column", "set not null", "drop not null"} ->
                       s.column \in Columns(t)
                  [] s.op = "add check" ->
                       /\ s.check.columns \subseteq Columns(t)
                       /\ \A c \in t.checks : c.name # s.check.name
                  [] s.op = "drop check" -> \E c \in t.checks : c.name = s.name

(* What the rows must be: a new constraint is checked against each of them.   *)
Satisfied(db, s) ==
  CASE s.op = "add check" -> \A f \in db.rows : f.table = s.table => Admits(s.check, f)
    [] s.op = "set not null" ->
         ~ \E f \in db.rows : f.table = s.table /\ f.column = s.column /\ f.value = NULL
    [] OTHER -> TRUE

(* The table a statement leaves; a column takes along what mentions it.       *)
Altered(t, s) ==
  CASE s.op = "create index" -> [t EXCEPT !.indexes = @ \union {s.columns}]
    [] s.op = "drop index" -> [t EXCEPT !.indexes = @ \ {s.columns}]
    [] s.op = "add column" ->
         [t EXCEPT !.required = IF s.required THEN @ \union {s.column} ELSE @,
                   !.optional = IF s.required THEN @ ELSE @ \union {s.column},
                   !.keys = @ \union s.keys]
    [] s.op = "drop column" ->
         [required |-> t.required \ {s.column},
          optional |-> t.optional \ {s.column},
          keys |-> {k \in t.keys : k.column # s.column},
          unique |-> {u \in t.unique : s.column \notin u},
          checks |-> {c \in t.checks : s.column \notin c.columns},
          indexes |-> {i \in t.indexes : s.column \notin i}]
    [] s.op = "set not null" ->
         [t EXCEPT !.required = @ \union {s.column}, !.optional = @ \ {s.column}]
    [] s.op = "drop not null" ->
         [t EXCEPT !.required = @ \ {s.column}, !.optional = @ \union {s.column}]
    [] s.op = "add check" -> [t EXCEPT !.checks = @ \union {s.check}]
    [] s.op = "drop check" -> [t EXCEPT !.checks = {c \in @ : c.name # s.name}]

Tables(db, s) ==
  CASE s.op \in {"create schema", "drop schema"} -> db.tables
    [] s.op = "create table" ->
         [t \in DOMAIN db.tables \union {s.table} |->
           IF t = s.table THEN s.as ELSE db.tables[t]]
    [] s.op = "drop table" -> [t \in DOMAIN db.tables \ {s.table} |-> db.tables[t]]
    [] OTHER -> [db.tables EXCEPT ![s.table] = Altered(@, s)]

(* A dropped table or column takes its values along.                        *)
Lost(s, f) ==
  \/ s.op = "drop table" /\ f.table = s.table
  \/ s.op = "drop column" /\ f.table = s.table /\ f.column = s.column

After(db, s) ==
  [namespace |-> s.op = "create schema" \/ (db.namespace /\ s.op # "drop schema"),
   tables |-> Tables(db, s),
   rows |-> {f \in db.rows : ~Lost(s, f)}]

(* A statement that is refused ends the transaction, and nothing is done.        *)
Execute(db, done, s) ==
  IF done.ok /\ WellFormed(done.db, s) /\ Satisfied(done.db, s)
  THEN [ok |-> TRUE, db |-> After(done.db, s)]
  ELSE [ok |-> FALSE, db |-> db]

(* What the statements up to each one have done.                              *)
Executed(db, script) ==
  LET done[n \in 0 .. Len(script)] ==
        IF n = 0 THEN [ok |-> TRUE, db |-> db] ELSE Execute(db, done[n - 1], script[n])
  IN  done

(* One script in one transaction.                                            *)
Run(db, script) == Executed(db, script)[Len(script)]
================================================================================
