----------------------------- MODULE PriceStore -----------------------------
(***************************************************************************)
(* src/storage/historical_prices.rs: the migration of the table, one       *)
(* statement after the other and each committed on its own, and the store  *)
(* of a batch of prices in one transaction.                                *)
(*                                                                         *)
(* Several processes start at once on one database, as it was left by an   *)
(* earlier version or by a run that stopped between two statements.  The   *)
(* database is PostgreSQL at READ COMMITTED: an upsert waits for the       *)
(* transaction that holds its row.                                         *)
(***************************************************************************)
EXTENDS Naturals, Sequences, FiniteSets, FiniteSetsExt

CONSTANTS
  Procs,        \* processes with a connection pool
  Databases,    \* schemas the program may find
  Batches,      \* the prices of a call: for each its key, or BadTime
  Keys,         \* (epic, resolution, snapshot_time), a record
  BadTime       \* a timestamp parse_snapshot_time does not read

\* A schema: whether the table is there, whether it has the resolution column, its
\* constraints, a relation with the name of the new constraint, and the trigger.
Schemas == [table : BOOLEAN, resolution : BOOLEAN, unique : SUBSET {"legacy", "current"},
            orphan : BOOLEAN, trigger : BOOLEAN]

ASSUME PriceAssumption ==
  /\ Databases \subseteq Schemas /\ Databases # {}
  /\ BadTime \notin Keys
  /\ Batches \subseteq Seq(Keys \cup {BadTime})

Statements == <<"create_table", "add_column", "drop_legacy", "add_unique", "create_index",
                "drop_trigger", "create_trigger">>

VARIABLES
  schema,       \* the historical_prices table
  prices,       \* its committed rows
  at,           \* per process "idle", the next statement of an initialization, or "store"
  todo,         \* the prices of the call still to be stored
  dirty,        \* rows the open transaction inserted or updated
  added,        \* stats.inserted of the open transaction
  reported,     \* history: the sum of stats.inserted of the calls that returned
  migrated      \* history: an initialization has returned Ok

prs == <<schema, prices, at, todo, dirty, added, reported, migrated>>

PricesInit ==
  /\ schema \in Databases
  /\ prices = {}
  /\ at = [p \in Procs |-> "idle"]
  /\ todo = [p \in Procs |-> <<>>]
  /\ dirty = [p \in Procs |-> {}]
  /\ added = [p \in Procs |-> 0]
  /\ reported = 0
  /\ migrated = FALSE

store == <<prices, todo, dirty, added, reported>>

Initialize(p) ==
  /\ at[p] = "idle"
  /\ at' = [at EXCEPT ![p] = "create_table"]
  /\ UNCHANGED <<schema, migrated, store>>

\* The statement p is at succeeds with the schema s, and p goes on.  A table is not altered
\* while an open transaction has written to it.
Statement(p, name, s) ==
  /\ at[p] = name
  /\ name # "create_table" => \A q \in Procs : dirty[q] = {}
  /\ schema' = s
  /\ LET n == CHOOSE i \in DOMAIN Statements : Statements[i] = name IN
       IF n = Len(Statements)
       THEN at' = [at EXCEPT ![p] = "idle"] /\ migrated' = TRUE
       ELSE at' = [at EXCEPT ![p] = Statements[n + 1]] /\ UNCHANGED migrated
  /\ UNCHANGED store

CreateTable(p) ==
  Statement(p, "create_table",
    IF schema.table THEN schema
    ELSE [schema EXCEPT !.table = TRUE, !.resolution = TRUE, !.unique = {"current"}])

\* An error here is logged and passed over.
AddColumn(p) ==
  \/ Statement(p, "add_column", [schema EXCEPT !.resolution = TRUE])
  \/ Statement(p, "add_column", schema)

DropLegacy(p) == Statement(p, "drop_legacy", [schema EXCEPT !.unique = @ \ {"legacy"}])

\* 42710 and 42P07: the constraint, or a relation of its name, is there.
AlreadyExists == "current" \in schema.unique \/ schema.orphan

\* Without the column the constraint cannot be added, and that error is returned.
AddUnique(p) ==
  \/ AlreadyExists /\ Statement(p, "add_unique", schema)
  \/ /\ ~AlreadyExists /\ schema.resolution
     /\ Statement(p, "add_unique", [schema EXCEPT !.unique = @ \cup {"current"}])

\* The index and the trigger's function, with IF NOT EXISTS and OR REPLACE.
CreateIndex(p) == schema.resolution /\ Statement(p, "create_index", schema)

DropTrigger(p) == Statement(p, "drop_trigger", [schema EXCEPT !.trigger = FALSE])

\* Another process may have created it since: an error.
CreateTrigger(p) ==
  ~schema.trigger /\ Statement(p, "create_trigger", [schema EXCEPT !.trigger = TRUE])

Usable == /\ schema.table /\ schema.resolution
          /\ "current" \in schema.unique \/ schema.orphan

StorePrices(p) ==
  /\ at[p] = "idle"
  /\ \E b \in Batches : todo' = [todo EXCEPT ![p] = b]
  /\ at' = [at EXCEPT ![p] = "store"]
  /\ dirty' = [dirty EXCEPT ![p] = {}]
  /\ added' = [added EXCEPT ![p] = 0]
  /\ UNCHANGED <<schema, prices, reported, migrated>>

\* Rows of which the legacy constraint allows one: the resolution does not tell them apart.
Twins(k) ==
  IF "legacy" \in schema.unique
  THEN {r \in Keys : r.epic = k.epic /\ r.time = k.time} \ {k}
  ELSE {}

\* (xmax = 0): the statement inserted the row and did not update it.
IsNew(p, k) == k \notin prices \cup dirty[p]

SkipPrice(p) ==
  /\ at[p] = "store" /\ todo[p] # <<>> /\ Head(todo[p]) = BadTime
  /\ todo' = [todo EXCEPT ![p] = Tail(@)]
  /\ UNCHANGED <<schema, prices, at, dirty, added, reported, migrated>>

UpsertPrice(p) ==
  /\ at[p] = "store" /\ todo[p] # <<>> /\ Head(todo[p]) # BadTime
  /\ LET k == Head(todo[p]) IN
       /\ Usable /\ Twins(k) \cap (prices \cup dirty[p]) = {}
       /\ \A q \in Procs \ {p} : dirty[q] \cap ({k} \cup Twins(k)) = {}
       /\ added' = [added EXCEPT ![p] = @ + IF IsNew(p, k) THEN 1 ELSE 0]
       /\ dirty' = [dirty EXCEPT ![p] = @ \cup {k}]
  /\ todo' = [todo EXCEPT ![p] = Tail(@)]
  /\ UNCHANGED <<schema, prices, at, reported, migrated>>

CommitPrices(p) ==
  /\ at[p] = "store" /\ todo[p] = <<>>
  /\ prices' = prices \cup dirty[p]
  /\ reported' = reported + added[p]
  /\ dirty' = [dirty EXCEPT ![p] = {}]
  /\ added' = [added EXCEPT ![p] = 0]
  /\ at' = [at EXCEPT ![p] = "idle"]
  /\ UNCHANGED <<schema, todo, migrated>>

\* A statement is refused, the connection is lost, two transactions wait for each other,
\* or the process stops: the statements so far stay, an open transaction does not.
Stop(p) ==
  /\ at[p] # "idle"
  /\ at' = [at EXCEPT ![p] = "idle"]
  /\ dirty' = [dirty EXCEPT ![p] = {}]
  /\ todo' = [todo EXCEPT ![p] = <<>>]
  /\ added' = [added EXCEPT ![p] = 0]
  /\ UNCHANGED <<schema, prices, reported, migrated>>

PriceStep(p) ==
  \/ CreateTable(p) \/ AddColumn(p) \/ DropLegacy(p) \/ AddUnique(p) \/ CreateIndex(p)
  \/ DropTrigger(p) \/ CreateTrigger(p)
  \/ SkipPrice(p) \/ UpsertPrice(p) \/ CommitPrices(p) \/ Stop(p)
-----------------------------------------------------------------------------
(* Properties.                                                             *)

PricesTypeOK ==
  /\ schema \in Schemas /\ prices \subseteq Keys
  /\ at \in [Procs -> {"idle", "store"} \cup {Statements[i] : i \in DOMAIN Statements}]
  /\ todo \in [Procs -> Seq(Keys \cup {BadTime})]
  /\ dirty \in [Procs -> SUBSET Keys] /\ added \in [Procs -> Nat]
  /\ reported \in Nat /\ migrated \in BOOLEAN

\* Once an initialization has returned Ok, on whatever database and however many stopped
\* half way or ran beside it, no batch of prices is refused by the schema; and the
\* insertions that calls report add up to the rows there are, whichever batches overlap.
PricesUsable ==
  /\ migrated => Usable /\ "legacy" \notin schema.unique
  /\ Cardinality(prices) = reported
=============================================================================
