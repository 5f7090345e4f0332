--------------------------- MODULE MarketDatabase ---------------------------
(***************************************************************************)
(* MarketDatabaseService (src/storage/market_database.rs): the tree of a   *)
(* walk (MarketHierarchy) replaces what is stored for an exchange, in one  *)
(* transaction of batched upserts under foreign keys, while other services *)
(* do the same on the same tables.                                         *)
(*                                                                         *)
(* A step is a statement.  The database is Postgres at READ COMMITTED: a   *)
(* statement sees what was committed when it began and what its own        *)
(* transaction wrote, waits for rows that another transaction has written, *)
(* and is held to the keys at its end.                                     *)
(***************************************************************************)
EXTENDS MarketHierarchy

CONSTANTS
  Trees,        \* what walks return: the nodes, each before its children, with their depth
  Services,     \* the MarketDatabaseServices
  Exchanges,    \* exchange names
  Naming,       \* which of them each service may have
  Batch         \* HIERARCHY_INSERT_BATCH_SIZE, rows per INSERT (5000)

InPreorder(tree) ==
  \A i \in DOMAIN tree : tree[i].level <= IF i = 1 THEN 0 ELSE tree[i - 1].level + 1

ASSUME DatabaseAssumption ==
  /\ \A tree \in Trees : tree \in Seq([id : Ids, level : Levels]) /\ InPreorder(tree)
  /\ Batch \in Nat \ {0}
  /\ Naming \subseteq [Services -> Exchanges] /\ Naming # {}
  /\ None \notin Exchanges \cup Services

VARIABLES
  exchange,     \* exchange_name of each service
  rows,         \* the committed rows of both tables, per primary key, or None
  open,         \* the services with a transaction
  script,       \* the statements each has still to run
  snapshot,     \* the rows the DELETE it is in has seen, None before it began
  written,      \* what its transaction has written: per key a row, or None for a delete
  given,        \* history: the rows of its tree, as upserts one by one would leave them
  repeated,     \* history: its tree lists an id more than once
  met,          \* history: exchanges stored by others during the call, or before it by
                \*          services of another name
  refreshed     \* history: per exchange what the last refresh stored, None if another
                \*          refresh of the same exchange overlapped it

tx    == <<open, script, snapshot, written>>
notes == <<given, repeated, met, refreshed>>
dbs   == <<exchange, rows, tx, notes>>

RowKeys   == ({"node"} \X Ids) \cup ({"instrument"} \X Markets)
TableRows == [key : RowKeys, ref : RowKeys \cup {None}, level : Levels, exchange : Exchanges]

Nothing == [k \in {} |-> None]

\* What was written last is what counts.
Over(new, old) ==
  [k \in DOMAIN new \cup DOMAIN old |-> IF k \in DOMAIN new THEN new[k] ELSE old[k]]

ASSUME NoneAssumption == None \notin RowKeys \cup TableRows
-----------------------------------------------------------------------------
(* What store_market_hierarchy makes of a tree.                            *)

\* The parent of an entry is the nearest one before it that stands one level up.
ParentOf(entries, i) ==
  LET above == {j \in 1 .. i - 1 : entries[j].level = entries[i].level - 1}
  IN  IF entries[i].level = 0 THEN None
      ELSE <<"node", entries[CHOOSE j \in above : \A k \in above : k <= j].id>>

Flatten(entries, x) ==
  [i \in DOMAIN entries |->
     [key |-> <<"node", entries[i].id>>, ref |-> ParentOf(entries, i),
      level |-> entries[i].level, exchange |-> x]]

InstrumentsOf(entries, x) ==
  LET leaves  == {i \in DOMAIN entries : entries[i].id \in Markets}
      leaf(n) == entries[Nth(leaves, n)].id
  IN  [n \in 1 .. Cardinality(leaves) |->
         [key |-> <<"instrument", leaf(n)>>, ref |-> <<"node", leaf(n)>>,
          level |-> 0, exchange |-> x]]

Firsts(list) == {i \in DOMAIN list : \A j \in 1 .. i - 1 : list[j].key # list[i].key}

LastLike(list, i) ==
  CHOOSE j \in DOMAIN list :
    /\ list[j].key = list[i].key
    /\ \A k \in j + 1 .. Len(list) : list[k].key # list[i].key

\* Mutant: the data of an id's first listing.
DedupeFirst(list) ==
  [n \in 1 .. Cardinality(Firsts(list)) |-> list[Nth(Firsts(list), n)]]

\* The position of an id's first listing, the data of its last.
Dedupe(list) ==
  [n \in 1 .. Cardinality(Firsts(list)) |-> list[LastLike(list, Nth(Firsts(list), n))]]

Delete(table) == [op |-> "delete", table |-> table, list |-> <<>>]

Insert(table, list) == [op |-> "insert", table |-> table, list |-> list]

\* Mutant: the last rows are sent first.
ChunksReversed(table, list) ==
  LET n == (Len(list) + Batch - 1) \div Batch
  IN  [i \in 1 .. n |->
         Insert(table, SubSeq(list, (n - i) * Batch + 1,
                              IF i = 1 THEN Len(list) ELSE (n - i + 1) * Batch))]

Chunks(table, list) ==
  LET n == (Len(list) + Batch - 1) \div Batch
  IN  [i \in 1 .. n |->
         Insert(table, SubSeq(list, (i - 1) * Batch + 1,
                              IF i = n THEN Len(list) ELSE i * Batch))]

Script(entries, x) ==
  <<Delete("instrument"), Delete("node")>>
    \o Chunks("node", Dedupe(Flatten(entries, x)))
    \o Chunks("instrument", Dedupe(InstrumentsOf(entries, x)))

\* Reference: the rows that upserts one by one, in the order of the tree, would leave.
Upserted(list) ==
  {list[i] : i \in {j \in DOMAIN list : \A k \in j + 1 .. Len(list) : list[k].key # list[j].key}}
-----------------------------------------------------------------------------
(* The database.                                                           *)

Visible(s, k) == IF k \in DOMAIN written[s] THEN written[s][k] ELSE rows[k]

KeysOf(list) == {list[i].key : i \in DOMAIN list}

RowOf(list, k) == list[CHOOSE i \in DOMAIN list : list[i].key = k]

RefsOf(list) == {list[i].ref : i \in DOMAIN list} \ {None}

Wrote(s) == {k \in DOMAIN written[s] : written[s][k] # None}

\* Another transaction has written a row that s would write.
Held(s, keys) == \E t \in open \ {s} : DOMAIN written[t] \cap keys # {}

\* It has written a row that refers to one of these.
Referred(s, keys) == \E t \in open \ {s} : \E k \in Wrote(t) : written[t][k].ref \in keys

\* It has deleted one of these.
Deleted(s, keys) == \E t \in open \ {s} : (DOMAIN written[t] \ Wrote(t)) \cap keys # {}

\* The call returns.  Rows it has changed are no longer what a waiting DELETE has seen.
Close(s, changed) ==
  /\ open' = open \ {s}
  /\ script' = [script EXCEPT ![s] = <<>>]
  /\ snapshot' = [t \in Services |->
                    IF t = s \/ snapshot[t] = None THEN None ELSE snapshot[t] \ changed]
  /\ written' = [written EXCEPT ![s] = Nothing]
  /\ given' = [given EXCEPT ![s] = {}]
  /\ repeated' = [repeated EXCEPT ![s] = FALSE]
  /\ met' = [met EXCEPT ![s] = {}]

\* A statement that the keys reject ends its transaction; one that they accept is written.
Run(s, writes, accepted) ==
  IF accepted
  THEN /\ written' = [written EXCEPT ![s] = Over(writes, @)]
       /\ script' = [script EXCEPT ![s] = Tail(@)]
       /\ snapshot' = [snapshot EXCEPT ![s] = None]
       /\ UNCHANGED <<open, given, repeated, met>>
  ELSE Close(s, {})
-----------------------------------------------------------------------------
DatabaseInit ==
  /\ exchange \in Naming
  /\ rows = [k \in RowKeys |-> None]
  /\ open = {}
  /\ script = [s \in Services |-> <<>>]
  /\ snapshot = [s \in Services |-> None]
  /\ written = [s \in Services |-> Nothing]
  /\ given = [s \in Services |-> {}]
  /\ repeated = [s \in Services |-> FALSE]
  /\ met = [s \in Services |-> {}]
  /\ refreshed = [x \in Exchanges |-> {}]

\* A service is given the tree of a walk.
Store(s, tree) ==
  /\ s \notin open
  /\ open' = open \cup {s}
  /\ script' = [script EXCEPT ![s] = Script(tree, exchange[s])]
  /\ LET all == Flatten(tree, exchange[s]) \o InstrumentsOf(tree, exchange[s]) IN
       /\ given' = [given EXCEPT ![s] = Upserted(all)]
       /\ repeated' = [repeated EXCEPT ![s] = Cardinality(KeysOf(all)) # Len(all)]
  /\ met' = [t \in Services |->
               IF t = s
               THEN {exchange[u] : u \in open}
                      \cup ({rows[k].exchange : k \in {j \in RowKeys : rows[j] # None}} \ {exchange[s]})
               ELSE IF t \in open THEN met[t] \cup {exchange[s]} ELSE met[t]]
  /\ UNCHANGED <<exchange, rows, snapshot, written, refreshed>>

Runs(s, op) == s \in open /\ script[s] # <<>> /\ Head(script[s]).op = op

\* A DELETE begins: the rows of the exchange that it sees.
See(s) ==
  /\ Runs(s, "delete") /\ snapshot[s] = None
  /\ snapshot' = [snapshot EXCEPT
       ![s] = {k \in RowKeys : /\ k[1] = Head(script[s]).table
                            /\ Visible(s, k) # None
                            /\ Visible(s, k).exchange = exchange[s]}]
  /\ UNCHANGED <<exchange, rows, open, script, written, notes>>

\* A statement can run once nobody else holds a row it would write, nor a reference to a
\* row it would delete, nor the delete of a row it would refer to.
ClearReady(s) ==
  /\ Runs(s, "delete") /\ snapshot[s] # None
  /\ ~Held(s, snapshot[s]) /\ ~Referred(s, snapshot[s])

ClearAccepted(s) ==
  \A k \in RowKeys \ snapshot[s] : Visible(s, k) = None \/ Visible(s, k).ref \notin snapshot[s]

Clear(s) ==
  /\ ClearReady(s)
  /\ Run(s, [k \in snapshot[s] |-> None], ClearAccepted(s))
  /\ UNCHANGED <<exchange, rows, refreshed>>

\* One batch of upserts: no key twice, and every row it refers to is there.
Batched(s) == Head(script[s]).list

UpsertReady(s) ==
  /\ Runs(s, "insert")
  /\ ~Held(s, KeysOf(Batched(s))) /\ ~Deleted(s, RefsOf(Batched(s)))

UpsertAccepted(s) ==
  /\ Cardinality(KeysOf(Batched(s))) = Len(Batched(s))
  /\ \A r \in RefsOf(Batched(s)) : r \in KeysOf(Batched(s)) \/ Visible(s, r) # None

Upsert(s) ==
  /\ UpsertReady(s)
  /\ Run(s, [k \in KeysOf(Batched(s)) |-> RowOf(Batched(s), k)], UpsertAccepted(s))
  /\ UNCHANGED <<exchange, rows, refreshed>>

Commit(s) ==
  /\ s \in open /\ script[s] = <<>>
  /\ rows' = Over(written[s], rows)
  /\ Close(s, DOMAIN written[s])
  /\ refreshed' = [x \in Exchanges |->
                  IF x = exchange[s] THEN IF x \in met[s] THEN None ELSE given[s]
                  ELSE IF refreshed[x] = None THEN None
                  ELSE {r \in refreshed[x] : r.key \notin {g.key : g \in given[s]}}]
  /\ UNCHANGED exchange

\* A statement or the commit fails, the database breaks a deadlock, or the call is
\* dropped: the transaction is rolled back.
Fail(s) ==
  /\ s \in open
  /\ Close(s, {})
  /\ UNCHANGED <<exchange, rows, refreshed>>

DatabaseStep ==
  \E s \in Services :
    \/ \E tree \in Trees : Store(s, tree)
    \/ See(s) \/ Clear(s) \/ Upsert(s) \/ Commit(s) \/ Fail(s)

-----------------------------------------------------------------------------
(* Properties.                                                             *)

DatabaseTypeOK ==
  /\ exchange \in Naming
  /\ rows \in [RowKeys -> TableRows \cup {None}]
  /\ open \subseteq Services
  /\ \A s \in Services :
       /\ s \notin open => script[s] = <<>> /\ written[s] = Nothing /\ snapshot[s] = None
       /\ snapshot[s] = None \/ snapshot[s] \subseteq RowKeys
       /\ DOMAIN written[s] \subseteq RowKeys
       /\ \A k \in DOMAIN written[s] : written[s][k] \in TableRows \cup {None}
       /\ given[s] \subseteq TableRows
  /\ repeated \in [Services -> BOOLEAN]
  /\ met \in [Services -> SUBSET Exchanges]
  /\ \A x \in Exchanges : refreshed[x] = None \/ refreshed[x] \subseteq TableRows

\* What is stored for an exchange is one tree as a whole, the one whose refresh last
\* returned Ok, with each id as it was listed last and without the ids that another
\* exchange stored since: no failure, batch or transaction of others leaves a part.
WholeRefresh ==
  \A x \in Exchanges :
    refreshed[x] # None =>
      {rows[k] : k \in {j \in RowKeys : rows[j] # None /\ rows[j].exchange = x}} = refreshed[x]

Refuses(s) == (ClearReady(s) /\ ~ClearAccepted(s)) \/ (UpsertReady(s) /\ ~UpsertAccepted(s))

\* The order of the rows, and of the batches, suits the foreign keys: a refresh that meets
\* no other exchange or service is only ever rejected for a tree that lists an id twice.
RejectedForRepeats == \A s \in open : Refuses(s) => repeated[s] \/ met[s] # {}

\* What the comments of store_market_hierarchy say of trees that list an id twice: parents
\* stay before children, so the foreign keys never reject the refresh of a lone service.
NeverRejected == \A s \in open : Refuses(s) => met[s] # {}
=============================================================================
