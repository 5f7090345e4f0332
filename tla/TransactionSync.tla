--------------------------- MODULE TransactionSync ---------------------------
(***************************************************************************)
(* The paged account histories (get_transactions and get_costs_history of  *)
(* src/application/client.rs) and the storage of transactions              *)
(* (store_transactions of src/storage/utils.rs), called one after the      *)
(* other for the same days as examples/other/src/bin/tx_loop.rs does.      *)
(*                                                                         *)
(* IG may post an entry at any place of a history while it is being read,  *)
(* which shifts the entries behind it to later pages.  An entry is what    *)
(* its raw text is: two entries of one text have one raw_hash.             *)
(***************************************************************************)
EXTENDS Naturals, Sequences, FiniteSets

CONSTANTS
  Rows,         \* PAGE_SIZE (200 for transactions, 50 for costs)
  MaxHistory,   \* bound on the entries of a history
  CountWidth    \* bits of the counter total_pages is cast to (32)

\* The pages of a history can be counted: with 2^32 of them the cast would leave none.
ASSUME SyncAssumption ==
  /\ Rows \in Nat \ {0} /\ MaxHistory \in Nat /\ CountWidth \in Nat
  /\ MaxHistory <= Rows * (2 ^ CountWidth - 1)

Entries == 1 .. MaxHistory

VARIABLES
  history,      \* IG: the entries of the period, in the order of the pages
  sync,         \* "idle", "page", "storing", and how the last call returned
  reading,      \* "transactions" or "costs"
  asked,        \* history: the entries there when the call began
  current,      \* current_page
  read,         \* all_transactions, all_entries
  ig_options,   \* the stored transactions, by raw_hash
  batch,        \* the rows the open transaction would add
  stored,       \* how many rows of `read` were sent
  inserted,     \* the counter that store_transactions returns
  held          \* history: the rows when the store began

syn == <<history, sync, reading, asked, current, read, ig_options, batch, stored, inserted, held>>

EntriesOf(list) == {list[i] : i \in DOMAIN list}

TotalPages == (Len(history) + Rows - 1) \div Rows

PageRows(n) ==
  SubSeq(history, (n - 1) * Rows + 1, IF n * Rows < Len(history) THEN n * Rows ELSE Len(history))

SyncInit ==
  /\ history = <<>>
  /\ sync = "idle" /\ reading = "transactions"
  /\ asked = {} /\ current = 1 /\ read = <<>>
  /\ ig_options = {} /\ batch = {} /\ stored = 0 /\ inserted = 0 /\ held = {}

\* IG posts an entry, with whatever date.
Post ==
  /\ Len(history) < MaxHistory
  /\ \E n \in 0 .. Len(history) :
       history' = SubSeq(history, 1, n) \o <<Len(history) + 1>>
                    \o SubSeq(history, n + 1, Len(history))
  /\ UNCHANGED <<sync, reading, asked, current, read, ig_options, batch, stored, inserted, held>>

GetHistory ==
  /\ sync \in {"idle", "ok", "error"}
  /\ sync' = "page"
  /\ reading' \in {"transactions", "costs"}
  /\ asked' = EntriesOf(history)
  /\ current' = 1 /\ read' = <<>>
  /\ batch' = {} /\ stored' = 0 /\ inserted' = 0 /\ held' = {}
  /\ UNCHANGED <<history, ig_options>>

\* Mutant: the page that reaches the total is not asked for.
DoneEarly(total) == current + 1 >= total % 2 ^ CountWidth

\* get_transactions compares with total_pages `as u32`.
LastTransactions(total) == current >= total % 2 ^ CountWidth

\* get_costs_history widens the page it is at instead.
LastCosts(total) == current >= total

Done(total) == IF reading = "transactions" THEN LastTransactions(total) ELSE LastCosts(total)

PageRead ==
  /\ sync = "page"
  /\ read' = read \o PageRows(current)
  /\ \/ /\ ~Done(TotalPages)
        /\ current' = current + 1
        /\ UNCHANGED <<sync, held>>
     \/ /\ Done(TotalPages)
        /\ sync' = IF reading = "transactions" /\ read' # <<>> THEN "storing" ELSE "ok"
        /\ held' = ig_options
        /\ UNCHANGED current
  /\ UNCHANGED <<history, reading, asked, ig_options, batch, stored, inserted>>

\* A page request fails: nothing of the pages before it is returned.
PageFailed ==
  /\ sync = "page"
  /\ sync' = "error"
  /\ UNCHANGED <<history, reading, asked, current, read, ig_options, batch, stored, inserted, held>>

\* rows_affected(): a row whose raw_hash is there is not inserted.
Count(raw) == inserted' = inserted + (IF raw \in ig_options \cup batch THEN 0 ELSE 1)

\* INSERT ... ON CONFLICT (raw_hash) DO NOTHING, in the transaction.
InsertRow ==
  /\ sync = "storing" /\ stored < Len(read)
  /\ LET raw == read[stored + 1] IN
       /\ Count(raw)
       /\ batch' = batch \cup ({raw} \ ig_options)
  /\ stored' = stored + 1
  /\ UNCHANGED <<history, sync, reading, asked, current, read, ig_options, held>>

CommitRows ==
  /\ sync = "storing" /\ stored = Len(read)
  /\ ig_options' = ig_options \cup batch
  /\ batch' = {}
  /\ sync' = "ok"
  /\ UNCHANGED <<history, reading, asked, current, read, stored, inserted, held>>

\* A statement or the commit fails, or the program ends: the transaction is rolled back.
StoreFailed ==
  /\ sync = "storing"
  /\ sync' = "error"
  /\ batch' = {}
  /\ UNCHANGED <<history, reading, asked, current, read, ig_options, stored, inserted, held>>

SyncStep == PageRead \/ PageFailed \/ InsertRow \/ CommitRows \/ StoreFailed
-----------------------------------------------------------------------------
(* Properties.                                                             *)

SyncTypeOK ==
  /\ history \in Seq(Entries)
  /\ sync \in {"idle", "page", "storing", "ok", "error"}
  /\ reading \in {"transactions", "costs"}
  /\ asked \subseteq Entries /\ current \in Nat \ {0} /\ read \in Seq(Entries)
  /\ ig_options \subseteq Entries /\ batch \subseteq Entries \ ig_options
  /\ held \subseteq Entries /\ stored \in 0 .. Len(read) /\ inserted \in 0 .. stored

\* A history that was read holds everything that was there when the call began, whatever
\* was posted in between; once it is stored each of its transactions is a row, and the
\* count that is reported is the number of rows that were added.  A store that failed
\* added none.
HistoryComplete ==
  /\ sync \in {"storing", "ok"} => asked \subseteq EntriesOf(read)
  /\ reading = "transactions" /\ sync = "ok" =>
       /\ asked \subseteq ig_options
       /\ Cardinality(ig_options) = Cardinality(held) + inserted
  /\ sync = "error" /\ stored > 0 => ig_options = held
=============================================================================
