--------------------------- MODULE FilteredMarkets ---------------------------
(***************************************************************************)
(* store_filtered_market_nodes (src/storage/market_database.rs): the       *)
(* markets of a hierarchy whose EPIC has the form of an option, written    *)
(* one by one into a table that is never cleared, in one transaction per   *)
(* call, by services that may run at once.                                 *)
(*                                                                         *)
(* A listing is a market as the walk meets it: its EPIC, whether that has  *)
(* four dots, and the keys of the symbol map that occur in its name.       *)
(***************************************************************************)
EXTENDS Naturals, Sequences

CONSTANTS
  Writers,      \* the services
  Walks,        \* the trees they may store, as listings in the order of the recursion
  NoRow         \* an EPIC that is not in the table

Listed == UNION {{w[i] : i \in DOMAIN w} : w \in Walks}
Filed  == {l.epic : l \in Listed}

MarketRows ==
  [name : {l.name : l \in Listed}, symbol : {"UNKNOWN"} \cup UNION {l.keys : l \in Listed}]

ASSUME FilteredAssumption ==
  Walks # {} /\ (\A walk \in Walks : walk \in Seq(Listed)) /\ NoRow \notin MarketRows

VARIABLES
  filtered,     \* the table as committed: EPIC to name and symbol, or NoRow
  unsaved,      \* per writer the rows its transaction has written
  unseen,       \* per writer the listings still to be processed
  walked,       \* per writer the walk it stores
  writing,      \* per writer "idle", "writing", and how the last call returned
  complete      \* history: the walks of the calls that succeeded

flt == <<filtered, unsaved, unseen, walked, writing, complete>>

NoRows == [e \in Filed |-> NoRow]

ValidFormat(listing) == listing.dots = 4

\* find_symbol_for_market: the map is searched in an order of its own.
SymbolsFor(listing) == IF listing.keys = {} THEN {"UNKNOWN"} ELSE listing.keys

FilteredInit ==
  /\ filtered = NoRows
  /\ unsaved = [w \in Writers |-> NoRows]
  /\ unseen = [w \in Writers |-> <<>>]
  /\ walked = [w \in Writers |-> CHOOSE walk \in Walks : TRUE]
  /\ writing = [w \in Writers |-> "idle"]
  /\ complete = {}

StoreFiltered(w) ==
  /\ writing[w] # "writing"
  /\ writing' = [writing EXCEPT ![w] = "writing"]
  /\ \E walk \in Walks :
       /\ walked' = [walked EXCEPT ![w] = walk]
       /\ unseen' = [unseen EXCEPT ![w] = walk]
  /\ unsaved' = [unsaved EXCEPT ![w] = NoRows]
  /\ UNCHANGED <<filtered, complete>>

\* PostgreSQL: the row of another open transaction is locked.
Locked(w, e) == \E x \in Writers \ {w} : writing[x] = "writing" /\ unsaved[x][e] # NoRow

PassOver(w) ==
  /\ writing[w] = "writing" /\ unseen[w] # <<>>
  /\ ~ValidFormat(Head(unseen[w]))
  /\ unseen' = [unseen EXCEPT ![w] = Tail(@)]
  /\ UNCHANGED <<filtered, unsaved, walked, writing, complete>>

\* INSERT ... ON CONFLICT (epic) DO UPDATE of every column.
UpsertMarket(w) ==
  /\ writing[w] = "writing" /\ unseen[w] # <<>>
  /\ LET listing == Head(unseen[w]) IN
       /\ ValidFormat(listing) /\ ~Locked(w, listing.epic)
       /\ \E symbol \in SymbolsFor(listing) :
            unsaved' = [unsaved EXCEPT ![w][listing.epic] = [name |-> listing.name, symbol |-> symbol]]
  /\ unseen' = [unseen EXCEPT ![w] = Tail(@)]
  /\ UNCHANGED <<filtered, walked, writing, complete>>

CommitMarkets(w) ==
  /\ writing[w] = "writing" /\ unseen[w] = <<>>
  /\ filtered' = [e \in Filed |-> IF unsaved[w][e] # NoRow THEN unsaved[w][e] ELSE filtered[e]]
  /\ complete' = complete \cup {walked[w]}
  /\ unsaved' = [unsaved EXCEPT ![w] = NoRows]
  /\ writing' = [writing EXCEPT ![w] = "ok"]
  /\ UNCHANGED <<unseen, walked>>

\* A statement fails, a deadlock is detected, or the program ends: rolled back.
MarketsFail(w) ==
  /\ writing[w] = "writing"
  /\ unsaved' = [unsaved EXCEPT ![w] = NoRows]
  /\ writing' = [writing EXCEPT ![w] = "error"]
  /\ UNCHANGED <<filtered, unseen, walked, complete>>

FilteredStep(w) == PassOver(w) \/ UpsertMarket(w) \/ CommitMarkets(w) \/ MarketsFail(w)
-----------------------------------------------------------------------------
(* Properties.                                                             *)

FilteredTypeOK ==
  /\ filtered \in [Filed -> {NoRow} \cup MarketRows]
  /\ unsaved \in [Writers -> [Filed -> {NoRow} \cup MarketRows]]
  /\ unseen \in [Writers -> Seq(Listed)]
  /\ writing \in [Writers -> {"idle", "writing", "ok", "error"}]
  /\ walked \in [Writers -> Walks] /\ complete \subseteq Walks

\* Where a walk lists an EPIC of the right form, its last listing is what counts.
Lists(walk, e) == {i \in DOMAIN walk : walk[i].epic = e /\ walk[i].dots = 4}

LastOf(walk, e) == walk[CHOOSE i \in Lists(walk, e) : \A j \in Lists(walk, e) : j <= i]

\* However the calls of several services interleave and fail, a row is what the last
\* listing of its EPIC says in one walk that was stored, name and symbol together; a call
\* that succeeded has left a row for every EPIC of the right form it met, and no other
\* market ever gets one.
FilteredTells ==
  /\ \A e \in Filed :
       filtered[e] # NoRow =>
         \E walk \in complete :
           /\ Lists(walk, e) # {}
           /\ filtered[e].name = LastOf(walk, e).name
           /\ filtered[e].symbol \in SymbolsFor(LastOf(walk, e))
  /\ \A walk \in complete : \A e \in Filed : Lists(walk, e) # {} => filtered[e] # NoRow
=============================================================================
