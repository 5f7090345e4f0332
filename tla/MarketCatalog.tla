---------------------------- MODULE MarketCatalog ----------------------------
(***************************************************************************)
(* get_all_markets and get_vec_db_entries (src/application/client.rs): all *)
(* pages of all categories as one list, then the expiry of instruments     *)
(* listed without one, asked for a few at a time.                          *)
(*                                                                         *)
(* IG names the page and the page size in each answer, and may name others *)
(* than were asked for.  A step runs from one answer to the next request.  *)
(***************************************************************************)
EXTENDS Naturals, Sequences, FiniteSets, FiniteSetsExt

CONSTANTS
  Categories,   \* category codes
  CodeLists,    \* the lists of codes IG may answer with, repeated and blank ones too
  Epics,        \* instruments
  Blank,        \* an empty code or EPIC
  Catalogs,     \* what IG may list: the instruments of each category
  Strays,       \* rows IG may answer that are not the page it names
  PageSize,     \* CATEGORY_INSTRUMENTS_PAGE_SIZE (1000), the size asked for
  MaxPages,     \* MAX_CATEGORY_PAGES (1000)
  Concurrency   \* MARKET_DETAILS_CONCURRENCY (6)

ASSUME CatalogAssumption ==
  /\ PageSize \in Nat \ {0} /\ MaxPages \in Nat \ {0} /\ Concurrency \in Nat \ {0}
  /\ Blank \notin Categories \cup Epics
  /\ Catalogs \subseteq [Categories -> Seq(Epics)] /\ Catalogs # {}
  /\ CodeLists \subseteq Seq(Categories \cup {Blank})
  /\ Strays \subseteq Seq(Epics \cup {Blank})
  /\ Epics \cap {"queued", "asked", "listed"} = {}

VARIABLES
  listing,      \* IG: the instruments of each category
  undated,      \* IG: the instruments listed without an expiry
  catalog,      \* "idle", "categories", "page", "details", or the last call's end
  offered,      \* history: the codes IG answered
  truthful,     \* history: every page so far had the rows of the page it names
  codes,        \* the categories still to be read, the current one first
  seen,         \* seen_categories
  page,         \* page_number
  size,         \* effective_page_size, 0 for None
  seen_pages,   \* the EPICs of each page read of the current category
  markets,      \* all_markets: EPIC and the category it was found in
  entries       \* per market "queued", "asked", or whose expiry it has

cat == <<listing, undated, catalog, offered, truthful, codes, seen, page, size,
         seen_pages, markets, entries>>

Ends == {"idle", "ok", "error"}

In(list) == {list[i] : i \in DOMAIN list}

Found == {m.epic : m \in In(markets)}

\* IG: the rows of page n of a category when pages have k rows.
PageOf(c, n, k) ==
  SubSeq(listing[c], n * k + 1, IF n * k + k < Len(listing[c]) THEN n * k + k
                                ELSE Len(listing[c]))

CatalogInit ==
  /\ listing = CHOOSE l \in Catalogs : TRUE
  /\ undated = {}
  /\ catalog = "idle"
  /\ offered = <<>> /\ truthful = TRUE
  /\ codes = <<>> /\ seen = {} /\ page = 0 /\ size = 0 /\ seen_pages = {}
  /\ markets = <<>> /\ entries = <<>>

GetAllMarkets ==
  /\ catalog \in Ends
  /\ listing' \in Catalogs
  /\ undated' \in SUBSET Epics
  /\ catalog' = "categories"
  /\ offered' = <<>> /\ truthful' = TRUE
  /\ codes' = <<>> /\ seen' = {} /\ page' = 0 /\ size' = 0 /\ seen_pages' = {}
  /\ markets' = <<>> /\ entries' = <<>>

\* The first category of the list that was not read; a blank code is an error.  After the
\* last one get_all_markets returns and get_vec_db_entries goes on with the details.
GoOn(list, done) ==
  LET new  == {i \in DOMAIN list : list[i] \notin done}
      rest == IF new = {} THEN <<>> ELSE SubSeq(list, Min(new), Len(list))
  IN  /\ codes' = rest
      /\ page' = 0 /\ size' = 0 /\ seen_pages' = {}
      /\ \/ rest = <<>> /\ catalog' \in {"ok", "details"} /\ seen' = done
         \/ rest # <<>> /\ rest[1] = Blank /\ catalog' = "error" /\ seen' = done
         \/ rest # <<>> /\ rest[1] # Blank /\ catalog' = "page" /\ seen' = done \cup {rest[1]}

CategoriesAnswered ==
  /\ catalog = "categories"
  /\ \E list \in CodeLists : offered' = list /\ GoOn(list, {})
  /\ UNCHANGED <<listing, undated, truthful, markets, entries>>

\* Mutant: the size of the first page is not held against the following ones.
FitsAnySize(answer) ==
  /\ answer.number = page
  /\ answer.size \in 1 .. PageSize
  /\ Len(answer.rows) <= answer.size

\* The metadata of an answer fits the request and the pages before it.
Fits(answer) ==
  /\ answer.number = page
  /\ answer.size \in 1 .. PageSize
  /\ size # 0 => answer.size = size
  /\ Len(answer.rows) <= answer.size

\* Rows that make no progress, whatever their order.
Repeated(rows) == In(rows) \in seen_pages

\* What an answered page may be: the rows of the page it names, or stray ones.
PageAnswers(n) ==
  {[number |-> m, size |-> k, rows |-> PageOf(Head(codes), m, k), true |-> TRUE] :
     m \in {n, n + 1}, k \in 0 .. PageSize + 1}
  \cup {[number |-> n, size |-> PageSize, rows |-> r, true |-> FALSE] : r \in Strays}

\* MarketData::from(CategoryInstrument)
MarketOf(epic, category) == [epic |-> epic, category |-> category]

\* The first listing of an EPIC wins, within a page and across categories.
Added(rows) ==
  LET new == {i \in DOMAIN rows : rows[i] \notin Found
                                  /\ \A j \in 1 .. i - 1 : rows[j] # rows[i]}
  IN  [n \in 1 .. Cardinality(new) |->
         MarketOf(rows[CHOOSE i \in new : Cardinality({j \in new : j <= i}) = n], Head(codes))]

\* A page with rows is kept, unless it is the last one the limit allows.
PageAnswered ==
  /\ catalog = "page"
  /\ \E answer \in PageAnswers(page) :
       /\ Fits(answer) /\ answer.rows # <<>>
       /\ Blank \notin In(answer.rows) /\ ~Repeated(answer.rows)
       /\ markets' = markets \o Added(answer.rows)
       /\ seen_pages' = seen_pages \cup {In(answer.rows)}
       /\ size' = answer.size
       /\ truthful' = (truthful /\ answer.true)
  /\ page' = page + 1
  /\ catalog' = IF page + 1 >= MaxPages THEN "error" ELSE "page"
  /\ UNCHANGED <<listing, undated, offered, codes, seen, entries>>

\* Only an empty page ends a category: IG documents no total.
LastPageAnswered ==
  /\ catalog = "page"
  /\ \E answer \in PageAnswers(page) :
       /\ Fits(answer) /\ answer.rows = <<>>
       /\ truthful' = (truthful /\ answer.true)
  /\ GoOn(Tail(codes), seen)
  /\ UNCHANGED <<listing, undated, offered, markets, entries>>

\* A failed request, metadata that does not fit, a blank EPIC or a repeated page: the
\* call fails and nothing that was read is returned.
Abandoned ==
  /\ \/ catalog = "categories"
     \/ catalog = "page"
  /\ catalog' = "error"
  /\ UNCHANGED <<listing, undated, offered, truthful, codes, seen, page, size, seen_pages,
                 markets, entries>>

\* get_vec_db_entries: the list becomes a stream of entries, in its order.
Enrich ==
  /\ catalog = "details" /\ entries = <<>> /\ markets # <<>>
  /\ entries' = [i \in DOMAIN markets |-> "queued"]
  /\ UNCHANGED <<listing, undated, catalog, offered, truthful, codes, seen, page, size,
                 seen_pages, markets>>

Open == {i \in DOMAIN entries : entries[i] \in {"queued", "asked"}}

\* DBEntryResponse::from(MarketData): the expiry as it is listed, which may be blank.
DBEntry(market) == IF market.epic \in undated THEN "asked" ELSE "listed"

\* The next entry is started when fewer than Concurrency wait to be collected, the ones
\* that are answered and stand behind an unanswered one included.
Start ==
  /\ catalog = "details"
  /\ \E i \in DOMAIN entries :
       /\ entries[i] = "queued" /\ \A j \in 1 .. i - 1 : entries[j] # "queued"
       /\ i < Min(Open) + Concurrency
       /\ entries' = [entries EXCEPT ![i] = DBEntry(markets[i])]
  /\ UNCHANGED <<listing, undated, catalog, offered, truthful, codes, seen, page, size,
                 seen_pages, markets>>

\* Details of another EPIC leave the entry as it was listed.
Expiry(i, epic) == IF epic = markets[i].epic THEN epic ELSE "listed"

\* The details of an instrument arrive, perhaps of another EPIC, or the request fails.
Detailed ==
  /\ catalog = "details"
  /\ \E i \in DOMAIN entries :
       /\ entries[i] = "asked"
       /\ \/ \E epic \in Epics : entries' = [entries EXCEPT ![i] = Expiry(i, epic)]
          \/ entries' = [entries EXCEPT ![i] = "listed"]
  /\ UNCHANGED <<listing, undated, catalog, offered, truthful, codes, seen, page, size,
                 seen_pages, markets>>

Collected ==
  /\ catalog = "details" /\ Len(entries) = Len(markets) /\ Open = {}
  /\ catalog' = "ok"
  /\ UNCHANGED <<listing, undated, offered, truthful, codes, seen, page, size, seen_pages,
                 markets, entries>>

CatalogStep ==
  \/ CategoriesAnswered \/ PageAnswered \/ LastPageAnswered \/ Abandoned
  \/ Enrich \/ Start \/ Detailed \/ Collected
-----------------------------------------------------------------------------
(* Properties.                                                             *)

CatalogTypeOK ==
  /\ listing \in Catalogs /\ undated \subseteq Epics
  /\ catalog \in Ends \cup {"categories", "page", "details"}
  /\ offered \in CodeLists \cup {<<>>} /\ truthful \in BOOLEAN
  /\ codes \in Seq(Categories \cup {Blank}) /\ seen \subseteq Categories
  /\ page \in 0 .. MaxPages /\ size \in 0 .. PageSize
  /\ seen_pages \subseteq SUBSET Epics
  /\ markets \in Seq([epic : Epics, category : Categories])
  /\ entries \in Seq({"queued", "asked", "listed"} \cup Epics)

\* A call that returns a list returns each instrument of the account's categories once, in
\* the first category that lists it, if every answer had the rows of the page it names,
\* whatever page and page size that was: nothing is cut off, skipped or read twice.
MarketsComplete ==
  /\ \A i, j \in DOMAIN markets : markets[i].epic = markets[j].epic => i = j
  /\ truthful /\ catalog \in {"ok", "details"} =>
       \A e \in Epics :
         LET at == {k \in DOMAIN offered : e \in In(listing[offered[k]])} IN
           {m.category : m \in {n \in In(markets) : n.epic = e}} =
             IF at = {} THEN {} ELSE {offered[Min(at)]}

\* No entry has the expiry of another instrument, an expiry that is listed is kept, and
\* never more than Concurrency details are asked for.
EntriesOwn ==
  /\ \A i \in DOMAIN entries : entries[i] \in Epics =>
       entries[i] = markets[i].epic /\ entries[i] \in undated
  /\ Cardinality({i \in DOMAIN entries : entries[i] = "asked"}) <= Concurrency

\* What the catalogue calls return is the account's catalogue.
CatalogTells == MarketsComplete /\ EntriesOwn
=============================================================================
