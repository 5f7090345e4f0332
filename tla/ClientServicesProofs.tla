------------------------- MODULE ClientServicesProofs -------------------------
(***************************************************************************)
(* The services together: what is proved of each of them holds of a        *)
(* behaviour in which any of them is used.                                 *)
(***************************************************************************)
EXTENDS ClientServices, StoreProofs, CallProofs, RecordProofs

\* The steps of the other services leave a store alone.
LEMMA StoresStep ==
  [Next]_vars => /\ [PricesNext]_prs /\ [SyncNext]_syn /\ [FilteredNext]_flt
                 /\ [CatalogNext]_cat /\ [WalkNext]_walk /\ [DatabaseStep]_dbs
  <1> SUFFICES ASSUME [Next]_vars
               PROVE  /\ [PricesNext]_prs /\ [SyncNext]_syn /\ [FilteredNext]_flt
                      /\ [CatalogNext]_cat /\ [WalkNext]_walk /\ [DatabaseStep]_dbs
      OBVIOUS
  <1> USE DEF Walk, Database, Catalog, Sync, Prices, Deal, SingleCall, Pacing, Streamer, Updates,
       OAuth, Netting, Expiries, Filtering, Setup, Ordering, Listening, Wiring, NameRead,
       clients, records, vars
  <1>1. [PricesNext]_prs
    BY DEF Next, PricesNext
  <1>2. [SyncNext]_syn
    BY DEF Next, SyncNext
  <1>3. [FilteredNext]_flt
    BY DEF Next, FilteredNext
  <1>4. [CatalogNext]_cat
    BY DEF Next, CatalogNext
  <1>5. [WalkNext]_walk
    BY DEF Next, WalkNext
  <1>6. [DatabaseStep]_dbs
    BY DEF Next
  <1> QED BY <1>1, <1>2, <1>3, <1>4, <1>5, <1>6

\* What the stores report and what they leave in the database agree, and are complete,
\* whichever services are used: for transactions, prices and filtered markets, any databases
\* found, any batches, and whoever stops or writes beside a store.
THEOREM StoresAgree == Spec => []StoresTell
  <1>1. Init => PricesInv /\ SyncInv /\ FilteredInv
    BY PricesBegin, SyncBegins, FilteredInitially DEF Init
  <1>2. PricesInv /\ SyncInv /\ FilteredInv /\ [Next]_vars => (PricesInv /\ SyncInv /\ FilteredInv)'
    BY StoresStep, PricesStep, SyncGoesOn, FilteredGoesOn
  <1>3. PricesInv /\ SyncInv /\ FilteredInv => StoresTell
    BY DEF PricesInv, SyncInv, FilteredInv, StoresTell
  <1> QED BY <1>1, <1>2, <1>3, PTL DEF Spec

\* What the catalogue calls return is the account's catalogue, whichever services are used:
\* for any catalogues, code lists and pages IG answers with, also pages that are not those
\* they name, any page size and any limit of details asked for at once.
THEOREM CatalogsAgree == Spec => []CatalogTells
  <1>1. Init => CatalogInv
    BY CatalogBegins DEF Init
  <1>2. CatalogInv /\ [Next]_vars => CatalogInv'
    BY StoresStep, CatalogGoesOn
  <1> QED BY <1>1, <1>2, CatalogTold, PTL DEF Spec

\* Below each node of a walk that returned stands what IG lists there, in its order, unless
\* its request failed or it stands at the bound, whichever services are used: for any nodes
\* and markets, any listings, cycles and nodes in several places included, and any depth.
THEOREM TreesAgree == Spec => []WalkTells
  <1>1. Init => WalkInv
    BY WalkBegins DEF Init
  <1>2. WalkInv /\ [Next]_vars => WalkInv'
    BY StoresStep, WalkGoesOn
  <1> QED BY <1>1, <1>2, WalkTold, PTL DEF Spec

\* What is stored for an exchange is one tree as a whole, the one whose refresh last
\* returned Ok, whichever services are used: for any trees, any batch size, and any services
\* that store beside each other, of the same exchange or of others, and fail at any statement.
THEOREM RefreshesAgree == Spec => []WholeRefresh
  <1>1. Init => DatabaseInv
    BY DatabaseBegins DEF Init
  <1>2. DatabaseInv /\ [Next]_vars => DatabaseInv'
    BY StoresStep, DatabaseGoesOn
  <1> QED BY <1>1, <1>2, InvTells, PTL DEF Spec

\* A refresh that meets no other exchange or service is rejected only for a tree that lists
\* an id twice: what is deleted, and what is sent in which batch, suits the foreign keys.
THEOREM RefusalsAgree == Spec => []RejectedForRepeats
  <1>1. Init => DatabaseInv
    BY DatabaseBegins DEF Init
  <1>2. DatabaseInv /\ [Next]_vars => DatabaseInv'
    BY StoresStep, DatabaseGoesOn
  <1> QED BY <1>1, <1>2, InvTells, PTL DEF Spec

-----------------------------------------------------------------------------
\* The steps of the other services leave what is made of IG's data alone.
LEMMA RecordsStep ==
  [Next]_vars => /\ [UpdatesNext]_upd /\ [ListenerNext]_lis /\ [ReadRecord]_wir
                 /\ [ReadPeriod]_exp /\ [ReadName]_nam /\ [OrdersNext]_ord
                 /\ [CompactNext]_pos
  <1> SUFFICES ASSUME [Next]_vars
               PROVE  /\ [UpdatesNext]_upd /\ [ListenerNext]_lis /\ [ReadRecord]_wir
                      /\ [ReadPeriod]_exp /\ [ReadName]_nam /\ [OrdersNext]_ord
                      /\ [CompactNext]_pos
      OBVIOUS
  <1> USE DEF Walk, Database, Catalog, Sync, Prices, Deal, SingleCall, Pacing, Streamer, Updates,
       OAuth, Netting, Expiries, Filtering, Setup, Ordering, Listening, Wiring, NameRead,
       clients, records, vars
  <1>1. [UpdatesNext]_upd
    BY DEF Next, UpdatesNext
  <1>2. [ListenerNext]_lis
    BY DEF Next, ListenerNext
  <1>3. [ReadRecord]_wir
    BY DEF Next
  <1>4. [ReadPeriod]_exp
    BY DEF Next
  <1>5. [ReadName]_nam
    BY DEF Next
  <1>6. [OrdersNext]_ord
    BY DEF Next
  <1>7. [CompactNext]_pos
    BY DEF Next
  <1> QED BY <1>1, <1>2, <1>3, <1>4, <1>5, <1>6, <1>7

\* What is made of IG's data and of a caller's wishes tells all of it and nothing else,
\* whichever services are used: for any updates and field sets, any callbacks and listeners,
\* any values of a record, any periods and instruments, any orders.
THEOREM RecordsAgree == Spec => []RecordsTell
  <1> DEFINE Inv == UpdatesInv /\ ListenerInv /\ WireInv /\ ExpiryInv /\ NamesTell /\ OrdersInv
  <1>1. Init => Inv
    BY UpdatesBegin, ListenerBegins, WireBegins, ExpiryBegins, NamesBegin, OrdersBegin DEF Init
  <1>2. Inv /\ [Next]_vars => Inv'
    BY RecordsStep, UpdatesStep, ListenerStep, WireStep, ExpiryStep, NamesStep, OrdersStep
  <1>3. Inv => RecordsTell
    <2>1. UpdatesInv => UpdatesTell
      BY DEF UpdatesInv
    <2>2. ListenerInv => ListenerTells
      BY DEF ListenerInv, ListenerTells
    <2>3. WireInv => WireTells
      BY DEF WireInv
    <2>4. ExpiryInv => ExpiryTells
      BY DEF ExpiryInv
    <2> QED BY <2>1, <2>2, <2>3, <2>4, OrdersImply DEF RecordsTell
  <1> QED BY <1>1, <1>2, <1>3, PTL DEF Spec

\* What a position is worth is the sum of what its parts are, also beside other services.
THEOREM PositionsNet == Spec => []NettingTells
  <1>1. Init => NettingInv
    BY NettingInitInv DEF Init
  <1>2. NettingInv => NettingTells
    BY DEF NettingInv
  <1> QED BY <1>1, <1>2, RecordsStep, NettingNextInv, PTL DEF Spec

-----------------------------------------------------------------------------
\* The steps of the other services leave a call alone.
LEMMA CallsStep ==
  [Next]_vars => /\ [OAuthNext]_oas /\ [CallOperation \/ OpsStep]_ops /\ [StreamerNext]_str
                 /\ [ConfirmNext]_cnf /\ [PacingNext]_pac /\ [SetupNext]_stp
  <1> SUFFICES ASSUME [Next]_vars
               PROVE  /\ [OAuthNext]_oas /\ [CallOperation \/ OpsStep]_ops /\ [StreamerNext]_str
                      /\ [ConfirmNext]_cnf /\ [PacingNext]_pac /\ [SetupNext]_stp
      OBVIOUS
  <1> USE DEF Walk, Database, Catalog, Sync, Prices, Deal, SingleCall, Pacing, Streamer, Updates,
       OAuth, Netting, Expiries, Filtering, Setup, Ordering, Listening, Wiring, NameRead,
       clients, records, vars
  <1>1. [OAuthNext]_oas
    BY DEF Next, OAuthNext
  <1>2. [CallOperation \/ OpsStep]_ops
    BY DEF Next
  <1>3. [StreamerNext]_str
    BY DEF Next, StreamerNext
  <1>4. [ConfirmNext]_cnf
    BY DEF Next, ConfirmNext
  <1>5. [PacingNext]_pac
    BY DEF Next, PacingNext
  <1>6. [SetupNext]_stp
    BY DEF Next, SetupNext
  <1> QED BY <1>1, <1>2, <1>3, <1>4, <1>5, <1>6

\* A call that adds is applied once, a request goes out on a token that serves, and a
\* converter is its client's, whichever services are used.
THEOREM CallsAreKept == Spec => [](EffectsOnce /\ TokenServes /\ ConvertersOwned)
  <1> DEFINE Inv == OAuthInv /\ OpsInv /\ StreamerInv
  <1>1. Init => Inv
    BY OAuthBegins, OpsBegin, StreamerBegins DEF Init
  <1>2. Inv /\ [Next]_vars => Inv'
    BY CallsStep, OAuthGoesOn, OpsGoOn, StreamerGoesOn
  <1>3. Inv => EffectsOnce /\ TokenServes /\ ConvertersOwned
    BY OAuthImplies, OpsImply DEF StreamerInv, ConvertersOwned
  <1> QED BY <1>1, <1>2, <1>3, PTL DEF Spec

\* The backoff of a poll, the pace of requests and the setup of clients are as planned,
\* whichever services are used: for any delays and limits, any width of the milliseconds and
\* of the counter, any budgets, and any clients, key lists and accounts.
THEOREM PausesAreKept == Spec => []PausesKept
  <1> DEFINE Inv == ConfirmInv /\ PacingInv /\ SetupInv
  <1>1. Init => Inv
    BY ConfirmBegins, PacingBegins, SetupBegins DEF Init
  <1>2. Inv /\ [Next]_vars => Inv'
    BY CallsStep, ConfirmGoesOn, PacingGoesOn, SetupGoesOn
  <1>3. ConfirmInv => ConfirmPolls
    BY DEF ConfirmInv
  <1>4. Inv => PausesKept
    BY <1>3, PacingImplies, SetupImplies DEF PausesKept
  <1> QED BY <1>1, <1>2, <1>4, PTL DEF Spec

-----------------------------------------------------------------------------
\* All of it stays of its type, whichever services are used: the state of each service by
\* the invariant of its component, for any constants that fit the assumptions.
THEOREM TypesAgree == Spec => []TypeOK
  <1> DEFINE Stores == PricesInv /\ SyncInv /\ FilteredInv /\ WalkInv /\ DatabaseInv /\ CatalogTyped
             Calls == /\ OAuthInv /\ OpsTyped /\ StreamerTyped
                      /\ ConfirmInv /\ PacingInv /\ SetupTyped
             Kept == /\ UpdatesInv /\ ListenerInv /\ WireInv /\ ExpiryInv /\ NamesTyped
                        /\ OrdersInv /\ NettingInv
             InUse == service \in Used
  <1>1. Init => Stores
    BY PricesBegin, SyncBegins, FilteredInitially, WalkBegins, DatabaseBegins,
       CatalogTypesBegin DEF Init
  <1>2. Stores /\ [Next]_vars => Stores'
    BY StoresStep, PricesStep, SyncGoesOn, FilteredGoesOn, WalkGoesOn, DatabaseGoesOn,
       CatalogKeepsTypes
  <1>3. Init => Calls
    BY OAuthBegins, OpsTypesBegin, StreamerTypesBegin, ConfirmBegins, PacingBegins,
       SetupTypesBegin DEF Init
  <1>4. Calls /\ [Next]_vars => Calls'
    BY CallsStep, OAuthGoesOn, OpsKeepTypes, StreamerKeepsTypes, ConfirmGoesOn,
       PacingGoesOn, SetupKeepsTypes
  <1>5. Init => Kept
    BY UpdatesBegin, ListenerBegins, WireBegins, ExpiryBegins, NamesTypesBegin, OrdersBegin,
       NettingInitInv DEF Init
  <1>6. Kept /\ [Next]_vars => Kept'
    BY RecordsStep, UpdatesStep, ListenerStep, WireStep, ExpiryStep, NamesKeepTypes,
       OrdersStep, NettingNextInv
  <1>7. Init => InUse
    BY DEF Init
  <1>8. InUse /\ [Next]_vars => InUse'
    BY DEF Next, Walk, Database, Catalog, Sync, Prices, Deal, SingleCall, Pacing, Streamer, Updates,
       OAuth, Netting, Expiries, Filtering, Setup, Ordering, Listening, Wiring, NameRead, vars
  <1>9. Stores => WalkTypeOK /\ DatabaseTypeOK /\ CatalogTypeOK /\ SyncTypeOK /\ PricesTypeOK
                   /\ FilteredTypeOK
    BY DatabaseTypesHold DEF WalkInv, CatalogTyped, SyncInv, PricesInv, FilteredInv
  <1>10. Calls => ConfirmTypeOK /\ OpsTypeOK /\ PacingTypeOK /\ StreamerTypeOK /\ OAuthTypeOK
                   /\ SetupTypeOK
    BY StreamerTypesHold, SetupTypesHold DEF ConfirmInv, OpsTyped, PacingInv, OAuthInv
  <1>11. Kept => UpdatesTypeOK /\ NettingTypeOK /\ ExpiryTypeOK /\ OrdersTypeOK
                    /\ ListenerTypeOK /\ WireTypeOK /\ NamesTypeOK
    BY DEF UpdatesInv, NettingInv, ExpiryInv, OrdersInv, ListenerInv, WireInv, NamesTyped
  <1> HIDE DEF Stores, Calls, Kept, InUse
  <1>12. Stores /\ Calls /\ Kept /\ InUse => TypeOK
    BY <1>9, <1>10, <1>11 DEF TypeOK, InUse
  <1> QED BY <1>1, <1>2, <1>3, <1>4, <1>5, <1>6, <1>7, <1>8, <1>12, PTL DEF Spec
=============================================================================
