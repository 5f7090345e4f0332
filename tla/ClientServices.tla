--------------------------- MODULE ClientServices ---------------------------
(***************************************************************************)
(* What is built on Client: the single operations, the hierarchy walk and  *)
(* the database it fills, the market catalogue, the account histories, the *)
(* price store, the confirmation of a deal, the limiter that paces what    *)
(* they send, the session of a v3 client, the streaming client and what    *)
(* becomes of its updates, the setup of clients, and the making and reading*)
(* of orders, positions and periods.                                       *)
(*                                                                         *)
(* They share the HTTP client and the connection pool, of which they see   *)
(* only that a request or a statement succeeds or fails, and no state of   *)
(* their own: a behaviour is that of one of them.                          *)
(***************************************************************************)
EXTENDS MarketHierarchy, MarketDatabase, MarketCatalog, TransactionSync, PriceStore,
        DealConfirmation, ClientOperations, RatePacing, StreamerClient, OAuthSession,
        StreamUpdates, PositionNetting, TransactionExpiry, FilteredMarkets, ClientSetup,
        OrderRequests, StreamListener, WireValues, InstrumentNames

CONSTANT
  Used          \* the services that are used

VARIABLE
  service       \* the one that is

clients == <<walk, dbs, cat, syn, prs, cnf, ops, pac, str>>
records == <<upd, oas, pos, exp, flt, stp, ord, lis, wir, nam>>

vars == <<service, clients, records>>

ASSUME ServicesAssumption ==
  Used \subseteq {"walk", "database", "catalog", "sync", "prices", "confirm", "operations",
                  "pacing", "streamer", "updates", "oauth", "netting", "expiry", "filtered",
                  "setup", "orders", "listener", "wire", "names"}

Init ==
  /\ service \in Used
  /\ WalkInit /\ DatabaseInit /\ CatalogInit /\ SyncInit /\ PricesInit /\ ConfirmInit
  /\ OpsInit /\ PacingInit /\ StreamerInit /\ UpdatesInit /\ OAuthInit /\ NettingInit
  /\ ExpiryInit /\ FilteredInit /\ SetupInit /\ OrdersInit
  /\ ListenerInit /\ WireInit /\ NamesInit
  /\ service # "setup" => configured = [c \in Clients |-> CHOOSE h \in Holders : TRUE]
  /\ service # "prices" => schema = CHOOSE s \in Databases : TRUE
  /\ service # "netting" => market = [e \in Instruments |-> [bid |-> Unknown, offer |-> Unknown]]
  /\ service # "database" => exchange = CHOOSE names \in Naming : TRUE

\* The steps of one service leave the state of the others alone.
Walk       == service = "walk"       /\ UNCHANGED <<service, records, dbs, cat, syn, prs, cnf, ops, pac, str>>
Database   == service = "database"   /\ UNCHANGED <<service, records, walk, cat, syn, prs, cnf, ops, pac, str>>
Catalog    == service = "catalog"    /\ UNCHANGED <<service, records, walk, dbs, syn, prs, cnf, ops, pac, str>>
Sync       == service = "sync"       /\ UNCHANGED <<service, records, walk, dbs, cat, prs, cnf, ops, pac, str>>
Prices     == service = "prices"     /\ UNCHANGED <<service, records, walk, dbs, cat, syn, cnf, ops, pac, str>>
Deal       == service = "confirm"    /\ UNCHANGED <<service, records, walk, dbs, cat, syn, prs, ops, pac, str>>
SingleCall == service = "operations" /\ UNCHANGED <<service, records, walk, dbs, cat, syn, prs, cnf, pac, str>>
Pacing     == service = "pacing"     /\ UNCHANGED <<service, records, walk, dbs, cat, syn, prs, cnf, ops, str>>
Streamer   == service = "streamer"   /\ UNCHANGED <<service, records, walk, dbs, cat, syn, prs, cnf, ops, pac>>
Updates    == service = "updates"    /\ UNCHANGED <<service, clients, oas, pos, exp, flt, stp, ord, lis, wir, nam>>
OAuth      == service = "oauth"      /\ UNCHANGED <<service, clients, upd, pos, exp, flt, stp, ord, lis, wir, nam>>
Netting    == service = "netting"    /\ UNCHANGED <<service, clients, upd, oas, exp, flt, stp, ord, lis, wir, nam>>
Expiries   == service = "expiry"     /\ UNCHANGED <<service, clients, upd, oas, pos, flt, stp, ord, lis, wir, nam>>
Filtering  == service = "filtered"   /\ UNCHANGED <<service, clients, upd, oas, pos, exp, stp, ord, lis, wir, nam>>
Setup      == service = "setup"      /\ UNCHANGED <<service, clients, upd, oas, pos, exp, flt, ord, lis, wir, nam>>
Ordering   == service = "orders"     /\ UNCHANGED <<service, clients, upd, oas, pos, exp, flt, stp, lis, wir, nam>>
Listening  == service = "listener"   /\ UNCHANGED <<service, clients, upd, oas, pos, exp, flt, stp, ord, wir, nam>>
Wiring     == service = "wire"       /\ UNCHANGED <<service, clients, upd, oas, pos, exp, flt, stp, ord, lis, nam>>
NameRead   == service = "names"      /\ UNCHANGED <<service, clients, upd, oas, pos, exp, flt, stp, ord, lis, wir>>

Next ==
  \/ Walk       /\ (Build \/ WalkStep)
  \/ Database   /\ DatabaseStep
  \/ Catalog    /\ (GetAllMarkets \/ CatalogStep)
  \/ Sync       /\ (Post \/ GetHistory \/ SyncStep)
  \/ Prices     /\ \E p \in Procs : Initialize(p) \/ StorePrices(p) \/ PriceStep(p)
  \/ Deal       /\ (Confirm \/ ConfirmStep)
  \/ SingleCall /\ (CallOperation \/ OpsStep)
  \/ Pacing     /\ (NewLimiter \/ PacingStep)
  \/ Streamer   /\ (StreamerCall \/ StreamerStep)
  \/ Streamer   /\ \E t \in Tasks : ConverterStep(t) \/ Stopped(t)
  \/ Updates    /\ (Stream \/ Receive)
  \/ OAuth      /\ (Want \/ OAuthStep \/ OthersStep)
  \/ Netting    /\ CompactNext
  \/ Expiries   /\ ReadPeriod
  \/ Filtering  /\ \E w \in Writers : StoreFiltered(w) \/ FilteredStep(w)
  \/ Setup      /\ \E c \in Clients : BuildClient(c) \/ SetupStep(c) \/ SelectAccount(c)
  \/ Ordering   /\ OrdersNext
  \/ Listening  /\ (Publish \/ EndStream \/ SignalPump \/ PumpStep \/ PumpStopped)
  \/ Wiring     /\ ReadRecord
  \/ NameRead   /\ ReadName

\* The steps that end a call.
Answering ==
  \/ Walk       /\ WalkStep
  \/ Catalog    /\ CatalogStep
  \/ Sync       /\ SyncStep
  \/ Deal       /\ ConfirmStep
  \/ SingleCall /\ OpsStep
  \/ Streamer   /\ StreamerStep
  \/ OAuth      /\ OAuthStep
  \/ Listening  /\ PumpStep

\* What a process, a writer or a converter goes on with by itself.
ActorStep(a) ==
  \/ Prices     /\ a \in Procs /\ PriceStep(a)
  \/ Filtering  /\ a \in Writers /\ FilteredStep(a)
  \/ Streamer   /\ a \in Tasks /\ ConverterStep(a)

\* A converter and the pump of a listener stop when they are told to.
TaskStopped(t) == (Streamer /\ Stopped(t)) \/ (Listening /\ PumpStopped)

Actors == Procs \cup Writers \cup Tasks

\* A task that awaits an answer is resumed with it: every request ends, by an answer or a
\* transport error, and so does every statement.  Nobody has to call a service.  Of the
\* streaming tasks, select! picks among ready branches at random: updates that never cease
\* cannot keep a task from the signal for ever.
Fairness ==
  /\ WF_vars(Answering)
  /\ \A a \in Actors : WF_vars(ActorStep(a))
  /\ \A t \in Tasks : SF_vars(TaskStopped(t))

Spec == Init /\ [][Next]_vars /\ Fairness
-----------------------------------------------------------------------------
(* Properties; what each service promises stands in its module.            *)

TypeOK ==
  /\ service \in Used
  /\ WalkTypeOK /\ DatabaseTypeOK /\ CatalogTypeOK /\ SyncTypeOK /\ PricesTypeOK
  /\ ConfirmTypeOK /\ OpsTypeOK /\ PacingTypeOK /\ StreamerTypeOK
  /\ UpdatesTypeOK /\ OAuthTypeOK /\ NettingTypeOK /\ ExpiryTypeOK /\ FilteredTypeOK
  /\ SetupTypeOK /\ OrdersTypeOK /\ ListenerTypeOK /\ WireTypeOK
  /\ NamesTypeOK

\* The pauses are the ones that were planned: the backoff of a poll and the pace of the
\* requests neither collapse nor drift, at any count and any configuration, and the clients
\* of one account share its pace.
PausesKept == ConfirmPolls /\ BudgetKept /\ SetupTells

\* What a store reports and what it leaves in the database agree, for transactions, prices
\* and filtered markets, and it is complete.
StoresTell == HistoryComplete /\ PricesUsable /\ FilteredTells

\* What is made of IG's data tells all of it and nothing else: of the updates of a stream, of
\* what a callback hears of them, of a record that is stored and loaded, of the period and
\* the instrument of a transaction, and of what a caller asked for in an order.
RecordsTell ==
  UpdatesTell /\ ListenerTells /\ WireTells /\ ExpiryTells /\ NamesTell /\ OrdersTell

Calling ==
  \/ status = "walking" \/ catalog \notin Ends \/ sync \in {"page", "storing"}
  \/ confirming \in {"poll", "sleep"} \/ calling \in {"send", "sent"}
  \/ stage \notin {"idle", "ok", "error"} \/ Awaiting \/ PumpEnding

\* A behaviour is that of one service: what is unfinished is a call, or the store of one of
\* several processes.
Unfinished(a) ==
  \/ Calling
  \/ a \in Procs /\ at[a] # "idle"
  \/ a \in Writers /\ writing[a] = "writing"

\* Every call returns, with a result or an error: whatever cycles the navigation has,
\* whatever pages are repeated, shifted or refused, however often a poll is put off or a
\* request repeated, whatever rows other writers hold, however busy the converters of a
\* streaming client are; and what is told to stop, or has lost its stream, ends.
CallsReturn == \A a \in Procs \cup Writers : Unfinished(a) ~> ~Unfinished(a)
=============================================================================
