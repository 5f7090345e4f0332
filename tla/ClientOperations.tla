-------------------------- MODULE ClientOperations --------------------------
(***************************************************************************)
(* The single-request operations of Client (src/application/client.rs):    *)
(* what each asks the HTTP client for, and what the policy the HTTP client *)
(* derives from method and path (src/application/http.rs) makes of it when *)
(* answers are late, lost or refused.                                      *)
(*                                                                         *)
(* A request is what decides its fate: the method, the kind of path and    *)
(* the policy asked for.  RequestPool has the keys, sessions and pacing    *)
(* behind a repetition; here it is that the request goes out again.        *)
(***************************************************************************)
EXTENDS Naturals

CONSTANTS
  MaxSends      \* bound: how often retries, rotation and a replay can send a request

ASSUME OperationsAssumption == MaxSends \in Nat \ {0}

Paths == {"positions/otc", "workingorders/otc", "prices/", "watchlists", "other"}

Requests(names, method, path, policy) ==
  {[name |-> n, method |-> method, path |-> path, policy |-> policy] : n \in names}

MarketReads == Requests({"search_markets", "get_market_details", "get_multiple_market_details"},
                        "GET", "other", "Standard")

PriceReads ==
  Requests({"get_historical_prices", "get_historical_prices_by_date_range", "get_recent_prices",
            "get_historical_prices_by_count_v1", "get_historical_prices_by_count_v2"},
           "GET", "prices/", "Standard")

CatalogReads == Requests({"get_categories", "get_category_instruments"}, "GET", "other", "Standard")

AccountReads ==
  Requests({"get_accounts", "get_positions", "get_positions_w_filter", "get_working_orders",
            "get_activity", "get_activity_with_details"}, "GET", "other", "Standard")

AccountSettings ==
  Requests({"get_preferences", "get_activity_by_period"}, "GET", "other", "Standard")
  \cup Requests({"update_preferences"}, "PUT", "other", "Standard")

OrderPlacement == Requests({"create_order"}, "POST", "positions/otc", "SingleAttempt")

\* A close is a POST with the header _method: DELETE.
PositionChanges ==
  Requests({"update_position", "update_level_in_position"}, "PUT", "positions/otc", "SingleAttempt")
  \cup Requests({"close_position"}, "POST", "positions/otc", "SingleAttempt")

WorkingOrderChanges ==
  Requests({"create_working_order"}, "POST", "workingorders/otc", "SingleAttempt")
  \cup Requests({"delete_working_order", "delete_working_order_with_reference"},
                "DELETE", "workingorders/otc", "SingleAttempt")
  \cup Requests({"get_position"}, "GET", "other", "Standard")
  \cup Requests({"update_working_order"}, "PUT", "workingorders/otc", "SingleAttempt")

Watchlists ==
  Requests({"get_watchlists", "get_watchlist"}, "GET", "watchlists", "Standard")
  \cup Requests({"create_watchlist"}, "POST", "watchlists", "Standard")
  \cup Requests({"delete_watchlist", "remove_from_watchlist"}, "DELETE", "watchlists", "Standard")
  \cup Requests({"add_to_watchlist"}, "PUT", "watchlists", "Standard")

Sentiment ==
  Requests({"get_client_sentiment", "get_client_sentiment_by_market", "get_related_sentiment"},
           "GET", "other", "Standard")

Costs ==
  Requests({"get_indicative_costs_open", "get_indicative_costs_close",
            "get_indicative_costs_edit"}, "POST", "other", "Standard")
  \cup Requests({"get_durable_medium"}, "GET", "other", "Standard")

Application ==
  Requests({"get_client_apps"}, "GET", "other", "Standard")
  \cup Requests({"disable_client_app"}, "PUT", "other", "Standard")

\* The traits of src/application/interfaces.
MarketService     == MarketReads \cup PriceReads \cup CatalogReads
AccountService    == AccountReads \cup AccountSettings
OrderService      == OrderPlacement \cup PositionChanges \cup WorkingOrderChanges
WatchlistService  == Watchlists
SentimentService  == Sentiment
CostsService      == Costs
OperationsService == Application

Operations ==
  MarketService \cup AccountService \cup OrderService \cup WatchlistService
  \cup SentimentService \cup CostsService \cup OperationsService

\* Calls whose arguments may be refused before anything is sent.
Checked == {"get_multiple_market_details", "get_category_instruments"}

VARIABLES
  calling,      \* "idle", "send", "sent", and how the last call returned
  operation,    \* the operation
  escaped,      \* its path has a percent escape
  sends,        \* how often the request went out
  replayed,     \* the 401 replay was used
  applied,      \* IG: how often it did what was asked
  reply         \* IG: its answer to the last send, or "lost"

ops == <<calling, operation, escaped, sends, replayed, applied, reply>>

Mutation(o) == o.method \in {"POST", "PUT", "DELETE"}

\* classify_endpoint
Class(o) ==
  CASE Mutation(o) /\ o.path \in {"positions/otc", "workingorders/otc"} -> "Trading"
    [] o.path = "prices/" -> "Historical"
    [] OTHER -> "NonTrading"

\* Mutant: an operation has the policy it asks for, and a close that of any POST.
PolicyAsked(o) == IF o.name = "close_position" THEN "Standard" ELSE o.policy

\* Trading mutations and escaped ones are sent once, whatever is asked for.
Policy(o) ==
  IF Class(o) = "Trading" \/ (Mutation(o) /\ escaped) THEN "SingleAttempt" ELSE o.policy

OpsInit ==
  /\ calling = "idle"
  /\ operation = CHOOSE o \in Operations : o.name = "get_accounts"
  /\ escaped = FALSE /\ sends = 0 /\ replayed = FALSE /\ applied = 0 /\ reply = "none"

\* One call: those of one client after another share nothing that is modelled here.
CallOperation ==
  /\ calling = "idle"
  /\ operation' \in Operations /\ escaped' \in BOOLEAN
  /\ sends' = 0 /\ replayed' = FALSE /\ applied' = 0 /\ reply' = "none"
  /\ \/ calling' = "send"
     \/ operation'.name \in Checked /\ calling' \in {"ok", "error"}

\* No session could be had for the request, or no bucket was left to ask.
NotSent ==
  /\ calling = "send"
  /\ calling' = "error"
  /\ UNCHANGED <<operation, escaped, sends, replayed, applied, reply>>

\* IG does what is asked or refuses it, and its reply comes back or does not: a server
\* error leaves open which it was.
Exchange ==
  /\ calling = "send"
  /\ sends' = sends + 1
  /\ calling' = "sent"
  /\ \/ applied' = applied + 1 /\ reply' \in {"success", "server_error", "lost"}
     \/ /\ UNCHANGED applied
        /\ reply' \in {"server_error", "lost", "refused", "key_refused", "unauthorized"}
  /\ UNCHANGED <<operation, escaped, replayed>>

\* A server error is retried, a refused key is left for another one, a rejected session is
\* refreshed for one replay; a transport error is returned.
MayRepeat ==
  /\ Policy(operation) = "Standard" /\ sends < MaxSends
  /\ \/ reply = "server_error"
     \/ reply = "key_refused" /\ Class(operation) = "NonTrading"
     \/ reply = "unauthorized" /\ ~replayed

Repeat ==
  /\ calling = "sent" /\ MayRepeat
  /\ calling' = "send"
  /\ replayed' = (replayed \/ reply = "unauthorized")
  /\ UNCHANGED <<operation, escaped, sends, applied, reply>>

\* The retries may be used up at any server error, the keys at any refusal; a body that
\* cannot be read is an error too.
Return ==
  /\ calling = "sent"
  /\ \/ reply = "success" /\ calling' \in {"ok", "error"}
     \/ reply # "success" /\ calling' = "error"
  /\ UNCHANGED <<operation, escaped, sends, replayed, applied, reply>>

OpsStep == NotSent \/ Exchange \/ Repeat \/ Return
-----------------------------------------------------------------------------
(* Properties.                                                             *)

OpsTypeOK ==
  /\ calling \in {"idle", "send", "sent", "ok", "error"}
  /\ operation \in Operations /\ escaped \in BOOLEAN
  /\ sends \in 0 .. MaxSends /\ replayed \in BOOLEAN /\ applied \in 0 .. sends
  /\ reply \in {"none", "success", "server_error", "lost", "refused", "key_refused", "unauthorized"}

\* Operations that leave more at IG each time they are carried out.
Adding == {"create_order", "close_position", "create_working_order", "create_watchlist"}

\* Nothing that changes orders or positions is carried out twice by one call, whichever
\* answers are lost on the way; of all other calls only create_watchlist, which is retried
\* after a server error, can leave a second one; and what is reported done was done.
EffectsOnce ==
  /\ operation.path \in {"positions/otc", "workingorders/otc"} => applied <= 1
  /\ operation.name \in Adding \ {"create_watchlist"} => applied <= 1
  /\ escaped /\ Mutation(operation) => sends <= 1
  /\ calling = "ok" /\ sends > 0 => applied > 0
=============================================================================
