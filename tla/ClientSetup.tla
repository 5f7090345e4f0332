----------------------------- MODULE ClientSetup -----------------------------
(***************************************************************************)
(* How a client comes about: the configuration (src/application/config.rs, *)
(* src/utils/config.rs), the pool of API keys, the bucket of the account   *)
(* and the first login (HttpClient::new and new_lazy,                      *)
(* src/application/http.rs), by several clients of one process, and what   *)
(* switch_account makes of the bucket later.                               *)
(*                                                                         *)
(* The variables of the environment that are counted or timed are data;    *)
(* the key list, the account and the version decide.  What a bucket does   *)
(* is RatePacing's, what requests do with keys RequestPool's.              *)
(***************************************************************************)
EXTENDS Naturals, Sequences, FiniteSets

CONSTANTS
  Clients,      \* the clients of the process
  ApiKeys,      \* API keys
  BlankKey,     \* what is between two commas and is no key
  KeyLists,     \* the values of IG_API_KEY: sequences of keys and blanks
  Holders       \* account ids

ASSUME SetupAssumption ==
  /\ BlankKey \notin ApiKeys /\ KeyLists \subseteq Seq(ApiKeys \cup {BlankKey}) \ {<<>>}
  /\ IsFiniteSet(Holders)

VARIABLES
  built,        \* "no", "login", "ready", or the error new returned
  pool,         \* api_key of each slot
  version,      \* config.api_version
  configured,   \* credentials.account_id
  holder,       \* `selected`: the account in force
  bucket,       \* and its limiter, which requests pay from
  session_bucket, \* account_limiter of the Auth of every slot, which logins pay from
  trying,       \* the slot that login_any is at
  spent,        \* the slots marked as exhausted
  primary_slot, \* the primary, 0 before there is one
  logins,       \* history: the slots a login was sent on
  registry      \* ACCOUNT_LIMITERS: account to bucket, 0 where there is none

stp == <<built, pool, version, configured, holder, bucket, session_bucket, trying, spent,
         primary_slot, logins, registry>>

Raw == "the whole list"

\* Credentials::api_keys: the keys of the list that are not blank, in its order.
UsableKeys(list) ==
  LET kept == {i \in DOMAIN list : list[i] # BlankKey} IN
    [n \in 1 .. Cardinality(kept) |->
       list[CHOOSE i \in kept : Cardinality(kept \cap (1 .. i)) = n]]

\* build_pool: without a usable key the raw value is kept.
Slots(list) == IF UsableKeys(list) = <<>> THEN <<Raw>> ELSE UsableKeys(list)

DefaultKey == "default_api_key"

Unset == <<>>

\* get_env_or_default; a value that is blank is set.
EnvOrDefault(list, default) == IF list = Unset THEN default ELSE list

\* A version that is missing, not a number or unknown is the default.
ApiVersion(text) == IF text \in {"2", "3"} THEN text ELSE "3"

\* Config::new
Config(list, text) ==
  [api_key |-> EnvOrDefault(list, <<DefaultKey>>), api_version |-> ApiVersion(text)]

FreshBucket == 1 + Cardinality({h \in Holders : registry[h] # 0})

\* build_account_limiter: entry().or_insert_with() under the lock of the registry.
Registered(h) == IF registry[h] # 0 THEN registry ELSE [registry EXCEPT ![h] = FreshBucket]

SetupInit ==
  /\ built = [c \in Clients |-> "no"]
  /\ pool = [c \in Clients |-> <<>>]
  /\ version = [c \in Clients |-> "3"]
  /\ configured \in [Clients -> Holders] /\ holder = configured
  /\ bucket = [c \in Clients |-> 0] /\ session_bucket = bucket
  /\ trying = [c \in Clients |-> 0]
  /\ spent = [c \in Clients |-> {}]
  /\ primary_slot = [c \in Clients |-> 0]
  /\ logins = [c \in Clients |-> {}]
  /\ registry = [h \in Holders |-> 0]

\* new and new_lazy up to the first login; a lazy client is ready with slot 0 as primary.  The
\* client and the Auths of its slots take one limiter.
BuildClient(c) ==
  /\ built[c] = "no"
  /\ \E list \in KeyLists \cup {Unset}, text \in {"", "1", "2", "3"} :
       /\ pool' = [pool EXCEPT ![c] = Slots(Config(list, text).api_key)]
       /\ version' = [version EXCEPT ![c] = Config(list, text).api_version]
  /\ registry' = Registered(configured[c])
  /\ bucket' = [bucket EXCEPT ![c] = registry'[configured[c]]]
  /\ session_bucket' = [session_bucket EXCEPT ![c] = registry'[configured[c]]]
  /\ trying' = [trying EXCEPT ![c] = 1]
  /\ \/ built' = [built EXCEPT ![c] = "login"] /\ UNCHANGED primary_slot
     \/ built' = [built EXCEPT ![c] = "ready"] /\ primary_slot' = [primary_slot EXCEPT ![c] = 1]
  /\ UNCHANGED <<configured, holder, spent, logins>>

\* login_any: the first key that IG accepts is the primary.
LoginAccepted(c) ==
  /\ built[c] = "login"
  /\ built' = [built EXCEPT ![c] = "ready"]
  /\ primary_slot' = [primary_slot EXCEPT ![c] = trying[c]]
  /\ logins' = [logins EXCEPT ![c] = @ \cup {trying[c]}]
  /\ UNCHANGED <<pool, version, configured, holder, bucket, session_bucket, trying, spent,
                 registry>>

\* The allowance of the key is used up: it is parked, and the next one is asked.
LoginExhausted(c) ==
  /\ built[c] = "login"
  /\ spent' = [spent EXCEPT ![c] = @ \cup {trying[c]}]
  /\ logins' = [logins EXCEPT ![c] = @ \cup {trying[c]}]
  /\ \/ /\ trying[c] < Len(pool[c])
        /\ trying' = [trying EXCEPT ![c] = @ + 1]
        /\ UNCHANGED built
     \/ /\ trying[c] = Len(pool[c])
        /\ built' = [built EXCEPT ![c] = "exhausted"]
        /\ UNCHANGED trying
  /\ UNCHANGED <<pool, version, configured, holder, bucket, session_bucket, primary_slot, registry>>

\* Any other failure is not the key's.
LoginRefused(c) ==
  /\ built[c] = "login"
  /\ built' = [built EXCEPT ![c] = "error"]
  /\ logins' = [logins EXCEPT ![c] = @ \cup {trying[c]}]
  /\ UNCHANGED <<pool, version, configured, holder, bucket, session_bucket, trying, spent,
                 primary_slot, registry>>

SetupStep(c) == LoginAccepted(c) \/ LoginExhausted(c) \/ LoginRefused(c)

\* Mutant: the switch takes the sessions' bucket along.
SelectAccountSessions(c) ==
  /\ built[c] = "ready" /\ (version[c] = "3" \/ Len(pool[c]) = 1)
  /\ \E h \in Holders :
       /\ registry' = Registered(h)
       /\ holder' = [holder EXCEPT ![c] = h]
       /\ bucket' = [bucket EXCEPT ![c] = registry'[h]]
       /\ session_bucket' = [session_bucket EXCEPT ![c] = registry'[h]]
  /\ UNCHANGED <<built, pool, version, configured, trying, spent, primary_slot, logins>>

\* HttpClient::switch_account, where it is not refused: each v2 session would have to be
\* switched on its own.  The Auths of the slots keep the limiter they were built with.
SelectAccount(c) ==
  /\ built[c] = "ready" /\ (version[c] = "3" \/ Len(pool[c]) = 1)
  /\ \E h \in Holders :
       /\ registry' = Registered(h)
       /\ holder' = [holder EXCEPT ![c] = h]
       /\ bucket' = [bucket EXCEPT ![c] = registry'[h]]
  /\ UNCHANGED <<built, pool, version, configured, session_bucket, trying, spent, primary_slot,
                 logins>>
-----------------------------------------------------------------------------
(* Properties.                                                             *)

SetupTypeOK ==
  /\ built \in [Clients -> {"no", "login", "ready", "exhausted", "error"}]
  /\ pool \in [Clients -> Seq(ApiKeys \cup {DefaultKey, Raw})]
  /\ version \in [Clients -> {"2", "3"}]
  /\ configured \in [Clients -> Holders] /\ holder \in [Clients -> Holders]
  /\ bucket \in [Clients -> 0 .. Cardinality(Holders)]
  /\ session_bucket \in [Clients -> 0 .. Cardinality(Holders)]
  /\ registry \in [Holders -> 0 .. Cardinality(Holders)]

\* A client is told of exhausted keys only when all of them are, and its primary is the first
\* key of the list that is not: no key behind it was asked and no key before it is still
\* offered.  However clients are built and switch their accounts, those on one account pay for
\* requests from one bucket and those on two from two, while logins go on paying from the
\* bucket of the account that is configured; and the sessions of several keys hold one account,
\* the configured one.
SetupTells ==
  /\ \A c \in Clients :
       /\ built[c] = "exhausted" => spent[c] = DOMAIN pool[c]
       /\ built[c] = "error" => trying[c] \notin spent[c]
       /\ built[c] = "ready" /\ logins[c] # {} =>
            /\ logins[c] = 1 .. primary_slot[c]
            /\ spent[c] = logins[c] \ {primary_slot[c]}
       /\ built[c] = "ready" /\ version[c] = "2" /\ Len(pool[c]) > 1 => holder[c] = configured[c]
  /\ \A c, d \in Clients :
       built[c] # "no" /\ built[d] # "no" =>
         /\ holder[c] = holder[d] <=> bucket[c] = bucket[d]
         /\ holder[c] = configured[d] <=> bucket[c] = session_bucket[d]
         /\ configured[c] = configured[d] <=> session_bucket[c] = session_bucket[d]
=============================================================================
