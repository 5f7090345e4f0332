---------------------------- MODULE OAuthSession ----------------------------
(***************************************************************************)
(* The session of a v3 client (src/application/auth.rs, src/model/auth.rs  *)
(* and request_on_slot of src/application/http.rs): OAuth tokens of a few  *)
(* seconds, renewed by the local clock before they expire, and an account  *)
(* that is named with every request instead of being held by the session.  *)
(*                                                                         *)
(* Of the tasks that share the session one is followed; what the others    *)
(* can do to it is to log in, log out and switch the account.  Times are   *)
(* counted down, in seconds.  The token is read once for all the attempts  *)
(* of a request: it grows old while the request waits for its buckets and  *)
(* between its retries.  AccountSession is the v2 client.                  *)
(***************************************************************************)
EXTENDS Naturals

CONSTANTS
  Names,        \* the accounts of the user
  Pinned,       \* credentials.account_id, the configured one
  Lives,        \* expires_in of the tokens IG grants; 0 also for one that is malformed
  Margin,       \* PROACTIVE_REFRESH_MARGIN_V3_SECS
  Delay,        \* bound on the time the answer of a login takes
  Longest,      \* bound: seconds a request may have waited for its buckets and the wire
  MaxRetries,   \* RetryConfig::max_retries
  Pauses,       \* the backoffs between two attempts, in seconds
  NoToken       \* None of an Option

\* What IG granted (life), how late its answer was, and what IG and the client have left of
\* it.
OAuthTokens ==
  [life : Lives, late : 0 .. Delay, lives : Nat, keeps : Nat, account : {Pinned}]

ASSUME OAuthAssumption ==
  /\ Pinned \in Names /\ Lives \subseteq Nat /\ Lives # {}
  /\ Margin \in Nat /\ Delay \in Nat /\ Longest \in Nat /\ MaxRetries \in Nat
  /\ Pauses \subseteq Nat \ {0}
  /\ NoToken \notin OAuthTokens

Stages == {"idle", "get", "refresh", "login", "forced", "ready", "paced", "sent", "backoff",
           "ok", "error"}

\* A Standard request; one that is sent once, an order or not; the tokens of a stream.
Purposes == {"request", "single", "order", "stream"}

VARIABLES
  cached,       \* Auth's session, or NoToken
  chosen,       \* the account of `selected`
  stage,        \* where the followed task is, or how its last call returned
  purpose,      \* what it wants a session for
  refused,      \* it was refused and forced a login: `replayed`
  token,        \* the session in its hands, or NoToken
  waited,       \* how long ago it took the session
  spare,        \* how many retries it has left
  pause,        \* what is left of a backoff
  named,        \* IG-ACCOUNT-ID of what it sends
  since         \* history: the accounts in force since its call began

oas == <<cached, chosen, stage, purpose, refused, token, waited, spare, pause, named,
         since>>

Less(n, m) == IF n < m THEN 0 ELSE n - m

\* A session whose answer was on its way for d: IG counts from the grant, OAuthToken from
\* the answer, and expire_at(1) takes a second off.  The account is not IG's default.
Granted(life, d) ==
  [life |-> life, late |-> d, lives |-> Less(life, d), keeps |-> Less(life, 1),
   account |-> Pinned]

Older(session) ==
  IF session = NoToken THEN NoToken
  ELSE [session EXCEPT !.lives = Less(@, 1), !.keeps = Less(@, 1)]

\* Mutant: the session is used until it expires.
ExpiredAtEnd(session) == session.keeps = 0

\* is_expired with the margin of an OAuth session.
Expired(session) == session.keeps <= Margin

OAuthInit ==
  /\ cached = NoToken
  /\ chosen = Pinned
  /\ stage = "idle" /\ purpose = "request" /\ refused = FALSE
  /\ token = NoToken /\ waited = 0 /\ spare = 0 /\ pause = 0
  /\ named = Pinned /\ since = {Pinned}

\* A request begins, or ws_info.
Want ==
  /\ stage \in {"idle", "ok", "error"}
  /\ stage' = "get"
  /\ purpose' \in Purposes
  /\ refused' = FALSE
  /\ named' = Pinned /\ since' = {chosen}
  /\ UNCHANGED <<cached, chosen, token, waited, spare, pause>>

\* Auth::get_session
Get ==
  /\ stage = "get"
  /\ \/ cached = NoToken /\ stage' = "login" /\ UNCHANGED token
     \/ cached # NoToken /\ Expired(cached) /\ stage' = "refresh" /\ UNCHANGED token
     \/ cached # NoToken /\ ~Expired(cached) /\ stage' = "ready" /\ token' = cached
  /\ UNCHANGED <<cached, chosen, purpose, refused, waited, spare, pause, named, since>>

\* Auth::refresh_token looks again: another task may have logged in meanwhile.
Refresh ==
  /\ stage = "refresh"
  /\ \/ cached # NoToken /\ ~Expired(cached) /\ stage' = "ready" /\ token' = cached
     \/ cached = NoToken /\ stage' = "login" /\ UNCHANGED token
     \/ cached # NoToken /\ Expired(cached) /\ stage' = "login" /\ UNCHANGED token
  /\ UNCHANGED <<cached, chosen, purpose, refused, waited, spare, pause, named, since>>

\* The login is answered and stored.  Its session is used, whatever is left of it; only the
\* replay of a refused request asks for the session again.
LoggedIn ==
  /\ stage \in {"login", "forced"}
  /\ \E life \in Lives, d \in 0 .. Delay : cached' = Granted(life, d)
  /\ \/ stage = "forced" /\ stage' = "get" /\ UNCHANGED token
     \/ stage = "login" /\ stage' = "ready" /\ token' = cached'
  /\ UNCHANGED <<chosen, purpose, refused, waited, spare, pause, named, since>>

\* A 401 of what a request sends, its login included: one forced login and one replay,
\* unless it is sent once, was replayed, or asks for the tokens of a stream.
Replays == purpose = "request" /\ ~refused /\ stage' = "forced" /\ refused' = TRUE

GivesUp == stage' = "error" /\ UNCHANGED refused

\* The login fails, or IG answers with a v2 session: nothing is stored.
LoginFails ==
  /\ stage \in {"login", "forced"}
  /\ (stage = "login" /\ Replays) \/ GivesUp
  /\ UNCHANGED <<cached, chosen, purpose, token, waited, spare, pause, named, since>>

\* request_on_slot takes the account in force; fetch_session_tokens that of the session.
NamesAccount == named' = IF purpose = "stream" THEN token.account ELSE chosen

\* The retries of a call: a Standard request has none while there is a key to rotate to,
\* and one that is sent once has none at all.
RetryBudget ==
  CASE purpose = "stream"  -> {MaxRetries}
    [] purpose = "request" -> {0, MaxRetries}
    [] OTHER               -> {0}

\* The headers, built once: the token and the account of every attempt.
Prepare ==
  /\ stage = "ready"
  /\ stage' = "paced"
  /\ NamesAccount
  /\ spare' \in RetryBudget
  /\ UNCHANGED <<cached, chosen, purpose, refused, token, waited, pause, since>>

\* The buckets have let the attempt pass: it is on the wire.
Dispatch ==
  /\ stage = "paced"
  /\ stage' = "sent"
  /\ UNCHANGED <<cached, chosen, purpose, refused, token, waited, spare, pause, named, since>>

\* The call is over, or begins again, and its session with it.
AttemptEnds ==
  /\ stage = "sent"
  /\ token' = NoToken /\ waited' = 0 /\ spare' = 0
  /\ UNCHANGED <<cached, chosen, purpose, pause, named, since>>

\* IG serves a token until it expires.
Served == AttemptEnds /\ token.lives > 0 /\ stage' = "ok" /\ UNCHANGED refused

Unauthorized == AttemptEnds /\ (Replays \/ GivesUp)

\* The transport fails, IG refuses for good, or no retry is left.
AttemptFails == AttemptEnds /\ GivesUp

\* 429 or a server error: the same request again, after a backoff.
RetryLater ==
  /\ stage = "sent" /\ spare > 0
  /\ stage' = "backoff"
  /\ spare' = spare - 1
  /\ pause' \in Pauses
  /\ UNCHANGED <<cached, chosen, purpose, refused, token, waited, named, since>>

\* Time passes.
Ages == cached' = Older(cached) /\ token' = Older(token)

\* A second of the backoff.
Sleep ==
  /\ stage = "backoff"
  /\ Ages
  /\ pause' = pause - 1 /\ waited' = waited + 1
  /\ IF pause = 1 THEN stage' = "paced" ELSE UNCHANGED stage
  /\ UNCHANGED <<chosen, purpose, refused, spare, named, since>>

OAuthStep ==
  \/ Get \/ Refresh \/ LoggedIn \/ LoginFails \/ Prepare \/ Dispatch
  \/ Served \/ Unauthorized \/ AttemptFails \/ RetryLater \/ Sleep

\* What other tasks do: a login of theirs may be answered before or after one that was
\* granted later; a logout drops the session; a switch only changes the account in force.
Others ==
  UNCHANGED <<stage, purpose, refused, token, waited, spare, pause, named>>

OthersLogin ==
  /\ \E life \in Lives, d \in 0 .. Delay : cached' = Granted(life, d)
  /\ UNCHANGED <<chosen, since>> /\ Others

OthersLogout ==
  /\ cached # NoToken
  /\ cached' = NoToken
  /\ UNCHANGED <<chosen, since>> /\ Others

OthersSwitch ==
  /\ chosen' \in Names
  /\ since' = since \cup {chosen'}
  /\ UNCHANGED cached /\ Others

\* A second passes: between calls, in a login, for a bucket, which an order does not wait
\* for, or on the wire.
Elapse ==
  /\ \/ stage \in {"idle", "ok", "error", "login", "forced"} /\ UNCHANGED waited
     \/ /\ stage = "sent" \/ (stage = "paced" /\ purpose # "order")
        /\ waited < Longest
        /\ waited' = waited + 1
  /\ Ages
  /\ UNCHANGED <<chosen, stage, purpose, refused, spare, pause, named, since>>

OthersStep == OthersLogin \/ OthersLogout \/ OthersSwitch \/ Elapse
-----------------------------------------------------------------------------
(* Properties.                                                             *)

IsToken(t) ==
  \/ t = NoToken
  \/ /\ t \in OAuthTokens
     /\ t.lives <= t.life /\ t.keeps <= t.life

OAuthTypeOK ==
  /\ IsToken(cached) /\ IsToken(token)
  /\ stage \in Stages /\ purpose \in Purposes /\ refused \in BOOLEAN
  /\ chosen \in Names /\ named \in Names /\ since \subseteq Names
  /\ waited \in Nat /\ spare \in 0 .. MaxRetries /\ pause \in Nat

\* What the refresh margin is worth.  An attempt is on the wire with a token that IG still
\* serves, whatever logins of other tasks came in between and although IG counts from the
\* grant and the client from the answer, as long as the delay of that answer and all the
\* time since the session was read, the buckets, the backoffs and the wire, add up to no
\* more than the margin and a second: of a token that was just granted, to less than its
\* life.  Past that an attempt may well go out on a token that has expired: a retry does,
\* whose backoff alone is a margin long.  The account a request names is one that was in
\* force while it was made, and the tokens of a stream are asked for the account the stream
\* names, in every attempt.
TokenServes ==
  stage = "sent" =>
    /\ token.late + waited <= Margin + 1 /\ token.late + waited < token.life
         => token.lives > 0
    /\ purpose # "stream" => named \in since
    /\ purpose = "stream" => named = token.account
=============================================================================
