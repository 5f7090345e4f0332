-------------------------- MODULE DealConfirmation --------------------------
(***************************************************************************)
(* get_order_confirmation_w_retry (src/application/client.rs) and the      *)
(* backoff it shares with the request pipeline (backoff_delay of           *)
(* src/model/retry.rs), in integers of a width.                            *)
(***************************************************************************)
EXTENDS Naturals

CONSTANTS
  Width,        \* bits of the milliseconds and of the shift (64)
  AttemptWidth, \* bits of the attempt counter (32)
  Cap,          \* MAX_RETRY_DELAY_SECS, in milliseconds
  Delays,       \* delay_ms of the calls
  Limits        \* retries of the calls

ASSUME ConfirmationAssumption ==
  /\ Width \in Nat \ {0} /\ AttemptWidth \in Nat
  /\ Cap \in 0 .. 2 ^ Width - 1 /\ Delays \subseteq 0 .. 2 ^ Width - 1 /\ Limits \subseteq Nat
  /\ Delays # {} /\ Limits # {}

Largest == 2 ^ Width - 1

\* AppError, by what a caller can do about it; a status by its class.
Errors ==
  {"rate_limited", "network", "not_found", "unexpected_404", "unexpected_5xx",
   "unexpected_4xx", "unauthorized", "token_expired", "key_allowance", "account_allowance",
   "trading_allowance", "historical_allowance", "deserialization", "invalid_input", "auth",
   "other"}

VARIABLES
  confirming,   \* "idle", "poll", "sleep", and how the last call returned
  base,         \* delay_ms
  retries,
  attempt,
  polls,        \* history: how many requests were answered
  answer,       \* the answer of the last one
  wait          \* how long the call sleeps, or slept last

cnf == <<confirming, base, retries, attempt, polls, answer, wait>>

Least(a, b) == IF a < b THEN a ELSE b

\* checked_shl: a shift of Width or more is the largest factor.
Factor(n) == IF n < Width THEN 2 ^ n ELSE Largest

Scaled(n) == Least(Least(base * Factor(n), Largest), Cap)

\* Up to a quarter more, from the clock.
Backoff(n) == {Least(Scaled(n) + jitter, Largest) : jitter \in 0 .. Scaled(n) \div 4}

\* Not processed yet, or a failure that may pass.
Transient(error) ==
  error \in {"rate_limited", "network", "not_found", "unexpected_404", "unexpected_5xx"}

ConfirmInit ==
  /\ confirming = "idle"
  /\ base = 0 /\ retries = 0 /\ attempt = 0
  /\ polls = 0 /\ answer = "none" /\ wait = 0

Confirm ==
  /\ confirming \in {"idle", "ok", "error"}
  /\ confirming' = "poll"
  /\ base' \in Delays /\ retries' \in Limits
  /\ attempt' = 0
  /\ polls' = 0 /\ answer' = "none" /\ wait' = 0

Confirmed ==
  /\ confirming = "poll"
  /\ confirming' = "ok"
  /\ polls' = polls + 1 /\ answer' = "ok"
  /\ UNCHANGED <<base, retries, attempt, wait>>

\* A permanent error, the last poll allowed, or an attempt counter at its end.
GaveUp ==
  /\ confirming = "poll"
  /\ \E error \in Errors :
       /\ ~Transient(error) \/ attempt >= retries \/ attempt + 1 >= 2 ^ AttemptWidth
       /\ answer' = error
  /\ polls' = polls + 1
  /\ confirming' = "error"
  /\ UNCHANGED <<base, retries, attempt, wait>>

PollAgain ==
  /\ confirming = "poll"
  /\ \E error \in Errors :
       /\ Transient(error) /\ attempt < retries /\ attempt + 1 < 2 ^ AttemptWidth
       /\ answer' = error
  /\ polls' = polls + 1
  /\ wait' \in Backoff(attempt)
  /\ confirming' = "sleep"
  /\ UNCHANGED <<base, retries, attempt>>

Wake ==
  /\ confirming = "sleep"
  /\ confirming' = "poll"
  /\ attempt' = attempt + 1
  /\ UNCHANGED <<base, retries, polls, answer, wait>>

ConfirmStep == Confirmed \/ GaveUp \/ PollAgain \/ Wake
-----------------------------------------------------------------------------
(* Properties.                                                             *)

ConfirmTypeOK ==
  /\ confirming \in {"idle", "poll", "sleep", "ok", "error"}
  /\ base \in Delays \cup {0} /\ retries \in Limits \cup {0} /\ attempt \in 0 .. 2 ^ AttemptWidth - 1
  /\ polls \in Nat /\ answer \in Errors \cup {"none", "ok"} /\ wait \in 0 .. Largest

\* A call gives up only on an error that cannot pass or when it has polled retries + 1
\* times (as often as its counter allows), never asks again after a permanent error, and
\* the pause after its n-th poll is base * 2 ^ (n - 1), at most Cap, and up to a quarter
\* more, however often it doubled: it neither overflows into a busy loop nor grows on.
ConfirmPolls ==
  /\ confirming \in {"poll", "sleep"} /\ polls > 0 => Transient(answer)
  /\ confirming = "error" /\ Transient(answer) => polls = Least(retries + 1, 2 ^ AttemptWidth)
  /\ confirming = "sleep" =>
       LET planned == Least(base * 2 ^ (polls - 1), Cap) IN
         wait \in planned .. planned + planned \div 4
=============================================================================
