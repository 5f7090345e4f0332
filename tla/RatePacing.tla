----------------------------- MODULE RatePacing -----------------------------
(***************************************************************************)
(* RateLimiter (src/application/rate_limiter.rs): one bucket per class of  *)
(* request, the interval and burst that the configured or fixed budget is  *)
(* turned into, and the buckets of the governor crate that admit requests  *)
(* by them.                                                                *)
(***************************************************************************)
EXTENDS Integers

CONSTANTS
  Second,       \* a second, in units of the clock
  Budgets,      \* max_requests, period_seconds and burst_size of the configuration
  DefaultBurst, \* DEFAULT_RATE_LIMIT_BURST_SIZE
  FixedRate,    \* TRADING_ and HISTORICAL_RATE_LIMIT_PER_SECOND
  FixedBurst,   \* TRADING_HISTORICAL_BURST_SIZE
  Horizon       \* bound: how long the limiter is followed

\* per_second_period rounds down: the fixed rate is kept because it divides the second.
ASSUME PacingAssumption ==
  /\ Second \in Nat \ {0} /\ DefaultBurst \in Nat \ {0} /\ Horizon \in Nat
  /\ FixedRate \in Nat \ {0} /\ Second % FixedRate = 0 /\ FixedBurst \in Nat \ {0}
  /\ Budgets \subseteq [max_requests : Nat, period_seconds : Nat, burst_size : Nat]
  /\ Budgets # {}

\* RateLimitClass
RateClasses == {"Trading", "Historical", "NonTrading"}

VARIABLES
  budget,       \* RateLimiterConfig
  now,          \* the clock
  tat,          \* governor, per bucket: when one that sends evenly would send next
  followed,     \* the class that the history is about
  admitted      \* history: how many requests of it were admitted by each time

pac == <<budget, now, tat, followed, admitted>>

AtLeast(n, least) == IF n < least THEN least ELSE n

Period == IF budget.period_seconds = 0 THEN Second ELSE budget.period_seconds * Second

\* Mutant: the division rounds down.
ReplenishFloor == AtLeast(Period \div AtLeast(budget.max_requests, 1), 1)

\* replenish_period: rounded up, and never zero.
ReplenishPeriod ==
  LET max == AtLeast(budget.max_requests, 1) IN AtLeast((Period + max - 1) \div max, 1)

PerSecondPeriod(rate) == AtLeast(Second \div AtLeast(rate, 1), 1)

\* build_limiter
Burst(size) == IF size = 0 THEN DefaultBurst ELSE size

\* RateLimiter::new: the buckets, as the interval and the burst of each.
Bucket ==
  [class \in RateClasses |->
     IF class = "NonTrading"
     THEN [interval |-> ReplenishPeriod, burst |-> Burst(budget.burst_size)]
     ELSE [interval |-> PerSecondPeriod(FixedRate), burst |-> Burst(FixedBurst)]]

\* Mutant: one bucket for all classes.
LimiterShared(class) == "NonTrading"

\* limiter_for
LimiterFor(class) == class

PacingInit ==
  /\ budget = CHOOSE b \in Budgets : TRUE
  /\ now = 0
  /\ tat = [class \in RateClasses |-> 0]
  /\ followed = "NonTrading"
  /\ admitted = [t \in 0 .. Horizon |-> 0]

NewLimiter ==
  /\ now = 0 /\ \A class \in RateClasses : tat[class] = 0
  /\ budget' \in Budgets /\ followed' \in RateClasses
  /\ tat' = [class \in RateClasses |-> Bucket'[class].interval]
  /\ UNCHANGED <<now, admitted>>

\* A request gets its cell at the first time it may: wait_for and reserve.
Admit(class) ==
  LET c == LimiterFor(class) IN
    /\ tat[c] > 0 /\ tat[c] <= now + Bucket[c].interval * Bucket[c].burst
    /\ tat' = [tat EXCEPT ![c] = AtLeast(@, now) + Bucket[c].interval]
    /\ admitted' = IF class = followed THEN [admitted EXCEPT ![now] = @ + 1] ELSE admitted
    /\ UNCHANGED <<budget, now, followed>>

Tick ==
  /\ now < Horizon /\ \A class \in RateClasses : tat[class] > 0
  /\ now' = now + 1
  /\ admitted' = [admitted EXCEPT ![now + 1] = admitted[now]]
  /\ UNCHANGED <<budget, tat, followed>>

PacingStep == Tick \/ \E class \in RateClasses : Admit(class)
-----------------------------------------------------------------------------
(* Properties.                                                             *)

PacingTypeOK ==
  /\ budget \in Budgets /\ now \in 0 .. Horizon /\ tat \in [RateClasses -> Nat]
  /\ followed \in RateClasses /\ admitted \in [0 .. Horizon -> Nat]

\* How many were admitted from a to b.
Sent(a, b) == IF a = 0 THEN admitted[b] ELSE admitted[b] - admitted[a - 1]

\* The rate and the burst that the class was promised.
Promised ==
  IF followed = "NonTrading"
  THEN [burst |-> Burst(budget.burst_size), period |-> Period,
        requests |-> AtLeast(budget.max_requests, 1)]
  ELSE [burst |-> FixedBurst, period |-> Second, requests |-> FixedRate]

\* From any moment on, the requests of a class admitted beyond one burst, and the one more
\* that the bucket has after a pause, never exceed the rate of the class, whatever the
\* rounding of the interval and whatever the other classes send.
BudgetKept ==
  \A a \in 0 .. now : \A b \in a .. now :
    LET beyond == Sent(a, b) - Promised.burst - 1 IN
      beyond > 0 => beyond * Promised.period <= (b - a) * Promised.requests
=============================================================================
