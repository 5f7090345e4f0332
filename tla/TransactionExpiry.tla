-------------------------- MODULE TransactionExpiry --------------------------
(***************************************************************************)
(* The expiry of a stored transaction: parse_period of                     *)
(* src/presentation/transaction.rs, which reads an exact date or a month,  *)
(* on the calendar of the chrono crate.                                    *)
(***************************************************************************)
EXTENDS Integers

CONSTANTS
  Years,        \* the two digits of years
  Days          \* days that an exact period names

ASSUME ExpiryAssumption == Years \subseteq 0 .. 99 /\ Days \subseteq Nat

VARIABLES
  period,       \* AccountTransaction::period
  expiry        \* StoreTransaction::expiry, a day number, or NoDate

exp == <<period, expiry>>

NoDate == -1000

Leap(year) == year % 4 = 0 /\ (year % 100 # 0 \/ year % 400 = 0)

MonthLength(year, month) ==
  IF month = 2 THEN IF Leap(year) THEN 29 ELSE 28
  ELSE IF month \in {4, 6, 9, 11} THEN 30 ELSE 31

\* Days since the first of 2000, a Saturday.
FirstOfYear(year) == 365 * (year - 2000) + (year - 1997) \div 4

\* Days of a year before each of its months, the leap day apart.
DaysBefore == <<0, 31, 59, 90, 120, 151, 181, 212, 243, 273, 304, 334>>

FirstOf(year, month) ==
  FirstOfYear(year) + DaysBefore[month] + IF month > 2 /\ Leap(year) THEN 1 ELSE 0

\* num_days_from_monday
Weekday(date) == (date + 5) % 7

\* NaiveDate::from_ymd_opt
Date(year, month, day) ==
  IF day \in 1 .. MonthLength(year, month) THEN FirstOf(year, month) + day - 1 ELSE NoDate

\* The last day of the month before; December's is named.
LastDayBefore(year, month) ==
  IF month = 1 THEN Date(year - 1, 12, 31) ELSE FirstOf(year, month) - 1

\* The days back to a Wednesday.
Back(date) == (Weekday(date) + 7 - 2) % 7

\* DD-MON-YY, MON-YY, or anything else.
ParsePeriod(p) ==
  CASE p.form = "exact" -> Date(2000 + p.year, p.month, p.day)
    [] p.form = "month" -> LET last == LastDayBefore(2000 + p.year, p.month) IN last - Back(last)
    [] p.form = "other" -> NoDate

Periods == [form : {"exact"}, year : Years, month : 1 .. 12, day : Days]
             \cup [form : {"month"}, year : Years, month : 1 .. 12, day : {0}]
             \cup [form : {"other"}, year : {0}, month : {1}, day : {0}]

ExpiryInit ==
  /\ period = [form |-> "other", year |-> 0, month |-> 1, day |-> 0]
  /\ expiry = NoDate

\* From<AccountTransaction> for StoreTransaction; a transaction is converted once.
ReadPeriod ==
  /\ period.form = "other"
  /\ period' \in Periods
  /\ expiry' = ParsePeriod(period')
-----------------------------------------------------------------------------
(* Properties.                                                             *)

ExpiryTypeOK == period \in Periods /\ expiry \in Int

\* A month stands for the Wednesday that is the last one before it begins, over the end of
\* a year and of a leap February; an exact date for itself, and a day that its month does
\* not have for no date rather than for one of the next month.
ExpiryTells ==
  LET first == FirstOf(2000 + period.year, period.month) IN
    /\ period.form = "month" => expiry \in first - 7 .. first - 1 /\ Weekday(expiry) = 2
    /\ period.form = "exact" =>
         IF period.day \in 1 .. MonthLength(2000 + period.year, period.month)
         THEN expiry = first + period.day - 1
         ELSE expiry = NoDate
=============================================================================
