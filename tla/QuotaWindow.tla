----------------------------- MODULE QuotaWindow -----------------------------
(***************************************************************************)
(* The weekly window the budget is counted in (config.go). Time is a count *)
(* of units since some midnight; day 0 is weekday 0 and a day is           *)
(* UnitsPerDay long: 86400 when the unit is the second.                    *)
(***************************************************************************)
EXTENDS Integers

CONSTANTS
  UnitsPerDay,
  ResetWeekday,  \* 0..6, as time.Weekday
  ResetAt        \* the reset hour, in units after midnight

ASSUME WindowAssumption ==
  /\ UnitsPerDay \in Nat \ {0}
  /\ ResetWeekday \in 0..6
  /\ ResetAt \in 0..(UnitsPerDay - 1)

Week       == 7 * UnitsPerDay
Day(t)     == t \div UnitsPerDay
Weekday(t) == Day(t) % 7

\* Days since the reset weekday was last begun.
DaysBack(t) == (Weekday(t) - ResetWeekday + 7) % 7

\* Mutation: the reset of today is taken although it has yet to come.
QuotaWindowStartEarly(t) == (Day(t) - DaysBack(t)) * UnitsPerDay + ResetAt

\* The most recent weekly reset at or before t.
QuotaWindowStart(t) ==
  LET reset == (Day(t) - DaysBack(t)) * UnitsPerDay + ResetAt
  IN  IF reset > t THEN reset - Week ELSE reset

IsReset(t) == Weekday(t) = ResetWeekday /\ t - Day(t) * UnitsPerDay = ResetAt

\* What a window start is: a reset, not in the future, and the next one is.
IsWindowStart(s, t) == IsReset(s) /\ s <= t /\ t < s + Week

=============================================================================
