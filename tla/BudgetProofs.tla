---------------------------- MODULE BudgetProofs ----------------------------
(***************************************************************************)
(* What is proved of the budget, whatever the reset, the length of a day,  *)
(* the limits and the number of sessions: the window is the right one at   *)
(* every moment, the tally is what was spent and the straddle, it never    *)
(* shrinks inside a window, and what a week spends is bounded.             *)
(*                                                                         *)
(* The tallies are sums over the rows; what is known of them comes from    *)
(* Sums, row by row.                                                       *)
(***************************************************************************)
EXTENDS Budget, Sums, SequenceTheorems, TLAPS

\* Division: t lies in its day.
LEMMA DayOf ==
  ASSUME NEW t \in Int
  PROVE  /\ Day(t) \in Int
         /\ Day(t) * UnitsPerDay <= t
         /\ t < Day(t) * UnitsPerDay + UnitsPerDay
BY WindowAssumption, SMTT(30) DEF Day

\* A whole number of days that is less than one day is none at all.
LEMMA NoPartialDay ==
  ASSUME NEW k \in Int, k * UnitsPerDay < UnitsPerDay
  PROVE  k <= 0
BY WindowAssumption, SMTT(30)

\* The reset of day d is on day d.
LEMMA DayOfReset ==
  ASSUME NEW d \in Int
  PROVE  /\ d * UnitsPerDay + ResetAt \in Int
         /\ Day(d * UnitsPerDay + ResetAt) = d
<1> DEFINE t == d * UnitsPerDay + ResetAt
           q == Day(t)
<1>1. t \in Int  BY WindowAssumption
<1>2. /\ q \in Int
      /\ q * UnitsPerDay <= t
      /\ t < q * UnitsPerDay + UnitsPerDay
  BY <1>1, DayOf
<1>3. (q - d) * UnitsPerDay < UnitsPerDay
  BY <1>1, <1>2, WindowAssumption, SMTT(30)
<1>4. (d - q) * UnitsPerDay < UnitsPerDay
  BY <1>1, <1>2, WindowAssumption, SMTT(30)
<1> HIDE DEF q
<1>5. q - d <= 0 /\ d - q <= 0
  BY <1>2, <1>3, <1>4, NoPartialDay
<1>6. q = d  BY <1>2, <1>5
<1>7. QED  BY <1>1, <1>6 DEF q

\* A number is known modulo 7 by any multiple of 7 it is near to.
LEMMA ModSeven ==
  ASSUME NEW k \in Int, NEW r \in 0..6
  PROVE  (7 * k + r) % 7 = r
BY SMTT(30)

\* Going back DaysBack days reaches the reset weekday, within the last week.
LEMMA DaysBackReachesReset ==
  ASSUME NEW t \in Int
  PROVE  /\ DaysBack(t) \in 0..6
         /\ (Day(t) - DaysBack(t)) % 7 = ResetWeekday
         /\ (Day(t) - DaysBack(t) - 7) % 7 = ResetWeekday
<1> DEFINE D == Day(t)
           k == D \div 7
           w == D % 7
           r == ResetWeekday
           b == (w - r + 7) % 7
<1>1. D \in Int /\ r \in 0..6  BY DayOf, WindowAssumption
<1>2. k \in Int /\ w \in 0..6 /\ D = 7 * k + w  BY <1>1, SMTT(30)
<1> HIDE DEF D, k, w, r
<1>3. b = IF w >= r THEN w - r ELSE w - r + 7  BY <1>1, <1>2, SMTT(30)
<1>4. DaysBack(t) = b  BY DEF DaysBack, Weekday, D, w, r
<1> HIDE DEF b
<1>5. CASE w >= r
  <2>1. D - b = 7 * k + r /\ D - b - 7 = 7 * (k - 1) + r  BY <1>1, <1>2, <1>3, <1>5
  <2>2. (D - b) % 7 = r /\ (D - b - 7) % 7 = r  BY <1>1, <1>2, <2>1, ModSeven
  <2>3. b \in 0..6  BY <1>1, <1>2, <1>3, <1>5
  <2>4. QED  BY <1>4, <2>2, <2>3 DEF D, r
<1>6. CASE ~(w >= r)
  <2>1. D - b = 7 * (k - 1) + r /\ D - b - 7 = 7 * (k - 2) + r  BY <1>1, <1>2, <1>3, <1>6
  <2>2. (D - b) % 7 = r /\ (D - b - 7) % 7 = r  BY <1>1, <1>2, <2>1, ModSeven
  <2>3. b \in 0..6  BY <1>1, <1>2, <1>3, <1>6
  <2>4. QED  BY <1>4, <2>2, <2>3 DEF D, r
<1>7. QED  BY <1>5, <1>6

\* QuotaWindowStart of any time is a reset, not later than that time, and the
\* reset after it is later: the window the budget is counted in (config.go).
LEMMA WindowStartIsReset ==
  ASSUME NEW t \in Int
  PROVE  QuotaWindowStart(t) \in Int /\ IsWindowStart(QuotaWindowStart(t), t)
<1> DEFINE D == Day(t)
           d == Day(t) - DaysBack(t)
           reset == d * UnitsPerDay + ResetAt
           before == (d - 7) * UnitsPerDay + ResetAt
<1>1. /\ D \in Int
      /\ D * UnitsPerDay <= t
      /\ t < D * UnitsPerDay + UnitsPerDay
  BY DayOf
<1>2. /\ DaysBack(t) \in 0..6 /\ d \in Int
      /\ d % 7 = ResetWeekday /\ (d - 7) % 7 = ResetWeekday
  BY <1>1, DaysBackReachesReset
<1>3. reset \in Int /\ before \in Int /\ before = reset - Week
  BY <1>2, WindowAssumption, SMTT(30) DEF Week
<1>4. IsReset(reset) /\ IsReset(before)
  <2>1. Day(reset) = d /\ Day(before) = d - 7  BY <1>2, DayOfReset
  <2>2. reset - d * UnitsPerDay = ResetAt /\ before - (d - 7) * UnitsPerDay = ResetAt
    BY <1>2, WindowAssumption, SMTT(30)
  <2>3. QED  BY <1>2, <2>1, <2>2 DEF IsReset, Weekday
<1>5. t < reset + Week
  <2>1. D * UnitsPerDay + UnitsPerDay <= d * UnitsPerDay + Week
    <3>1. D - d \in 0..6  BY <1>1, <1>2
    <3>2. (D - d) * UnitsPerDay <= 6 * UnitsPerDay
      BY <3>1, WindowAssumption, SMTT(30)
    <3>3. QED  BY <1>1, <1>2, <3>2, WindowAssumption, SMTT(30) DEF Week
  <2>2. t < d * UnitsPerDay + Week
    <3> DEFINE x == D * UnitsPerDay
               y == d * UnitsPerDay
    <3>1. x \in Int /\ y \in Int /\ Week \in Int
      <4>1. UnitsPerDay \in Int /\ D \in Int /\ d \in Int
        BY <1>1, <1>2, WindowAssumption
      <4> HIDE DEF D, d
      <4>2. QED  BY <4>1 DEF Week
    <3>2. t < x + UnitsPerDay /\ x + UnitsPerDay <= y + Week  BY <1>1, <2>1
    <3> HIDE DEF x, y
    <3>3. t < y + Week  BY <3>1, <3>2, WindowAssumption
    <3>4. QED  BY <3>3 DEF y
  <2>3. d * UnitsPerDay <= reset  BY <1>2, WindowAssumption, SMTT(30)
  <2>4. QED
    <3> DEFINE y == d * UnitsPerDay
    <3>1. y \in Int /\ Week \in Int /\ reset \in Int
      BY <1>2, <1>3, WindowAssumption, SMTT(30) DEF Week
    <3>2. t < y + Week /\ y <= reset  BY <2>2, <2>3
    <3> HIDE DEF y, reset
    <3>3. QED  BY <3>1, <3>2
<1>6. before <= t
  <2>1. d * UnitsPerDay <= D * UnitsPerDay
    BY <1>1, <1>2, WindowAssumption, SMTT(30)
  <2>2. ResetAt < Week  BY WindowAssumption DEF Week
  <2>3. QED  BY <1>1, <1>2, <1>3, <2>1, <2>2, WindowAssumption, SMTT(30)
<1>7. QuotaWindowStart(t) = IF reset > t THEN before ELSE reset
  BY <1>3 DEF QuotaWindowStart
<1> HIDE DEF reset, before
<1>8. CASE reset > t
  BY <1>3, <1>4, <1>6, <1>7, <1>8, WindowAssumption DEF IsWindowStart, Week
<1>9. CASE ~(reset > t)
  BY <1>3, <1>4, <1>5, <1>7, <1>9 DEF IsWindowStart
<1>10. QED  BY <1>8, <1>9

\* Two resets less than a week apart are one.
LEMMA ResetsAreAWeekApart ==
  ASSUME NEW s \in Int, NEW t \in Int, IsReset(s), IsReset(t), s <= t, t < s + Week
  PROVE  s = t
<1> DEFINE a == Day(s)
           b == Day(t)
<1>1. a \in Int /\ b \in Int  BY DayOf
<1>2. s = a * UnitsPerDay + ResetAt /\ t = b * UnitsPerDay + ResetAt
  BY <1>1, WindowAssumption, SMTT(30) DEF IsReset
<1>3. a % 7 = ResetWeekday /\ b % 7 = ResetWeekday  BY DEF IsReset, Weekday
<1> HIDE DEF a, b
<1>4. (a - b) * UnitsPerDay < UnitsPerDay
  BY <1>1, <1>2, WindowAssumption, SMTT(30)
<1>5. (b - a - 6) * UnitsPerDay < UnitsPerDay
  BY <1>1, <1>2, WindowAssumption, SMTT(30) DEF Week
<1>6. a - b <= 0 /\ b - a - 6 <= 0  BY <1>1, <1>4, <1>5, NoPartialDay
<1>7. a = b  BY <1>1, <1>3, <1>6, WindowAssumption, SMTT(30)
<1>8. QED  BY <1>2, <1>7

\* A window only moves forward.
LEMMA WindowMovesForward ==
  ASSUME NEW t \in Int
  PROVE  QuotaWindowStart(t) <= QuotaWindowStart(t + 1)
<1> DEFINE s == QuotaWindowStart(t)
           r == QuotaWindowStart(t + 1)
<1>1. /\ s \in Int /\ IsReset(s) /\ s <= t
      /\ r \in Int /\ IsReset(r) /\ t + 1 < r + Week
  BY WindowStartIsReset DEF IsWindowStart
<1>2. Week \in Int  BY WindowAssumption DEF Week
<1> HIDE DEF s, r
<1>3. CASE r < s
  <2>1. r <= s /\ s < r + Week  BY <1>1, <1>2, <1>3
  <2>2. r = s  BY <1>1, <2>1, ResetsAreAWeekApart
  <2>3. QED  BY <1>1, <2>2 DEF s, r
<1>4. QED  BY <1>1, <1>3 DEF s, r

-----------------------------------------------------------------------------
(* The invariant *)

\* Sessions lie in the past. Only the last can be open, and is while the kernel
\* is not off; a closed one was billed for as long as it lasted.
RowsInOrder ==
  /\ \A i \in DOMAIN rows :
       /\ rows[i].started <= now
       /\ rows[i].open => i = Len(rows) /\ phase # "off"
       /\ ~rows[i].open => /\ rows[i].started <= rows[i].stopped /\ rows[i].stopped <= now
                           /\ rows[i].seconds = rows[i].stopped - rows[i].started
  /\ phase # "off" => rows # << >> /\ rows[Len(rows)].open

\* How long a phase that has begun may last.
Allowed == CASE phase = "booting"  -> BootLimit
             [] phase = "ready"    -> SupervisePeriod
             [] phase = "stopping" -> StopLimit
             [] OTHER              -> 0

\* By the end of a phase so much may have been spent beyond the limit.
Overspend == CASE phase = "booting"  -> BootLimit
               [] phase = "ready"    -> BootLimit + SupervisePeriod
               [] OTHER              -> BootLimit + SupervisePeriod + StopLimit

\* Time has not passed the deadline, and what is left of the phase has not been
\* spent yet.
Left == IF phase = "off" THEN 0 ELSE due - now

OnTime == Left \in 0..Allowed

SpendingBounded ==
  WeeklyQuota > 0 => Spent * 100 < BlockPct * WeeklyQuota + (Overspend - Left) * 100

BudgetInv == TypeOK /\ RowsInOrder /\ OnTime /\ SpendingBounded

-----------------------------------------------------------------------------
(* The rows *)

\* The rows are finitely many sessions, numbered from 1.
LEMMA RowsAreSessions ==
  ASSUME TypeOK
  PROVE  /\ Len(rows) \in Nat /\ DOMAIN rows = 1..Len(rows) /\ IsFiniteSet(DOMAIN rows)
         /\ \A i \in DOMAIN rows : rows[i] \in Session
<1>1. Len(rows) \in Nat /\ DOMAIN rows = 1..Len(rows)  BY LenProperties DEF TypeOK
<1>2. IsFiniteSet(1..Len(rows))  BY <1>1, FS_Interval
<1>3. \A i \in 1..Len(rows) : rows[i] \in Session  BY ElementOfSeq DEF TypeOK
<1>4. QED  BY <1>1, <1>2, <1>3

\* A start adds a row that has not lasted yet.
LEMMA AppendedRow ==
  ASSUME TypeOK, BeginStart
  PROVE  /\ rows' \in Seq(Session) /\ Len(rows') = Len(rows) + 1
         /\ DOMAIN rows' = DOMAIN rows \cup {Len(rows) + 1} /\ Len(rows) + 1 \notin DOMAIN rows
         /\ rows'[Len(rows) + 1] = [open |-> TRUE, started |-> now, stopped |-> 0, seconds |-> 0]
         /\ \A i \in DOMAIN rows : rows'[i] = rows[i]
<1> DEFINE row == [open |-> TRUE, started |-> now, stopped |-> 0, seconds |-> 0]
<1>1. row \in Session  BY BudgetAssumption DEF TypeOK, Session
<1>2. rows' = Append(rows, row)  BY DEF BeginStart
<1> HIDE DEF row
<1>3. /\ rows' \in Seq(Session) /\ Len(rows') = Len(rows) + 1
      /\ rows'[Len(rows) + 1] = row
      /\ \A i \in 1..Len(rows) : rows'[i] = rows[i]
  BY <1>1, <1>2, AppendProperties DEF TypeOK
<1>4. Len(rows) \in Nat /\ DOMAIN rows = 1..Len(rows)  BY RowsAreSessions
<1>5. DOMAIN rows' = 1..(Len(rows) + 1)  BY <1>3, LenProperties
<1>6. QED  BY <1>3, <1>4, <1>5 DEF row

\* The end of a session bills the last row for as long as it lasted.
LEMMA ClosedRow ==
  ASSUME TypeOK, RowsInOrder, phase # "off", CloseSession
  PROVE  /\ rows' \in Seq(Session) /\ Len(rows') = Len(rows) /\ DOMAIN rows' = DOMAIN rows
         /\ Len(rows) \in DOMAIN rows /\ rows[Len(rows)].open
         /\ ~rows'[Len(rows)].open /\ rows'[Len(rows)].stopped = now
         /\ rows'[Len(rows)].started = rows[Len(rows)].started
         /\ rows'[Len(rows)].seconds = now - rows[Len(rows)].started
         /\ \A i \in DOMAIN rows : i # Len(rows) => rows'[i] = rows[i]
<1> DEFINE n == Len(rows)
           row == [rows[n] EXCEPT !.open = FALSE, !.stopped = now,
                                  !.seconds = Larger(0, now - rows[n].started)]
<1>1. rows \in Seq(Session) /\ now \in Nat  BY BudgetAssumption DEF TypeOK
<1>2. n \in Nat /\ DOMAIN rows = 1..n  BY RowsAreSessions
<1>3. n \in DOMAIN rows /\ rows[n].open
  <2>1. rows # << >>  BY DEF RowsInOrder
  <2>2. n # 0  BY <1>1, <2>1, EmptySeq
  <2>3. QED  BY <1>2, <2>2 DEF RowsInOrder
<1>4. rows[n] \in Session  BY <1>3, RowsAreSessions
<1>5. rows[n].started <= now /\ rows[n].started \in Nat  BY <1>3, <1>4 DEF RowsInOrder, Session
<1>6. Larger(0, now - rows[n].started) = now - rows[n].started
      /\ now - rows[n].started \in Nat
  BY <1>1, <1>5 DEF Larger
<1>7. /\ row \in Session /\ ~row.open /\ row.stopped = now
      /\ row.started = rows[n].started /\ row.seconds = now - rows[n].started
  BY <1>1, <1>4, <1>6 DEF Session
<1>8. rows' = [rows EXCEPT ![n] = row]  BY <1>1, <1>2, <1>3, <1>4 DEF CloseSession, Session
<1> HIDE DEF row
<1>9. /\ rows' \in Seq(Session) /\ Len(rows') = Len(rows)
      /\ \A i \in 1..Len(rows) : rows'[i] = IF i = n THEN row ELSE rows[i]
  BY <1>1, <1>2, <1>3, <1>7, <1>8, ExceptSeq
<1>10. DOMAIN rows' = 1..Len(rows)  BY <1>9, LenProperties
<1>11. QED  BY <1>2, <1>3, <1>7, <1>9, <1>10

-----------------------------------------------------------------------------
(* The tally *)

\* What a session is billed is what it spent in the window, and what it spent
\* before it if it was closed inside.
LEMMA TallySplits ==
  ASSUME TypeOK, RowsInOrder, NEW since \in Int, since <= now
  PROVE  /\ Billed(since, now) \in [DOMAIN rows -> Nat]
         /\ SpentSince(since) \in [DOMAIN rows -> Nat]
         /\ Straddle(since) \in [DOMAIN rows -> Nat]
         /\ \A i \in DOMAIN rows :
              Billed(since, now)[i] = SpentSince(since)[i] + Straddle(since)[i]
<1>1. now \in Nat  BY BudgetAssumption DEF TypeOK
<1>2. ASSUME NEW i \in DOMAIN rows
      PROVE  /\ Billed(since, now)[i] \in Nat /\ SpentSince(since)[i] \in Nat
             /\ Straddle(since)[i] \in Nat
             /\ Billed(since, now)[i] = SpentSince(since)[i] + Straddle(since)[i]
  <2>1. /\ rows[i].started \in Nat /\ rows[i].stopped \in Nat /\ rows[i].seconds \in Nat
        /\ rows[i].open \in BOOLEAN
    BY RowsAreSessions DEF Session
  <2>2. rows[i].started <= now  BY DEF RowsInOrder
  <2>3. CASE rows[i].open
    BY <1>1, <2>1, <2>2, <2>3 DEF Billed, SpentSince, Straddle, Within, Larger
  <2>4. CASE ~rows[i].open
    <3>1. /\ rows[i].started <= rows[i].stopped /\ rows[i].stopped <= now
          /\ rows[i].seconds = rows[i].stopped - rows[i].started
      BY <2>4 DEF RowsInOrder
    <3>2. QED
      BY <1>1, <2>1, <2>4, <3>1 DEF Billed, SpentSince, Straddle, Within, Larger
  <2>5. QED  BY <2>1, <2>3, <2>4
<1>3. /\ Billed(since, now) = [i \in DOMAIN rows |-> Billed(since, now)[i]]
      /\ SpentSince(since) = [i \in DOMAIN rows |-> SpentSince(since)[i]]
      /\ Straddle(since) = [i \in DOMAIN rows |-> Straddle(since)[i]]
  BY DEF Billed, SpentSince, Straddle
<1>4. QED  BY <1>2, <1>3

\* The window of a moment: an integer, and not in its future.
LEMMA WindowBegins ==
  ASSUME TypeOK
  PROVE  now \in Nat /\ QuotaWindowStart(now) \in Int /\ QuotaWindowStart(now) <= now
<1>1. now \in Nat  BY BudgetAssumption DEF TypeOK
<1>2. QED  BY <1>1, WindowStartIsReset DEF IsWindowStart

\* The sums are natural numbers, so the MAX(0, ...) of UsedSeconds changes nothing.
LEMMA TalliesAreNatural ==
  ASSUME TypeOK, RowsInOrder
  PROVE  /\ Spent \in Nat
         /\ SumFunction(Straddle(QuotaWindowStart(now))) \in Nat
         /\ Used = SumFunction(Billed(QuotaWindowStart(now), now)) /\ Used \in Nat
<1> DEFINE s == QuotaWindowStart(now)
<1>1. s \in Int /\ s <= now  BY WindowBegins
<1> HIDE DEF s
<1>2. IsFiniteSet(DOMAIN rows)  BY RowsAreSessions
<1>3. SumFunction(SpentSince(s)) \in Nat /\ SumFunction(Straddle(s)) \in Nat
  BY <1>1, <1>2, TallySplits, SumNatural
<1>4. SumFunction(Billed(s, now)) \in Nat  BY <1>1, <1>2, TallySplits, SumNatural
<1>5. Larger(0, SumFunction(Billed(s, now))) = SumFunction(Billed(s, now))  BY <1>4 DEF Larger
<1>6. QED  BY <1>3, <1>4, <1>5 DEF s, Spent, Used, UsedSeconds

\* Session by session the tally is what was spent and the straddle; so are the sums.
LEMMA OvercountIsAlwaysStraddle ==
  ASSUME TypeOK, RowsInOrder
  PROVE  OvercountIsStraddle /\ Spent <= Used
<1> DEFINE s == QuotaWindowStart(now)
<1>1. s \in Int /\ s <= now  BY WindowBegins
<1> HIDE DEF s
<1>2. IsFiniteSet(DOMAIN rows)  BY RowsAreSessions
<1>3. /\ Billed(s, now) \in [DOMAIN rows -> Int] /\ SpentSince(s) \in [DOMAIN rows -> Int]
      /\ Straddle(s) \in [DOMAIN rows -> Int]
  <2>1. \A f : f \in [DOMAIN rows -> Nat] => f \in [DOMAIN rows -> Int]  OBVIOUS
  <2>2. QED  BY <1>1, <2>1, TallySplits
<1>4. SumFunction(Billed(s, now)) = SumFunction(SpentSince(s)) + SumFunction(Straddle(s))
  BY <1>1, <1>2, <1>3, TallySplits, SumAdds
<1>5. QED  BY <1>4, TalliesAreNatural DEF s, Spent, OvercountIsStraddle

-----------------------------------------------------------------------------
(* The rows and the deadlines stay in order *)

Base == TypeOK /\ RowsInOrder /\ OnTime

\* The phases that end a session.
Ends == (BootFails \/ FindGone \/ StopEnds)

\* A start finds every session closed and leaves one open.
LEMMA StartKeepsOrder ==
  ASSUME Base, BeginStart
  PROVE  Base'
<1> USE BudgetAssumption DEF Base
<1>1. now \in Nat /\ now' = now /\ phase' = "booting" /\ due' = now + BootLimit
  BY DEF BeginStart, TypeOK
<1>2. TypeOK'  BY <1>1, AppendedRow DEF TypeOK
<1>3. Len(rows) \in Nat  BY RowsAreSessions
<1>4. RowsInOrder'
  <2>1. rows' # << >>
    <3>1. Len(<< >>) = 0  OBVIOUS
    <3>2. Len(rows') = Len(rows) + 1  BY AppendedRow
    <3>3. QED  BY <1>3, <3>1, <3>2
  <2>2. \A i \in DOMAIN rows : ~rows[i].open  BY DEF RowsInOrder, BeginStart
  <2>3. \A i \in DOMAIN rows : rows'[i] = rows[i]  BY AppendedRow
  <2>4. rows'[Len(rows)+1].open /\ rows'[Len(rows)+1].started = now  BY AppendedRow
  <2>5. DOMAIN rows' = DOMAIN rows \cup {Len(rows) + 1} /\ Len(rows') = Len(rows) + 1
    BY AppendedRow
  <2>6. QED  BY <1>1, <1>3, <2>1, <2>2, <2>3, <2>4, <2>5 DEF RowsInOrder
<1>5. OnTime'  BY <1>1 DEF OnTime, Left, Allowed
<1>6. QED  BY <1>2, <1>4, <1>5

\* The end of a session leaves none open.
LEMMA EndKeepsOrder ==
  ASSUME Base, Ends
  PROVE  Base'
<1> USE BudgetAssumption DEF Base
<1>1. /\ phase # "off" /\ CloseSession
      /\ now \in Nat /\ now' = now /\ phase' = "off" /\ due' = 0
  BY DEF Ends, BootFails, FindGone, StopEnds, TypeOK
<1>2. TypeOK'  BY <1>1, ClosedRow DEF TypeOK
<1>3. RowsInOrder'
  <2>1. \A i \in DOMAIN rows : i # Len(rows) => rows'[i] = rows[i] /\ ~rows[i].open
    BY <1>1, ClosedRow DEF RowsInOrder
  <2>2. /\ DOMAIN rows' = DOMAIN rows /\ Len(rows) \in DOMAIN rows
        /\ ~rows'[Len(rows)].open /\ rows'[Len(rows)].stopped = now
        /\ rows'[Len(rows)].started = rows[Len(rows)].started
        /\ rows'[Len(rows)].seconds = now - rows[Len(rows)].started
    BY <1>1, ClosedRow
  <2>3. QED  BY <1>1, <2>1, <2>2 DEF RowsInOrder
<1>4. OnTime'  BY <1>1 DEF OnTime, Left, Allowed
<1>5. QED  BY <1>2, <1>3, <1>4

\* Time stops at the deadline of the phase.
LEMMA TimeKeepsOrder ==
  ASSUME Base, TimePasses
  PROVE  Base'
<1> USE BudgetAssumption DEF Base
<1>1. /\ now \in Nat /\ now' = now + 1 /\ now < Horizon /\ UNCHANGED <<phase, due, rows>>
      /\ phase = "off" \/ now < due
  BY DEF TimePasses, TypeOK
<1>2. TypeOK'  BY <1>1 DEF TypeOK
<1>3. \A i \in DOMAIN rows : rows[i].started \in Nat /\ rows[i].stopped \in Nat
  BY RowsAreSessions DEF Session
<1>4. RowsInOrder'  BY <1>1, <1>3 DEF RowsInOrder
<1>5. OnTime'  BY <1>1 DEF OnTime, Left, Allowed, TypeOK
<1>6. QED  BY <1>2, <1>4, <1>5

\* A phase that follows another gets its own deadline.
LEMMA PhaseKeepsOrder ==
  ASSUME Base, BootSucceeds \/ Supervise
  PROVE  Base'
<1> USE BudgetAssumption DEF Base
<1>1. /\ now \in Nat /\ now' = now /\ rows' = rows /\ phase # "off"
      /\ \/ phase' = "ready" /\ due' = now + SupervisePeriod
         \/ phase' = "stopping" /\ due' = now + StopLimit
  BY DEF BootSucceeds, Supervise, TypeOK
<1>2. TypeOK'  BY <1>1 DEF TypeOK
<1>3. RowsInOrder'  BY <1>1 DEF RowsInOrder
<1>4. OnTime'  BY <1>1 DEF OnTime, Left, Allowed
<1>5. QED  BY <1>2, <1>3, <1>4

\* Every step keeps the rows and the deadlines in order.
LEMMA OrderKept ==
  ASSUME Base, [Next]_vars
  PROVE  Base'
<1>1. CASE UNCHANGED vars
  BY <1>1 DEF vars, Base, TypeOK, RowsInOrder, OnTime, Left, Allowed
<1>2. CASE Elapsed  BY <1>1, <1>2 DEF Elapsed
<1>3. QED
  BY <1>1, <1>2, StartKeepsOrder, EndKeepsOrder, TimeKeepsOrder, PhaseKeepsOrder
  DEF Next, Ends

-----------------------------------------------------------------------------
(* What each step does to the tallies *)

\* A start adds a session that has neither spent nor been billed anything.
LEMMA StartCostsNothing ==
  ASSUME Base, BeginStart
  PROVE  Spent' = Spent /\ Used' = Used
<1> USE DEF Base
<1>1. now' = now /\ now \in Nat  BY WindowBegins DEF BeginStart
<1>2. PICK s \in Int : s = QuotaWindowStart(now) /\ s <= now  BY WindowBegins
<1> DEFINE D == DOMAIN rows
           n == Len(rows) + 1
<1>3. IsFiniteSet(D)  BY RowsAreSessions
<1>4. /\ DOMAIN rows' = D \cup {n} /\ n \notin D
      /\ rows'[n] = [open |-> TRUE, started |-> now, stopped |-> 0, seconds |-> 0]
      /\ \A i \in D : rows'[i] = rows[i]
  BY AppendedRow
<1> HIDE DEF D, n
<1>5. /\ SpentSince(s) \in [D -> Nat] /\ Billed(s, now) \in [D -> Nat]
  BY <1>2, TallySplits DEF D
<1>6. /\ SpentSince(s)' = [i \in D \cup {n} |-> SpentSince(s)'[i]]
      /\ Billed(s, now)' = [i \in D \cup {n} |-> Billed(s, now)'[i]]
  BY <1>1, <1>4 DEF SpentSince, Billed
<1>7. \A i \in D : /\ SpentSince(s)'[i] = SpentSince(s)[i]
                   /\ Billed(s, now)'[i] = Billed(s, now)[i]
  BY <1>1, <1>4 DEF SpentSince, Billed, D
<1>8. SpentSince(s)'[n] = 0 /\ Billed(s, now)'[n] = 0
  BY <1>1, <1>2, <1>4 DEF SpentSince, Billed, Within, Larger
<1>9. SumFunction(SpentSince(s)') = SumFunction(SpentSince(s))
  <2> DEFINE f == SpentSince(s)
             g == SpentSince(s)'
  <2>1. /\ f \in [D -> Int] /\ g = [i \in D \cup {n} |-> g[i]]
        /\ \A i \in D : g[i] = f[i]
        /\ g[n] = 0 /\ n \notin D
    BY <1>4, <1>5, <1>6, <1>7, <1>8
  <2> HIDE DEF f, g
  <2>2. SumFunction(g) = SumFunction(f)  BY <1>3, <2>1, SumKeeps
  <2>3. QED  BY <2>2 DEF f, g
<1>10. SumFunction(Billed(s, now)') = SumFunction(Billed(s, now))
  <2> DEFINE f == Billed(s, now)
             g == Billed(s, now)'
  <2>1. /\ f \in [D -> Int] /\ g = [i \in D \cup {n} |-> g[i]]
        /\ \A i \in D : g[i] = f[i]
        /\ g[n] = 0 /\ n \notin D
    BY <1>4, <1>5, <1>6, <1>7, <1>8
  <2> HIDE DEF f, g
  <2>2. SumFunction(g) = SumFunction(f)  BY <1>3, <2>1, SumKeeps
  <2>3. QED  BY <2>2 DEF f, g
<1>11. Spent' = SumFunction(SpentSince(s)')  BY <1>1, <1>2 DEF Spent, SpentSince
<1>12. Used' = Larger(0, SumFunction(Billed(s, now)'))
  BY <1>1, <1>2 DEF Used, UsedSeconds, Billed
<1>13. QED  BY <1>2, <1>9, <1>10, <1>11, <1>12 DEF Spent, Used, UsedSeconds

\* Closing a session spends nothing, and bills no less than was counted so far.
LEMMA EndCostsNothing ==
  ASSUME Base, Ends
  PROVE  Spent' = Spent /\ Used' >= Used
<1> USE DEF Base
<1>1. now' = now /\ now \in Nat /\ phase # "off" /\ CloseSession
  BY WindowBegins DEF Ends, BootFails, FindGone, StopEnds
<1>2. PICK s \in Int : s = QuotaWindowStart(now) /\ s <= now  BY WindowBegins
<1> DEFINE n == Len(rows)
<1>3. IsFiniteSet(DOMAIN rows) /\ rows[n].started \in Nat
  BY <1>1, ClosedRow, RowsAreSessions DEF Session
<1>4. /\ DOMAIN rows' = DOMAIN rows /\ n \in DOMAIN rows /\ rows[n].open /\ ~rows'[n].open
      /\ rows'[n].stopped = now /\ rows'[n].started = rows[n].started
      /\ rows'[n].seconds = now - rows[n].started
      /\ \A i \in DOMAIN rows : i # n => rows'[i] = rows[i]
  BY <1>1, ClosedRow
<1>5. rows[n].started <= now  BY <1>4 DEF RowsInOrder
<1> HIDE DEF n
<1>6. \A i \in DOMAIN rows : SpentSince(s)'[i] = SpentSince(s)[i]
  BY <1>1, <1>4 DEF SpentSince
<1>7. SpentSince(s)' = SpentSince(s)
  <2>1. /\ SpentSince(s)' = [i \in DOMAIN rows |-> SpentSince(s)'[i]]
        /\ SpentSince(s) = [i \in DOMAIN rows |-> SpentSince(s)[i]]
    BY <1>4 DEF SpentSince
  <2>2. QED  BY <1>6, <2>1
<1>8. \A i \in DOMAIN rows : i # n => Billed(s, now)'[i] = Billed(s, now)[i]
  BY <1>1, <1>4 DEF Billed
<1>9. Billed(s, now)'[n] \in Int /\ Billed(s, now)'[n] >= Billed(s, now)[n]
  BY <1>1, <1>2, <1>3, <1>4, <1>5 DEF Billed, Larger
<1>10. Billed(s, now) \in [DOMAIN rows -> Int]
  <2>1. Billed(s, now) \in [DOMAIN rows -> Nat]  BY <1>2, TallySplits
  <2>2. QED  BY <2>1
<1>11. Billed(s, now)' \in [DOMAIN rows -> Int]
  <2>1. Billed(s, now)' = [i \in DOMAIN rows |-> Billed(s, now)'[i]]  BY <1>1, <1>4 DEF Billed
  <2>2. QED  BY <1>8, <1>9, <1>10, <2>1
<1>12. SumFunction(Billed(s, now)') >= SumFunction(Billed(s, now))
  <2>1. \A i \in DOMAIN rows : Billed(s, now)[i] <= Billed(s, now)'[i]
    BY <1>8, <1>9, <1>10
  <2>2. SumFunction(Billed(s, now)) <= SumFunction(Billed(s, now)')
    BY <1>3, <1>10, <1>11, <2>1, SumMonotone
  <2>3. SumFunction(Billed(s, now)) \in Int /\ SumFunction(Billed(s, now)') \in Int
    BY <1>3, <1>10, <1>11, SumInteger
  <2>4. QED  BY <2>2, <2>3
<1>13. SumFunction(Billed(s, now)) \in Int /\ SumFunction(Billed(s, now)') \in Int
  BY <1>3, <1>10, <1>11, SumInteger
<1>14. Spent' = SumFunction(SpentSince(s)')  BY <1>1, <1>2 DEF Spent, SpentSince
<1>15. Used' = Larger(0, SumFunction(Billed(s, now)'))
  BY <1>1, <1>2 DEF Used, UsedSeconds, Billed
<1>16. Used = Larger(0, SumFunction(Billed(s, now)))  BY <1>2 DEF Used, UsedSeconds
<1>17. QED  BY <1>2, <1>7, <1>12, <1>13, <1>14, <1>15, <1>16 DEF Spent, Larger

\* A unit of time is spent by the open session, if there is one: the window,
\* if it moves, only takes away.
LEMMA TimeCosts ==
  ASSUME Base, TimePasses
  PROVE  Spent' \in Int /\ Spent' <= Spent + (IF phase = "off" THEN 0 ELSE 1)
<1> USE DEF Base
<1>1. now' = now + 1 /\ now \in Nat /\ rows' = rows  BY WindowBegins DEF TimePasses
<1>2. PICK s \in Int : s = QuotaWindowStart(now) /\ s <= now  BY WindowBegins
<1>3. PICK r \in Int : r = QuotaWindowStart(now + 1) /\ s <= r
  BY <1>1, <1>2, WindowStartIsReset, WindowMovesForward
<1> DEFINE n == Len(rows)
           one == IF phase = "off" THEN 0 ELSE 1
           D == DOMAIN rows
<1>4. IsFiniteSet(D)  BY RowsAreSessions
<1>5. SpentSince(s) \in [D -> Int]
  <2>1. SpentSince(s) \in [D -> Nat]  BY <1>2, TallySplits
  <2>2. QED  BY <2>1
<1>6. \A i \in D : SpentSince(r)'[i] \in Int
                   /\ SpentSince(r)'[i] <= SpentSince(s)[i] + (IF rows[i].open THEN 1 ELSE 0)
  <2> SUFFICES ASSUME NEW i \in D
               PROVE  /\ SpentSince(r)'[i] \in Int
                      /\ SpentSince(r)'[i] <= SpentSince(s)[i] + (IF rows[i].open THEN 1 ELSE 0)
    OBVIOUS
  <2>1. /\ rows[i].started \in Nat /\ rows[i].stopped \in Nat /\ rows[i].open \in BOOLEAN
        /\ rows[i].started <= now
    BY RowsAreSessions DEF Session, RowsInOrder
  <2>2. /\ SpentSince(s)[i] = Within(s, rows[i].started, IF rows[i].open THEN now ELSE rows[i].stopped)
        /\ SpentSince(r)'[i] = Within(r, rows[i].started, IF rows[i].open THEN now + 1 ELSE rows[i].stopped)
    BY <1>1 DEF SpentSince
  <2>3. CASE rows[i].open  BY <1>1, <1>3, <2>1, <2>2, <2>3 DEF Within, Larger
  <2>4. CASE ~rows[i].open  BY <1>1, <1>3, <2>1, <2>2, <2>4 DEF Within, Larger
  <2>5. QED  BY <2>1, <2>3, <2>4
<1>7. SpentSince(r)' \in [D -> Int]
  <2>1. SpentSince(r)' = [i \in D |-> SpentSince(r)'[i]]  BY <1>1 DEF SpentSince
  <2>2. QED  BY <1>6, <2>1
<1>8. Spent' = SumFunction(SpentSince(r)') /\ Spent = SumFunction(SpentSince(s))
  BY <1>1, <1>2, <1>3 DEF Spent, SpentSince
<1>9. SumFunction(SpentSince(s)) \in Int  BY <1>4, <1>5, SumInteger
<1> HIDE DEF D
<1>10. ASSUME phase = "off" PROVE Spent' <= Spent
  <2>1. \A i \in D : ~rows[i].open  BY <1>10 DEF RowsInOrder, D
  <2>2. \A i \in D : SpentSince(r)'[i] <= SpentSince(s)[i]  BY <1>5, <1>6, <2>1
  <2>3. SumFunction(SpentSince(r)') <= SumFunction(SpentSince(s))
    BY <1>4, <1>5, <1>7, <2>2, SumMonotone
  <2>4. QED  BY <1>8, <1>9, <1>10, <2>3
<1>11. ASSUME phase # "off" PROVE Spent' <= Spent + 1
  <2>1. n \in D
    <3>1. rows \in Seq(Session) /\ rows # << >>  BY <1>11 DEF TypeOK, RowsInOrder
    <3>2. n \in Nat \ {0}  BY <3>1, EmptySeq
    <3>3. D = 1..n  BY RowsAreSessions DEF D
    <3>4. QED  BY <3>2, <3>3
  <2>2. \A i \in D : rows[i].open => i = n  BY DEF RowsInOrder, D
  <2> DEFINE more == [i \in D |-> IF i = n THEN SpentSince(s)[i] + 1 ELSE SpentSince(s)[i]]
  <2>3. /\ more \in [D -> Int] /\ more[n] = SpentSince(s)[n] + 1
        /\ \A i \in D \ {n} : more[i] = SpentSince(s)[i]
    BY <1>5, <2>1
  <2>4. \A i \in D : SpentSince(r)'[i] <= more[i]  BY <1>5, <1>6, <2>2
  <2> HIDE DEF more, n
  <2>5. SumFunction(more) = SumFunction(SpentSince(s)) + more[n] - SpentSince(s)[n]
    BY <1>4, <1>5, <2>1, <2>3, SumChanges
  <2>6. SumFunction(SpentSince(r)') <= SumFunction(more)
    BY <1>4, <1>7, <2>3, <2>4, SumMonotone
  <2>7. SpentSince(s)[n] \in Int  BY <1>5, <2>1
  <2>8. SumFunction(more) = SumFunction(SpentSince(s)) + 1  BY <1>9, <2>3, <2>5, <2>7
  <2>9. QED  BY <1>8, <1>11, <2>6, <2>8
<1>12. Spent' \in Int  BY <1>4, <1>7, <1>8, SumInteger
<1>13. CASE phase = "off"
  <2>1. one = 0 /\ Spent \in Int  BY <1>8, <1>9, <1>13
  <2>2. QED  BY <1>10, <1>12, <1>13, <2>1
<1>14. CASE phase # "off"  BY <1>11, <1>12, <1>14
<1>15. QED  BY <1>13, <1>14

\* While the window stays, time adds to the tally of the open session only.
LEMMA TimeIsCounted ==
  ASSUME Base, TimePasses, QuotaWindowStart(now') = QuotaWindowStart(now)
  PROVE  Used' >= Used
<1> USE DEF Base
<1>1. now' = now + 1 /\ now \in Nat /\ rows' = rows  BY WindowBegins DEF TimePasses
<1>2. PICK s \in Int : s = QuotaWindowStart(now) /\ s <= now  BY WindowBegins
<1> DEFINE D == DOMAIN rows
<1>3. IsFiniteSet(D)  BY RowsAreSessions
<1>4. Billed(s, now) \in [D -> Int]
  <2>1. Billed(s, now) \in [D -> Nat]  BY <1>2, TallySplits
  <2>2. QED  BY <2>1
<1>5. \A i \in D : Billed(s, now)'[i] \in Int /\ Billed(s, now)[i] <= Billed(s, now)'[i]
  <2> SUFFICES ASSUME NEW i \in D
               PROVE  Billed(s, now)'[i] \in Int /\ Billed(s, now)[i] <= Billed(s, now)'[i]
    OBVIOUS
  <2>1. /\ rows[i].started \in Nat /\ rows[i].stopped \in Nat /\ rows[i].seconds \in Nat
        /\ rows[i].open \in BOOLEAN
    BY RowsAreSessions DEF Session
  <2>2. QED  BY <1>1, <1>2, <2>1 DEF Billed, Larger
<1>6. Billed(s, now)' \in [D -> Int]
  <2>1. Billed(s, now)' = [i \in D |-> Billed(s, now)'[i]]  BY <1>1 DEF Billed
  <2>2. QED  BY <1>5, <2>1
<1> HIDE DEF D
<1>7. SumFunction(Billed(s, now)) <= SumFunction(Billed(s, now)')
  BY <1>3, <1>4, <1>5, <1>6, SumMonotone
<1>8. SumFunction(Billed(s, now)) \in Int /\ SumFunction(Billed(s, now)') \in Int
  BY <1>3, <1>4, <1>6, SumInteger
<1>9. Used' = Larger(0, SumFunction(Billed(s, now)')) /\ Used = Larger(0, SumFunction(Billed(s, now)))
  BY <1>1, <1>2 DEF Used, UsedSeconds, Billed
<1>10. QED  BY <1>7, <1>8, <1>9 DEF Larger

-----------------------------------------------------------------------------
(* What may still be spent *)

\* What may have been spent beyond the limit by now: it grows with the clock
\* while the kernel runs, no end of a phase takes from it except the supervision
\* that lets the kernel run, and it is not negative after a start or a supervision.
LEMMA Allowances ==
  ASSUME Base, Base', Next
  PROVE  /\ Overspend - Left \in Int /\ (Overspend - Left)' \in Int
         /\ BeginStart \/ BootSucceeds \/ Supervise => (Overspend - Left)' >= 0
         /\ BootSucceeds \/ Ends => (Overspend - Left)' >= Overspend - Left
         /\ Supervise /\ phase' = "stopping" => (Overspend - Left)' >= Overspend - Left
         /\ TimePasses => (Overspend - Left)' = Overspend - Left
                                               + (IF phase = "off" THEN 0 ELSE 1)
<1> USE BudgetAssumption
<1>1. /\ BootLimit \in Nat \ {0} /\ SupervisePeriod \in Nat \ {0} /\ StopLimit \in Nat \ {0}
      /\ now \in Nat /\ due \in Nat
      /\ phase \in {"off", "booting", "ready", "stopping"}
      /\ now' \in Nat /\ due' \in Nat
      /\ phase' \in {"off", "booting", "ready", "stopping"}
  BY DEF Base, TypeOK
<1>2. phase # "off" => due - now >= 0  BY <1>1 DEF Base, OnTime, Left, Allowed
<1>3. Overspend - Left \in Int /\ (Overspend - Left)' \in Int  BY <1>1 DEF Overspend, Left
<1>4. ASSUME BeginStart PROVE (Overspend - Left)' = 0
  BY <1>1, <1>4 DEF BeginStart, Overspend, Left
<1>5. ASSUME BootSucceeds
      PROVE  (Overspend - Left)' = BootLimit /\ (Overspend - Left)' >= Overspend - Left
  BY <1>1, <1>2, <1>5 DEF BootSucceeds, Overspend, Left
<1>6. ASSUME Supervise
      PROVE  /\ (Overspend - Left)' >= 0
             /\ phase' = "stopping" => (Overspend - Left)' >= Overspend - Left
  BY <1>1, <1>2, <1>6 DEF Supervise, Overspend, Left
<1>7. ASSUME Ends PROVE (Overspend - Left)' >= Overspend - Left
  BY <1>1, <1>2, <1>7 DEF Ends, BootFails, FindGone, StopEnds, Overspend, Left
<1>8. ASSUME TimePasses
      PROVE  (Overspend - Left)' = Overspend - Left + (IF phase = "off" THEN 0 ELSE 1)
  BY <1>1, <1>8 DEF TimePasses, Overspend, Left
<1>9. QED  BY <1>1, <1>3, <1>4, <1>5, <1>6, <1>7, <1>8

\* While the budget is not blocked less than the limit was spent.
LEMMA RoomUnlessBlocked ==
  ASSUME Base, ~Blocked, WeeklyQuota > 0
  PROVE  Spent * 100 < BlockPct * WeeklyQuota
<1>1. Spent \in Nat /\ Used \in Nat  BY TalliesAreNatural DEF Base
<1>2. Spent <= Used  BY OvercountIsAlwaysStraddle DEF Base
<1> DEFINE L == BlockPct * WeeklyQuota
<1>3. L \in Int  BY BudgetAssumption
<1>4. Used * 100 < L
  <2>1. ~(Used * 100 >= L)  BY DEF Blocked
  <2> HIDE DEF L
  <2>2. QED  BY <1>1, <1>3, <2>1
<1> HIDE DEF L
<1>5. Spent * 100 < L  BY <1>1, <1>2, <1>3, <1>4
<1>6. QED  BY <1>5 DEF L

\* The rows, the clock and the phase determine what was spent.
LEMMA PhaseCostsNothing ==
  ASSUME UNCHANGED <<now, rows>>
  PROVE  Spent' = Spent /\ Used' = Used
BY DEF Spent, SpentSince, Used, UsedSeconds, Billed

\* What is spent of a budget, and what it is allowed, may grow together.
LEMMA RoomGrows ==
  ASSUME NEW l \in Int, NEW spent \in Int, NEW room \in Int, NEW more \in Int,
         NEW spent2 \in Int, NEW room2 \in Int,
         spent * 100 < l + room * 100, spent2 <= spent + more, room2 >= room + more
  PROVE  spent2 * 100 < l + room2 * 100
OBVIOUS

\* Every step keeps what was spent within the limit and what its phase allows.
LEMMA SpendingKept ==
  ASSUME Base, SpendingBounded, [Next]_vars
  PROVE  SpendingBounded'
<1> DEFINE L == BlockPct * WeeklyQuota
           room == Overspend - Left
<1>1. CASE UNCHANGED vars
  <2>1. Spent' = Spent  BY <1>1, PhaseCostsNothing DEF vars
  <2>2. Overspend' = Overspend /\ Left' = Left  BY <1>1 DEF vars, Overspend, Left
  <2>3. QED  BY <2>1, <2>2 DEF SpendingBounded
<1>2. CASE ~(UNCHANGED vars) /\ WeeklyQuota > 0
  <2>1. Base'  BY OrderKept
  <2>2. Next  BY <1>2
  <2>3. /\ room \in Int /\ room' \in Int
        /\ BeginStart \/ BootSucceeds \/ Supervise => room' >= 0
        /\ BootSucceeds \/ Ends => room' >= room
        /\ Supervise /\ phase' = "stopping" => room' >= room
        /\ TimePasses => room' = room + (IF phase = "off" THEN 0 ELSE 1)
    BY <2>1, <2>2, Allowances
  <2>4. L \in Int  BY BudgetAssumption
  <2>5. Spent \in Nat  BY TalliesAreNatural DEF Base
  <2>7. Spent * 100 < L + room * 100  BY <1>2 DEF SpendingBounded
  <2>8. ~Blocked => Spent * 100 < L  BY <1>2, RoomUnlessBlocked
  <2>9. /\ BeginStart \/ BootSucceeds \/ Ends \/ Supervise => Spent' = Spent
        /\ TimePasses => Spent' \in Int /\ Spent' <= Spent + (IF phase = "off" THEN 0 ELSE 1)
    <3>1. BootSucceeds \/ Supervise => UNCHANGED <<now, rows>>  BY DEF BootSucceeds, Supervise
    <3>2. QED  BY <3>1, StartCostsNothing, EndCostsNothing, PhaseCostsNothing, TimeCosts
  <2>10. BeginStart \/ BootSucceeds \/ Supervise \/ Ends \/ TimePasses
    BY <1>2, <2>2 DEF Next, Ends, Elapsed
  <2>11. Spent' * 100 < L + room' * 100
    <3> HIDE DEF L, room
    <3>1. PICK l \in Int, a \in Int, r \in Int : l = L /\ a = Spent /\ r = room
      BY <2>3, <2>4, <2>5
    <3>2. PICK r2 \in Int : r2 = room'  BY <2>3
    <3>3. a * 100 < l + r * 100  BY <2>7, <3>1
    <3>4. ~Blocked => a * 100 < l + 0 * 100  BY <2>8, <3>1
    <3>5. CASE BeginStart
      <4>1. a * 100 < l + 0 * 100  BY <3>4, <3>5 DEF BeginStart
      <4>2. a <= a + 0 /\ r2 >= 0 + 0  BY <2>3, <3>2, <3>5
      <4>3. a * 100 < l + r2 * 100  BY <4>1, <4>2, RoomGrows
      <4>4. Spent' = a  BY <2>9, <3>1, <3>5
      <4>5. QED  BY <3>1, <3>2, <4>3, <4>4
    <3>6. CASE BootSucceeds \/ Ends
      <4>1. a <= a + 0 /\ r2 >= r + 0  BY <2>3, <3>1, <3>2, <3>6
      <4>2. a * 100 < l + r2 * 100  BY <3>3, <4>1, RoomGrows
      <4>3. Spent' = a  BY <2>9, <3>1, <3>6
      <4>4. QED  BY <3>1, <3>2, <4>2, <4>3
    <3>7. CASE Supervise
      <4>1. r2 >= 0 + 0 /\ (r2 >= r + 0 \/ a * 100 < l + 0 * 100) /\ a <= a + 0
        BY <2>3, <3>1, <3>2, <3>4, <3>7 DEF Supervise
      <4>2. a * 100 < l + r2 * 100  BY <3>3, <4>1, RoomGrows
      <4>3. Spent' = a  BY <2>9, <3>1, <3>7
      <4>4. QED  BY <3>1, <3>2, <4>2, <4>3
    <3>8. CASE TimePasses
      <4> DEFINE more == IF phase = "off" THEN 0 ELSE 1
      <4>1. more \in Int /\ Spent' \in Int /\ Spent' <= a + more /\ r2 >= r + more
        BY <2>3, <2>9, <3>1, <3>2, <3>8
      <4> HIDE DEF more
      <4>2. PICK m \in Int, a2 \in Int : m = more /\ a2 = Spent'  BY <4>1
      <4>3. a2 * 100 < l + r2 * 100  BY <3>3, <4>1, <4>2, RoomGrows
      <4>4. QED  BY <3>1, <3>2, <4>2, <4>3
    <3>9. QED  BY <2>10, <3>5, <3>6, <3>7, <3>8
  <2>12. QED  BY <2>11 DEF L, room, SpendingBounded
<1>3. CASE ~(WeeklyQuota > 0)  BY <1>3 DEF SpendingBounded
<1>4. QED  BY <1>1, <1>2, <1>3

\* Nothing was spent before the first session.
LEMMA NothingSpentYet ==
  ASSUME Init
  PROVE  BudgetInv
<1> USE BudgetAssumption DEF Init
<1>1. rows \in Seq(Session) /\ DOMAIN rows = {}  BY EmptySeq
<1>2. TypeOK /\ RowsInOrder /\ OnTime
  BY <1>1 DEF TypeOK, RowsInOrder, OnTime, Left, Allowed
<1>3. Spent = 0
  <2> DEFINE f == SpentSince(QuotaWindowStart(now))
  <2>1. f = [i \in {} |-> f[i]]  BY <1>1 DEF SpentSince
  <2> HIDE DEF f
  <2>2. SumFunction(f) = 0  BY <2>1, SumOfNothing
  <2>3. QED  BY <2>2 DEF f, Spent
<1>4. SpendingBounded
  <2> SUFFICES ASSUME WeeklyQuota > 0 PROVE SpendingBounded  BY DEF SpendingBounded
  <2> DEFINE L == BlockPct * WeeklyQuota
             room == Overspend - Left
  <2>1. L \in Nat \ {0}  BY SMTT(30)
  <2>2. room \in Nat  BY DEF Overspend, Left
  <2> HIDE DEF L, room
  <2>3. Spent * 100 < L + room * 100  BY <1>3, <2>1, <2>2
  <2>4. QED  BY <2>3 DEF L, room, SpendingBounded
<1>5. QED  BY <1>2, <1>4 DEF BudgetInv

\* The invariant holds at every moment.
LEMMA BudgetInvariant == Spec => []BudgetInv
<1>1. Init => BudgetInv  BY NothingSpentYet
<1>2. BudgetInv /\ [Next]_vars => BudgetInv'
  <2> SUFFICES ASSUME BudgetInv, [Next]_vars PROVE BudgetInv'  OBVIOUS
  <2>1. Base /\ SpendingBounded  BY DEF BudgetInv, Base
  <2>2. Base' /\ SpendingBounded'  BY <2>1, OrderKept, SpendingKept
  <2>3. QED  BY <2>2 DEF BudgetInv, Base
<1>3. QED  BY <1>1, <1>2, PTL DEF Spec

-----------------------------------------------------------------------------
(* What is promised *)

\* The clock, the phase and the rows keep their ranges; no session is ever
\* billed a negative number of seconds (store.go, FinishKernelSession).
THEOREM BudgetTypeCorrect == Spec => []TypeOK
<1>1. BudgetInv => TypeOK  BY DEF BudgetInv
<1>2. QED  BY <1>1, BudgetInvariant, PTL

\* The tally of UsedSeconds is what was spent in the window and the part before
\* the reset of the session that was closed across it: it never lags behind.
THEOREM OvercountExplained == Spec => []OvercountIsStraddle
<1>1. BudgetInv => OvercountIsStraddle  BY OvercountIsAlwaysStraddle DEF BudgetInv
<1>2. QED  BY <1>1, BudgetInvariant, PTL

\* Refusing starts (EnsureReady) and stopping the kernel (Supervise) keep what
\* a week spends within the limit, one boot, one supervision and one stop.
THEOREM SpendingIsBounded == Spec => []OverspendBounded
<1>1. BudgetInv => OverspendBounded
  <2> SUFFICES ASSUME BudgetInv, WeeklyQuota > 0 PROVE OverspendBounded
    BY DEF OverspendBounded
  <2> DEFINE L == BlockPct * WeeklyQuota
             room == Overspend - Left
             most == BootLimit + SupervisePeriod + StopLimit
  <2>1. L \in Int /\ most \in Int  BY BudgetAssumption
  <2>2. room \in Int /\ room <= most
    BY BudgetAssumption DEF BudgetInv, TypeOK, OnTime, Overspend, Left, Allowed
  <2>3. Spent \in Nat  BY TalliesAreNatural DEF BudgetInv
  <2>4. Spent * 100 < L + room * 100  BY DEF BudgetInv, SpendingBounded
  <2> HIDE DEF L, room, most
  <2>5. Spent * 100 < L + most * 100  BY <2>1, <2>2, <2>3, <2>4
  <2>6. QED  BY <2>5 DEF L, most, OverspendBounded
<1>2. QED  BY <1>1, BudgetInvariant, PTL

\* Inside one window no step gives budget back: neither the end of a session
\* (FinishKernelSession) nor the time that passes lowers what UsedSeconds says.
THEOREM TallyGrows == Spec => UsedGrowsInWindow
<1>1. BudgetInv /\ [Next]_vars
        => [QuotaWindowStart(now') = QuotaWindowStart(now) => Used' >= Used]_vars
  <2> SUFFICES ASSUME BudgetInv, Next, QuotaWindowStart(now') = QuotaWindowStart(now)
               PROVE  Used' >= Used
    OBVIOUS
  <2>1. Base /\ Used \in Nat  BY TalliesAreNatural DEF BudgetInv, Base
  <2>2. CASE BeginStart  BY <2>1, <2>2, StartCostsNothing
  <2>3. CASE BootSucceeds \/ Supervise \/ Elapsed
    <3>1. UNCHANGED <<now, rows>>  BY <2>3 DEF BootSucceeds, Supervise, Elapsed, vars
    <3>2. QED  BY <2>1, <3>1, PhaseCostsNothing
  <2>4. CASE Ends  BY <2>1, <2>4, EndCostsNothing
  <2>5. CASE TimePasses  BY <2>1, <2>5, TimeIsCounted
  <2>6. QED  BY <2>2, <2>3, <2>4, <2>5 DEF Next, Ends
<1>2. QED  BY <1>1, BudgetInvariant, PTL DEF Spec, UsedGrowsInWindow

\* At every moment the panel counts the budget from the latest weekly reset:
\* UsedSeconds is asked about [QuotaWindowStart(now), now), which is the
\* current week and no other.
THEOREM BudgetCountsTheCurrentWeek == Spec => []WindowIsCurrent
<1>1. Init => now \in Int
  BY BudgetAssumption DEF Init
<1>2. now \in Int /\ [Next]_vars => (now \in Int)'
  BY DEF Next, vars, BeginStart, BootSucceeds, BootFails, FindGone, Supervise,
         StopEnds, TimePasses, Elapsed
<1>3. now \in Int => WindowIsCurrent
  BY WindowStartIsReset DEF WindowIsCurrent
<1>4. QED  BY <1>1, <1>2, <1>3, PTL DEF Spec

\* What the budget counts is kept like the ledger of KernelLifecycle: a start
\* takes the next row, the end of a session closes the open one, and nothing
\* else, and no later session, touches a row (StartKernelSession,
\* FinishKernelSession).
THEOREM BudgetKeepsLedger == Spec => IsLedger
<1>1. Init => Ledger!LedgerInit
  BY DEF Init, Ledger!LedgerInit, Ledger!Rows, Book
<1>2. BudgetInv /\ [Next]_vars => [Ledger!LedgerNext]_Book
  <2> SUFFICES ASSUME BudgetInv, [Next]_vars PROVE [Ledger!LedgerNext]_Book
    OBVIOUS
  <2>1. TypeOK /\ RowsInOrder /\ Len(rows) \in Nat /\ MaxSessions \in Nat
    BY BudgetAssumption, RowsAreSessions DEF BudgetInv, TypeOK
  <2>2. CASE UNCHANGED rows  BY <2>2 DEF Book
  <2>3. CASE BeginStart
    <3> DEFINE n == Len(rows) + 1
    <3>1. n \in Ledger!Rows  BY <2>1, <2>3 DEF BeginStart, Ledger!Rows
    <3>2. Len(rows') = n /\ rows'[n].open /\ \A i \in 1..Len(rows) : rows'[i] = rows[i]
      BY <2>1, <2>3, AppendedRow, RowsAreSessions
    <3>3. \A s \in 1..MaxSessions : Book'[s] = IF s = n THEN "open" ELSE Book[s]
      BY <2>1, <3>2 DEF Book
    <3>4. Book' = [Book EXCEPT ![n] = "open"]  BY <3>1, <3>3 DEF Book
    <3>5. Ledger!IsNextRow(n)
      BY <2>1, <3>1 DEF Ledger!IsNextRow, Ledger!Rows, Book
    <3>6. QED  BY <3>1, <3>4, <3>5 DEF Ledger!LedgerNext, Ledger!OpenRow
  <2>4. CASE Ends
    <3> DEFINE n == Len(rows)
    <3>1. phase # "off" /\ CloseSession  BY <2>4 DEF Ends, BootFails, FindGone, StopEnds
    <3>2. /\ n \in 1..n /\ rows[n].open /\ Len(rows') = n /\ ~rows'[n].open
          /\ \A i \in 1..n : i # n => rows'[i] = rows[i]
      BY <2>1, <3>1, ClosedRow, RowsAreSessions
    <3>3. \A s \in 1..MaxSessions : Book'[s] = IF s = n THEN "closed" ELSE Book[s]
      BY <2>1, <3>2 DEF Book
    <3>4. CASE n \in Ledger!Rows
      <4>1. Book[n] = "open"  BY <2>1, <3>2, <3>4 DEF Ledger!Rows, Book
      <4>2. Book' = [Book EXCEPT ![n] = "closed"]  BY <3>3, <3>4 DEF Book, Ledger!Rows
      <4>3. QED  BY <3>4, <4>1, <4>2 DEF Ledger!LedgerNext, Ledger!CloseRow
    <3>5. CASE n \notin Ledger!Rows
      <4>1. Book' = Book  BY <3>3, <3>5 DEF Book, Ledger!Rows
      <4>2. QED  BY <4>1
    <3>6. QED  BY <3>4, <3>5
  <2>5. QED
    BY <2>2, <2>3, <2>4 DEF Next, Ends, BootSucceeds, Supervise, TimePasses, Elapsed, vars
<1>3. QED  BY <1>1, <1>2, BudgetInvariant, PTL DEF Spec, IsLedger, Ledger!LedgerSpec

=============================================================================
