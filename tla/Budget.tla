------------------------------- MODULE Budget -------------------------------
(***************************************************************************)
(* The weekly budget against the clock: what the panel counts as used      *)
(* (store.go, UsedSeconds), what it refuses and stops because of it        *)
(* (kernel.go, quota, EnsureReady, Supervise, Stop), and what the sessions *)
(* really spent. One session at a time, as KernelLifecycle has it while    *)
(* the stop button is left alone; there a row may be closed a moment after *)
(* the next one is opened, and that moment is left out here.               *)
(*                                                                         *)
(* phase is Kernel.state with "stopped" and "failed" taken together. The   *)
(* deadlines the code gives itself are honoured: time does not pass a      *)
(* deadline before the step it calls for is taken.                         *)
(***************************************************************************)
EXTENDS QuotaWindow, Sequences, Functions

CONSTANTS
  WeeklyQuota,   \* Config.WeeklyQuota, in units
  BlockPct,      \* Config.BlockPct
  BootLimit,     \* bootTimeout
  SupervisePeriod, \* a tick of Supervise and the probe it makes
  StopLimit,     \* how long Stop waits for the kernel to go quiet
  Beginning,     \* the time the panel is installed at
  Horizon,       \* bound: the time the runs end at
  MaxSessions    \* bound: sessions

ASSUME BudgetAssumption ==
  /\ WeeklyQuota \in Nat /\ BlockPct \in 1..100
  /\ {BootLimit, SupervisePeriod, StopLimit} \subseteq Nat \ {0}
  /\ Beginning \in Nat /\ Horizon \in Nat /\ Beginning <= Horizon /\ MaxSessions \in Nat

VARIABLES
  now,    \* the clock
  phase,  \* "off", "booting", "ready" or "stopping"
  due,    \* the latest time the phase can last to without a step
  rows    \* kernel_sessions, in order

vars == <<now, phase, due, rows>>

Larger(a, b) == IF a >= b THEN a ELSE b

Session == [open : BOOLEAN, started : Nat, stopped : Nat, seconds : Nat]

\* The clock, the phase and the rows keep their ranges; in particular no
\* session is ever billed a negative number of seconds.
TypeOK == /\ now \in Beginning..Horizon
          /\ phase \in {"off", "booting", "ready", "stopping"}
          /\ due \in Nat
          /\ rows \in Seq(Session)

-----------------------------------------------------------------------------
(* The tally *)

\* Mutation: an open session counts in full, whatever window it began in.
BilledUnclipped(since, t) ==
  [i \in DOMAIN rows |-> CASE rows[i].open -> t - rows[i].started
                           [] ~rows[i].open /\ rows[i].stopped >= since -> rows[i].seconds
                           [] OTHER -> 0]

\* What each session adds to the two SUMs: a closed one counts in full when it
\* ended inside the window, an open one from the later of its start and the
\* window's.
Billed(since, t) ==
  [i \in DOMAIN rows |-> CASE rows[i].open -> t - Larger(rows[i].started, since)
                           [] ~rows[i].open /\ rows[i].stopped >= since -> rows[i].seconds
                           [] OTHER -> 0]

UsedSeconds(since, t) == Larger(0, SumFunction(Billed(since, t)))

Used == UsedSeconds(QuotaWindowStart(now), now)

\* pctOf(used, quota) >= BlockPct; without a quota nothing is ever used.
Blocked == WeeklyQuota > 0 /\ Used * 100 >= BlockPct * WeeklyQuota

-----------------------------------------------------------------------------
(* The kernel, as far as the budget sees it *)

Init == now = Beginning /\ phase = "off" /\ due = 0 /\ rows = <<>>

\* Mutations: the seconds are left at their default; they run backwards.
CloseSessionUnbilled ==
  rows' = [rows EXCEPT ![Len(rows)].open = FALSE, ![Len(rows)].stopped = now]

CloseSessionBackwards ==
  rows' = [rows EXCEPT ![Len(rows)].open = FALSE, ![Len(rows)].stopped = now,
                       ![Len(rows)].seconds = rows[Len(rows)].started - now]

\* FinishKernelSession: billed seconds run from the request to now.
CloseSession ==
  rows' = [rows EXCEPT ![Len(rows)].open = FALSE, ![Len(rows)].stopped = now,
                       ![Len(rows)].seconds = Larger(0, now - rows[Len(rows)].started)]

\* EnsureReady's start, refused while the budget is spent.
BeginStart ==
  /\ phase = "off" /\ ~Blocked /\ Len(rows) < MaxSessions
  /\ rows' = Append(rows, [open |-> TRUE, started |-> now, stopped |-> 0, seconds |-> 0])
  /\ phase' = "booting" /\ due' = now + BootLimit
  /\ UNCHANGED now

BootSucceeds ==
  /\ phase = "booting"
  /\ phase' = "ready" /\ due' = now + SupervisePeriod
  /\ UNCHANGED <<now, rows>>

BootFails ==
  /\ phase = "booting"
  /\ CloseSession
  /\ phase' = "off" /\ due' = 0 /\ UNCHANGED now

\* Supervise finds nobody at the other end.
FindGone ==
  /\ phase = "ready"
  /\ CloseSession
  /\ phase' = "off" /\ due' = 0 /\ UNCHANGED now

\* Mutation: only the idle time is looked at.
SuperviseIdleOnly ==
  /\ phase = "ready"
  /\ \/ phase' = "stopping" /\ due' = now + StopLimit
     \/ phase' = "ready" /\ due' = now + SupervisePeriod
  /\ UNCHANGED <<now, rows>>

\* Supervise stops the kernel because of the budget, or of the idle time, or
\* lets it run until the next tick.
Supervise ==
  /\ phase = "ready"
  /\ \/ phase' = "stopping" /\ due' = now + StopLimit
     \/ ~Blocked /\ phase' = "ready" /\ due' = now + SupervisePeriod
  /\ UNCHANGED <<now, rows>>

\* Stop's loop ends: the kernel went quiet, or the two minutes are over.
StopEnds ==
  /\ phase = "stopping"
  /\ CloseSession
  /\ phase' = "off" /\ due' = 0 /\ UNCHANGED now

\* Time passes, but no deadline goes by unanswered.
TimePasses ==
  /\ now < Horizon
  /\ phase = "off" \/ now < due
  /\ now' = now + 1
  /\ UNCHANGED <<phase, due, rows>>

\* Bound: the clock stands still at the horizon.
Elapsed == now = Horizon /\ UNCHANGED vars

Next == \/ BeginStart \/ BootSucceeds \/ BootFails \/ FindGone \/ Supervise \/ StopEnds
        \/ TimePasses \/ Elapsed

Spec == Init /\ [][Next]_vars

-----------------------------------------------------------------------------
(* What is promised *)

\* The seconds of [from, to) that lie in the window that began at since.
Within(since, from, to) == Larger(0, to - Larger(from, since))

\* The reference: what each session spent after a moment, and in the current
\* window.
SpentSince(since) ==
  [i \in DOMAIN rows |->
     Within(since, rows[i].started, IF rows[i].open THEN now ELSE rows[i].stopped)]

Spent == SumFunction(SpentSince(QuotaWindowStart(now)))

\* The part before a reset of the sessions that were closed across it.
Straddle(since) ==
  [i \in DOMAIN rows |-> IF ~rows[i].open /\ rows[i].stopped >= since
                           THEN Larger(0, since - rows[i].started) ELSE 0]

\* The tally never lags behind what was spent, and runs ahead of it by exactly
\* the part before the reset of the session that was closed across it.
OvercountIsStraddle == Used = Spent + SumFunction(Straddle(QuotaWindowStart(now)))

\* Refusing starts and supervising the kernel keep a week's spending within
\* the limit, one boot, one supervision and one stop: a start is allowed at
\* the last moment, boots for as long as it may, and is stopped at the end of
\* the supervision that finds the budget spent.
OverspendBounded ==
  WeeklyQuota > 0 =>
    Spent * 100 < BlockPct * WeeklyQuota + (BootLimit + SupervisePeriod + StopLimit) * 100

\* Inside one window the tally only grows: closing a session never gives
\* budget back.
UsedGrowsInWindow ==
  [][QuotaWindowStart(now') = QuotaWindowStart(now) => Used' >= Used]_vars

\* The budget is counted from the latest reset, and from nowhere else.
WindowIsCurrent == IsWindowStart(QuotaWindowStart(now), now)

\* The rows the tally is made of are rows of the ledger KernelLifecycle keeps:
\* opened in order, closed once, and then left as they are.
Book == [s \in 1..MaxSessions |-> CASE s > Len(rows) -> "none"
                                    [] s <= Len(rows) /\ rows[s].open -> "open"
                                    [] OTHER -> "closed"]
Ledger == INSTANCE SessionLedger WITH Reasons <- {"closed"}, book <- Book
IsLedger == Ledger!LedgerSpec

\* Only the part of a session inside the window counts.
OnlyTheWindowCounts == Used = Spent

=============================================================================
