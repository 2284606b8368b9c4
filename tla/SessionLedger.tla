---------------------------- MODULE SessionLedger ----------------------------
(***************************************************************************)
(* What the table kernel_sessions promises to everything that bills by it: *)
(* rows are handed out in order, every row is opened once and closed at    *)
(* most once, and the reason a row was closed for is never rewritten.      *)
(* The lifecycle of the kernel (KernelLifecycle) is shown to keep it.      *)
(***************************************************************************)
EXTENDS Naturals

CONSTANTS
  MaxSessions,  \* bound on the number of rows
  Reasons       \* why a session was closed: neither "none" nor "open"

VARIABLE book   \* row id -> "none" (not inserted), "open", or its reason

Rows == 1..MaxSessions

LedgerTypeOK == book \in [Rows -> {"none", "open"} \cup Reasons]

LedgerInit == book = [s \in Rows |-> "none"]

\* AUTOINCREMENT: the row inserted is the first one that was never used.
IsNextRow(s) == /\ book[s] = "none"
                /\ \A t \in Rows : t < s => book[t] # "none"

OpenRow(s) == /\ IsNextRow(s)
              /\ book' = [book EXCEPT ![s] = "open"]

CloseRow(s, r) == /\ book[s] = "open"
                  /\ book' = [book EXCEPT ![s] = r]

LedgerNext == \E s \in Rows : OpenRow(s) \/ \E r \in Reasons : CloseRow(s, r)

LedgerSpec == LedgerInit /\ [][LedgerNext]_book

=============================================================================
