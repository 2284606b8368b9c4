------------------------------- MODULE SignIn -------------------------------
(***************************************************************************)
(* Signing in and staying signed in: the throttle of one address and the   *)
(* password checks between its critical sections (auth.go, apiLogin in     *)
(* api.go), and the rows of the table sessions (store.go).                 *)
(*                                                                         *)
(* An attempt asks the throttle, checks the password, which takes a bcrypt *)
(* of cost 12, and then tells the throttle: others do the same in between. *)
(* A record of the throttle that counts nothing and locks nothing is the   *)
(* same as none. Time is counted in units; a lock and a session keep what  *)
(* is left of them.                                                        *)
(***************************************************************************)
EXTENDS Integers, FiniteSets

CONSTANTS
  Attempts,   \* POST /api/login from one address, as many as run at a time
  Tokens,     \* session tokens
  Max,        \* failures that lock an address out: 6
  LockFor,    \* for how long: 15 minutes
  ShortTTL,   \* a session that is not to be remembered: 12 hours
  SessionTTL  \* one that is: 30 days

ASSUME SignInAssumption ==
  /\ IsFiniteSet(Attempts) /\ Max \in Nat \ {0} /\ LockFor \in Nat \ {0}
  /\ ShortTTL \in Nat /\ SessionTTL \in Nat /\ ShortTTL <= SessionTTL

VARIABLES
  pc,       \* where each attempt is
  count,    \* failure.count
  locking,  \* failure.locked is set ...
  lock,     \* ... and this much of it is left
  window,   \* attempts let through since the address was last held back
  rows,     \* the table sessions
  left      \* token -> expires_at less the time it is, down to -1

throttleVars == <<count, locking, lock, window>>
sessionVars  == <<rows, left>>
vars == <<pc, throttleVars, sessionVars>>

InFlight == {a \in Attempts : pc[a] \in {"check", "wrong", "right"}}

\* The counter stays below the limit, what is left of a lock or of a session
\* within its term.
TypeOK ==
  /\ pc \in [Attempts -> {"idle", "check", "wrong", "right", "open"}]
  /\ count \in 0..(Max - 1) /\ locking \in BOOLEAN /\ lock \in 0..LockFor
  /\ window \in Nat
  /\ rows \in SUBSET Tokens /\ left \in [Tokens -> -1..SessionTTL]

Init ==
  /\ pc = [a \in Attempts |-> "idle"]
  /\ count = 0 /\ locking = FALSE /\ lock = 0 /\ window = 0
  /\ rows = {} /\ left = [t \in Tokens |-> 0]

-----------------------------------------------------------------------------
(* An attempt *)

Goes(a, where) == pc' = [pc EXCEPT ![a] = where]

\* Locked: the address is let through. A lock that has run out is forgotten,
\* with whatever was counted during it.
LetThrough(a) ==
  /\ pc[a] = "idle" /\ (locking => lock = 0)
  /\ Goes(a, "check")
  /\ IF locking THEN count' = 0 /\ locking' = FALSE /\ window' = 1
                ELSE UNCHANGED <<count, locking>> /\ window' = window + 1
  /\ UNCHANGED <<lock, sessionVars>>

\* checkPassword, for an account that exists or not.
CheckPassword(a) ==
  /\ pc[a] = "check"
  /\ Goes(a, "wrong") \/ Goes(a, "right")
  /\ UNCHANGED <<throttleVars, sessionVars>>

\* Mutations: one failure too many is allowed; the counter starts over but
\* nothing is locked.
FailLate(a) ==
  /\ pc[a] = "wrong" /\ Goes(a, "idle")
  /\ IF count + 1 > Max
     THEN count' = 0 /\ locking' = TRUE /\ lock' = LockFor
     ELSE count' = count + 1 /\ UNCHANGED <<locking, lock>>
  /\ UNCHANGED <<window, sessionVars>>
FailUnlocked(a) ==
  /\ pc[a] = "wrong" /\ Goes(a, "idle")
  /\ count' = (count + 1) % Max
  /\ UNCHANGED <<locking, lock, window, sessionVars>>

\* Fail counts, also while the address is locked, and locks at the limit.
Fail(a) ==
  /\ pc[a] = "wrong" /\ Goes(a, "idle")
  /\ IF count + 1 >= Max
     THEN count' = 0 /\ locking' = TRUE /\ lock' = LockFor
     ELSE count' = count + 1 /\ UNCHANGED <<locking, lock>>
  /\ UNCHANGED <<window, sessionVars>>

\* Reset forgets the address, a lock that others have just earned included.
Reset(a) ==
  /\ pc[a] = "right" /\ Goes(a, "open")
  /\ count' = 0 /\ locking' = FALSE /\ lock' = 0 /\ window' = 0
  /\ UNCHANGED sessionVars

\* startSession: a fresh token, for one of the two terms, or the store fails.
StartSession(a) ==
  /\ pc[a] = "open" /\ Goes(a, "idle")
  /\ \/ \E t \in Tokens \ rows, ttl \in {ShortTTL, SessionTTL} :
          rows' = rows \cup {t} /\ left' = [left EXCEPT ![t] = ttl]
     \/ UNCHANGED sessionVars
  /\ UNCHANGED throttleVars

AttemptStep(a) == \/ LetThrough(a) \/ CheckPassword(a) \/ Fail(a) \/ Reset(a)
                  \/ StartSession(a)

-----------------------------------------------------------------------------
(* Sessions, the process and time *)

\* endSession: the holder signs out.
EndSession(t) ==
  /\ t \in rows
  /\ rows' = rows \ {t}
  /\ UNCHANGED <<pc, throttleVars, left>>

\* SessionUser deletes a session it finds expired, and honours any other.
Expired(t) == left[t] < 0

SessionUser(t) ==
  /\ t \in rows /\ Expired(t)
  /\ rows' = rows \ {t}
  /\ UNCHANGED <<pc, throttleVars, left>>

\* Mutation: a session that ends this second is purged a second too early.
PurgeEarly == {t \in rows : left[t] > 0}

\* PurgeSessions.
Unpurged == {t \in rows : left[t] >= 0}

\* housekeeping, once an hour.
Housekeeping == rows' = Unpurged /\ UNCHANGED <<pc, throttleVars, left>>

\* The panel restarts: the throttle was in memory, and sessions are purged.
Restart ==
  /\ pc' = [a \in Attempts |-> "idle"]
  /\ count' = 0 /\ locking' = FALSE /\ lock' = 0 /\ window' = 0
  /\ rows' = Unpurged /\ UNCHANGED left

Pass ==
  /\ lock' = IF lock > 0 THEN lock - 1 ELSE 0
  /\ left' = [t \in Tokens |-> IF left[t] >= 0 THEN left[t] - 1 ELSE -1]
  /\ UNCHANGED <<pc, count, locking, window, rows>>

Next ==
  \/ \E a \in Attempts : AttemptStep(a)
  \/ \E t \in Tokens : EndSession(t) \/ SessionUser(t)
  \/ Housekeeping \/ Restart \/ Pass

Spec == Init /\ [][Next]_vars

-----------------------------------------------------------------------------

\* The throttle is asked before and told after the password check, so attempts
\* that run together may exceed the limit, but by no more than their number:
\* this many passwords are tried before the address is held back or succeeds.
TriesAreBounded == window <= Max - 1 + Cardinality(Attempts)

\* A session that was opened is honoured to the last second of its term: short
\* of signing out, neither housekeeping nor a restart takes it away before
\* SessionUser itself would.
SessionLasts ==
  [][\A t \in rows \ rows' : EndSession(t) \/ Expired(t)]_vars

=============================================================================
