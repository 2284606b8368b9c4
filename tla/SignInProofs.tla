---------------------------- MODULE SignInProofs ----------------------------
(***************************************************************************)
(* What is proved of SignIn, for any limit, any terms and any finite       *)
(* number of attempts at a time: how many passwords are tried before an    *)
(* address is held back, and that sessions last as long as they should.    *)
(***************************************************************************)
EXTENDS SignIn, FiniteSetTheorems, TLAPS

\* While nothing is locked, whoever was let through has failed and is counted,
\* or has not told the throttle yet.
WindowIsCounted == ~locking => window <= count + Cardinality(InFlight)

SignInInv == TypeOK /\ WindowIsCounted /\ TriesAreBounded

-----------------------------------------------------------------------------
(* How many attempts have not told the throttle yet *)

LEMMA FewInFlight ==
  /\ IsFiniteSet(InFlight)
  /\ Cardinality(InFlight) \in Nat /\ Cardinality(Attempts) \in Nat
  /\ Cardinality(InFlight) <= Cardinality(Attempts)
BY SignInAssumption, FS_Subset, FS_CardinalityType DEF InFlight

LEMMA OneMore ==
  ASSUME NEW a \in Attempts, a \notin InFlight, InFlight' = InFlight \cup {a}
  PROVE  Cardinality(InFlight') = Cardinality(InFlight) + 1
BY FewInFlight, FS_AddElement

LEMMA OneLess ==
  ASSUME NEW a \in Attempts, a \in InFlight, InFlight' = InFlight \ {a}
  PROVE  Cardinality(InFlight') = Cardinality(InFlight) - 1
BY FewInFlight, FS_RemoveElement

LEMMA FewInFlightNext ==
  ASSUME TypeOK'
  PROVE  Cardinality(InFlight)' \in Nat /\ Cardinality(InFlight)' <= Cardinality(Attempts)
<1>1. IsFiniteSet(InFlight')  BY SignInAssumption, FS_Subset DEF InFlight
<1>2. InFlight' \subseteq Attempts  BY DEF InFlight
<1>3. QED  BY <1>1, <1>2, SignInAssumption, FS_Subset, FS_CardinalityType

\* What is counted and what is under way, the newcomer included.
LEMMA OneMoreFits ==
  ASSUME NEW w \in Nat, NEW c \in 0..(Max - 1), NEW k \in Nat, NEW m \in Nat,
         w <= c + k + 1, k + 1 <= m
  PROVE  w <= Max - 1 + m
BY SignInAssumption

-----------------------------------------------------------------------------
(* One lemma per kind of step *)

\* The counter follows every failure; what exceeds it is under way.
LEMMA AttemptKeeps ==
  ASSUME SignInInv, NEW a \in Attempts, AttemptStep(a)
  PROVE  SignInInv'
<1> DEFINE n == Cardinality(InFlight)
           N == Cardinality(Attempts)
<1>0. n \in Nat /\ N \in Nat /\ n <= N /\ Max \in Nat \ {0} /\ LockFor \in Nat \ {0}
      /\ ShortTTL \in Nat /\ SessionTTL \in Nat /\ ShortTTL <= SessionTTL
  BY FewInFlight, SignInAssumption
<1>1. CASE LetThrough(a)
  <2>1. TypeOK'
    <3>1. count' \in 0..(Max - 1) /\ lock' \in 0..LockFor /\ window' \in Nat
      BY <1>0, <1>1 DEF SignInInv, TypeOK, LetThrough
    <3>2. locking' \in BOOLEAN
      BY <1>1, Zenon DEF SignInInv, TypeOK, LetThrough
    <3>3. pc' \in [Attempts -> {"idle", "check", "wrong", "right", "open"}]
      BY <1>1 DEF SignInInv, TypeOK, LetThrough, Goes
    <3>4. rows' \in SUBSET Tokens /\ left' \in [Tokens -> -1..SessionTTL]
      BY <1>1 DEF SignInInv, TypeOK, LetThrough, sessionVars
    <3>5. QED  BY <3>1, <3>2, <3>3, <3>4 DEF TypeOK
  <2>2. a \notin InFlight /\ InFlight' = InFlight \cup {a}
    BY <1>1 DEF SignInInv, TypeOK, LetThrough, Goes, InFlight
  <2>3. Cardinality(InFlight)' = n + 1  BY <2>2, OneMore
  <2>4. n + 1 <= N  BY <2>1, <2>3, FewInFlightNext
  <2> HIDE DEF n, N
  <2>5. window' <= count' + n + 1 /\ count' \in 0..(Max - 1) /\ window' \in Nat
    BY <1>0, <1>1, <2>1 DEF SignInInv, TypeOK, WindowIsCounted, LetThrough, n
  <2>6. n \in Nat /\ N \in Nat  BY <1>0
  <2>7. window' <= Max - 1 + N  BY <2>4, <2>5, <2>6, OneMoreFits
  <2>8. QED  BY <2>1, <2>3, <2>5, <2>7, <1>0 DEF SignInInv, WindowIsCounted, TriesAreBounded, n, N
<1>2. CASE CheckPassword(a)
  <2>1. TypeOK'
    BY <1>2 DEF SignInInv, TypeOK, CheckPassword, Goes, throttleVars, sessionVars
  <2>2. InFlight' = InFlight
    BY <1>2 DEF SignInInv, TypeOK, CheckPassword, Goes, InFlight
  <2>3. QED
    BY <1>2, <2>1, <2>2
    DEF SignInInv, WindowIsCounted, TriesAreBounded, CheckPassword, throttleVars
<1>3. CASE Fail(a)
  <2>1. TypeOK'
    <3>1. count' \in 0..(Max - 1) /\ lock' \in 0..LockFor /\ window' \in Nat
      BY <1>0, <1>3 DEF SignInInv, TypeOK, Fail
    <3>2. locking' \in BOOLEAN
      BY <1>3, Zenon DEF SignInInv, TypeOK, Fail
    <3>3. pc' \in [Attempts -> {"idle", "check", "wrong", "right", "open"}]
      BY <1>3 DEF SignInInv, TypeOK, Fail, Goes
    <3>4. rows' \in SUBSET Tokens /\ left' \in [Tokens -> -1..SessionTTL]
      BY <1>3 DEF SignInInv, TypeOK, Fail, sessionVars
    <3>5. QED  BY <3>1, <3>2, <3>3, <3>4 DEF TypeOK
  <2>2. a \in InFlight /\ InFlight' = InFlight \ {a}
    BY <1>3 DEF SignInInv, TypeOK, Fail, Goes, InFlight
  <2>3. Cardinality(InFlight)' = n - 1  BY <2>2, OneLess
  <2> HIDE DEF n, N
  <2>4. ~locking' => window' <= count' + (n - 1)
    BY <1>0, <1>3 DEF SignInInv, TypeOK, WindowIsCounted, Fail, n
  <2>5. window' <= Max - 1 + N
    BY <1>3 DEF SignInInv, TriesAreBounded, Fail, N
  <2>6. QED  BY <2>1, <2>3, <2>4, <2>5, <1>0 DEF SignInInv, WindowIsCounted, TriesAreBounded, n, N
<1>4. CASE Reset(a)
  <2>1. TypeOK'
    <3>1. count' \in 0..(Max - 1) /\ lock' \in 0..LockFor /\ window' \in Nat
      BY <1>0, <1>4 DEF SignInInv, TypeOK, Reset
    <3>2. locking' \in BOOLEAN
      BY <1>4, Zenon DEF SignInInv, TypeOK, Reset
    <3>3. pc' \in [Attempts -> {"idle", "check", "wrong", "right", "open"}]
      BY <1>4 DEF SignInInv, TypeOK, Reset, Goes
    <3>4. rows' \in SUBSET Tokens /\ left' \in [Tokens -> -1..SessionTTL]
      BY <1>4 DEF SignInInv, TypeOK, Reset, sessionVars
    <3>5. QED  BY <3>1, <3>2, <3>3, <3>4 DEF TypeOK
  <2>2. window' = 0 /\ count' = 0  BY <1>4 DEF Reset
  <2>3. Cardinality(InFlight)' \in Nat  BY <2>1, FewInFlightNext
  <2>4. QED  BY <1>0, <2>1, <2>2, <2>3 DEF SignInInv, WindowIsCounted, TriesAreBounded
<1>5. CASE StartSession(a)
  <2>1. TypeOK'
    <3>1. \A ttl \in {ShortTTL, SessionTTL} : ttl \in -1..SessionTTL  BY <1>0
    <3>2. rows' \in SUBSET Tokens /\ left' \in [Tokens -> -1..SessionTTL]
      BY <1>5, <3>1 DEF SignInInv, TypeOK, StartSession, sessionVars
    <3>3. QED  BY <1>5, <3>2 DEF SignInInv, TypeOK, StartSession, Goes, throttleVars
  <2>2. InFlight' = InFlight
    BY <1>5 DEF SignInInv, TypeOK, StartSession, Goes, InFlight
  <2>3. QED
    BY <1>5, <2>1, <2>2
    DEF SignInInv, WindowIsCounted, TriesAreBounded, StartSession, throttleVars
<1>6. QED  BY <1>1, <1>2, <1>3, <1>4, <1>5 DEF AttemptStep

\* Sessions end, the panel restarts, time passes.
LEMMA RestKeeps ==
  ASSUME SignInInv,
         (\E t \in Tokens : EndSession(t) \/ SessionUser(t)) \/ Housekeeping \/ Restart \/ Pass
  PROVE  SignInInv'
<1>0. /\ Cardinality(Attempts) \in Nat /\ Max \in Nat \ {0}
      /\ LockFor \in Nat \ {0} /\ SessionTTL \in Nat
  BY FewInFlight, SignInAssumption
<1>1. CASE \E t \in Tokens : EndSession(t) \/ SessionUser(t)
  BY <1>1 DEF SignInInv, TypeOK, WindowIsCounted, TriesAreBounded, EndSession, SessionUser,
              throttleVars, InFlight
<1>2. CASE Housekeeping
  BY <1>2 DEF SignInInv, TypeOK, WindowIsCounted, TriesAreBounded, Housekeeping, Unpurged,
              throttleVars, InFlight
<1>3. CASE Restart
  <2>1. TypeOK'
    <3>1. count' \in 0..(Max - 1) /\ lock' \in 0..LockFor /\ window' \in Nat
      BY <1>0, <1>3 DEF SignInInv, TypeOK, Restart
    <3>2. locking' \in BOOLEAN
      BY <1>3, Zenon DEF SignInInv, TypeOK, Restart
    <3>3. pc' \in [Attempts -> {"idle", "check", "wrong", "right", "open"}]
      BY <1>3 DEF SignInInv, TypeOK, Restart, Goes
    <3>4. rows' \in SUBSET Tokens /\ left' \in [Tokens -> -1..SessionTTL]
      BY <1>3 DEF SignInInv, TypeOK, Restart, Unpurged
    <3>5. QED  BY <3>1, <3>2, <3>3, <3>4 DEF TypeOK
  <2>2. Cardinality(InFlight)' \in Nat  BY <2>1, FewInFlightNext
  <2>3. window' = 0 /\ count' = 0  BY <1>3 DEF Restart
  <2>4. QED  BY <1>0, <2>1, <2>2, <2>3 DEF SignInInv, WindowIsCounted, TriesAreBounded
<1>4. CASE Pass
  <2>1. \A t \in Tokens : left'[t] \in -1..SessionTTL
    BY <1>0, <1>4 DEF SignInInv, TypeOK, Pass
  <2>2. TypeOK'  BY <1>0, <1>4, <2>1 DEF SignInInv, TypeOK, Pass
  <2>3. QED
    BY <1>4, <2>2 DEF SignInInv, WindowIsCounted, TriesAreBounded, Pass, InFlight
<1>5. QED  BY <1>1, <1>2, <1>3, <1>4

LEMMA SignInInvInductive == Spec => []SignInInv
<1>1. Init => SignInInv
  <2> SUFFICES ASSUME Init PROVE SignInInv  OBVIOUS
  <2>1. count \in 0..(Max - 1) /\ lock \in 0..LockFor /\ window \in Nat
    BY SignInAssumption DEF Init
  <2>2. left \in [Tokens -> -1..SessionTTL]  BY SignInAssumption DEF Init
  <2>3. TypeOK  BY <2>1, <2>2, Zenon DEF Init, TypeOK
  <2>4. QED  BY <2>3, FewInFlight, SignInAssumption
              DEF Init, SignInInv, WindowIsCounted, TriesAreBounded
<1>2. SignInInv /\ [Next]_vars => SignInInv'
  <2> SUFFICES ASSUME SignInInv, [Next]_vars PROVE SignInInv'  OBVIOUS
  <2>1. CASE UNCHANGED vars
    BY <2>1 DEF vars, throttleVars, sessionVars, SignInInv, TypeOK, WindowIsCounted,
                TriesAreBounded, InFlight
  <2>2. CASE \E a \in Attempts : AttemptStep(a)  BY <2>2, AttemptKeeps
  <2>3. QED  BY <2>1, <2>2, RestKeeps DEF Next
<1>3. QED  BY <1>1, <1>2, PTL DEF Spec

-----------------------------------------------------------------------------

\* The counter of the throttle never reaches its limit, and no lock or session
\* has more than its term left.
THEOREM SignInTypeCorrect == Spec => []TypeOK
BY SignInInvInductive, PTL DEF SignInInv

\* However the attempts interleave, no more passwords are tried before an
\* address is held back than the limit and those under way allow.
THEOREM TriesBounded == Spec => []TriesAreBounded
BY SignInInvInductive, PTL DEF SignInInv

\* A session only leaves the table when its holder signs out or its term is
\* over, whoever looks first: SessionUser, housekeeping or a restart.
THEOREM SessionsLast == Spec => SessionLasts
<1>1. SignInInv /\ [Next]_vars =>
        [\A t \in rows \ rows' : EndSession(t) \/ Expired(t)]_vars
  <2> SUFFICES ASSUME SignInInv, Next, NEW t \in rows, t \notin rows'
               PROVE  EndSession(t) \/ Expired(t)
    BY DEF vars
  <2>1. t \in Tokens /\ left[t] \in -1..SessionTTL  BY DEF SignInInv, TypeOK
  <2>2. CASE \E a \in Attempts : AttemptStep(a)
    BY <2>2 DEF AttemptStep, LetThrough, CheckPassword, Fail, Reset, StartSession, sessionVars
  <2>3. CASE \E u \in Tokens : EndSession(u)  BY <2>3 DEF EndSession
  <2>4. CASE \E u \in Tokens : SessionUser(u)  BY <2>4 DEF SessionUser
  <2>5. CASE Housekeeping \/ Restart
    BY <2>1, <2>5, SignInAssumption DEF Housekeeping, Restart, Unpurged, Expired
  <2>6. CASE Pass  BY <2>6 DEF Pass
  <2>7. QED  BY <2>2, <2>3, <2>4, <2>5, <2>6 DEF Next
<1>2. QED  BY <1>1, SignInInvInductive, PTL DEF Spec, SessionLasts

=============================================================================
