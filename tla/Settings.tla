------------------------------ MODULE Settings ------------------------------
(***************************************************************************)
(* The settings table and the requests that read and write it: the setup   *)
(* wizard (api.go), the settings form, and the snapshot every handler      *)
(* takes of it (Store.Config, config.go).                                  *)
(*                                                                         *)
(* One query is one step, since the store serialises queries and nothing   *)
(* else: requests interleave between any two. A request writes values of   *)
(* its own, so a value is named by the request that wrote it. The keys are *)
(* the two halves of the Kaggle account, the tunnel ("host", for its two), *)
(* the kernel token, the datasets ("run", for the three) and the end of    *)
(* the wizard; the other settings are written and read like these.         *)
(*                                                                         *)
(* overlap is a history variable: which requests were under way at some    *)
(* moment together with r. What goes wrong here goes wrong by overlapping. *)
(***************************************************************************)
EXTENDS Naturals, Sequences, FiniteSets

CONSTANTS
  Requests,   \* each is made once
  Old,        \* whoever set the panel up before it was restarted
  None        \* a key that is missing, or blank

ASSUME SettingsAssumption == Old # None /\ Old \notin Requests /\ None \notin Requests

VARIABLES
  store,    \* the settings table
  users,    \* who created the rows of the table users
  kind,     \* what a request does
  live,     \* the requests under way
  signed,   \* the requests that carry the cookie of a session
  todo,     \* the queries a request has still to make
  snap,     \* the Config it has read so far
  overlap,
  crashed   \* the panel has died with requests under way

vars == <<store, users, kind, live, signed, todo, snap, overlap, crashed>>

Keys    == {"user", "key", "host", "token", "done", "run"}
Secrets == {"key"}
Wizard  == {"admin", "kaggle", "tunnel", "models"}
Kinds   == Wizard \cup {"save", "config"}
Values  == Requests \cup {Old, None}

\* Mutation: a blank API token is left alone, as the settings form does.
KaggleStepsUserOnly == <<"verify", "user">>

\* Handlers, as the queries they make in order. Writes are named by their key.
AdminSteps  == <<"seek", "create">>
KaggleSteps == <<"verify", "user", "key">>
TunnelSteps == <<"host", "check">>
ModelsSteps == <<"run", "count">>
SaveSteps   == <<"user", "key", "host", "run">>
ConfigSteps == <<"user", "key", "host", "token", "done", "run">>

Steps(k) == CASE k = "admin"  -> AdminSteps
              [] k = "kaggle" -> KaggleSteps
              [] k = "tunnel" -> TunnelSteps
              [] k = "models" -> ModelsSteps
              [] k = "save"   -> SaveSteps
              [] k = "config" -> ConfigSteps

\* Every variable keeps its range, and no request overlaps itself.
TypeOK ==
  /\ store \in [Keys -> Values]
  /\ users \in SUBSET (Requests \cup {Old})
  /\ kind \in [Requests -> Kinds \cup {"new"}]
  /\ live \in SUBSET Requests /\ signed \in SUBSET Requests
  /\ \A r \in Requests : Len(todo[r]) <= Len(ConfigSteps)
  /\ snap \in [Requests -> [Keys -> Values]]
  /\ \A r \in Requests : overlap[r] \in SUBSET (Requests \ {r})
  /\ crashed \in BOOLEAN

SetupDone == store["done"] # None

\* A database that is new, or one an earlier run of the panel has set up.
Init ==
  /\ \/ store = [k \in Keys |-> None] /\ users = {}
     \/ store = [k \in Keys |-> Old] /\ users = {Old}
  /\ kind = [r \in Requests |-> "new"]
  /\ live = {} /\ signed = {}
  /\ todo = [r \in Requests |-> << >>]
  /\ snap = [r \in Requests |-> [k \in Keys |-> None]]
  /\ overlap = [r \in Requests |-> {}]
  /\ crashed = FALSE

-----------------------------------------------------------------------------
(* A request is let in *)

\* Nobody can sign in before setup is finished: /api/login is closed till then.
MaySign == SetupDone /\ users # {}

\* Mutation: a handler of the wizard forgot its guard.
AdmittedUnguarded(r, k, s) == k \in Wizard \/ (s /\ SetupDone)

\* guardSetup for the wizard, middleware and requireUser for the rest.
Admitted(r, k, s) == IF k \in Wizard THEN s \/ ~SetupDone ELSE s /\ SetupDone

Admit(r) ==
  /\ kind[r] = "new"
  /\ \E k \in Kinds, s \in BOOLEAN :
       /\ s => MaySign
       /\ Admitted(r, k, s)
       /\ kind' = [kind EXCEPT ![r] = k]
       /\ signed' = IF s THEN signed \cup {r} ELSE signed
       /\ todo' = [todo EXCEPT ![r] = Steps(k)]
  /\ live' = live \cup {r}
  /\ overlap' = [q \in Requests |-> IF q = r THEN live
                                    ELSE IF q \in live THEN overlap[q] \cup {r}
                                    ELSE overlap[q]]
  /\ UNCHANGED <<store, users, snap, crashed>>

-----------------------------------------------------------------------------
(* One query *)

AtStep(r, step) == r \in live /\ todo[r] # << >> /\ Head(todo[r]) = step

\* The step is done, and these are left.
Left(r, steps) == todo' = [todo EXCEPT ![r] = steps]

Request(r) == UNCHANGED <<kind, signed, overlap, crashed>>

\* Store.Set of a value of one's own. A field that is absent from a form is
\* passed over, and one that is not a secret may be blank.
Write(r) ==
  /\ kind[r] # "config"
  /\ \E k \in Keys :
       /\ AtStep(r, k)
       /\ \/ store' = [store EXCEPT ![k] = r]
          \/ kind[r] = "save" /\ store' = store
          \/ kind[r] = "save" /\ k \notin Secrets /\ store' = [store EXCEPT ![k] = None]
  /\ Left(r, Tail(todo[r]))
  /\ UNCHANGED <<users, live, snap>> /\ Request(r)

\* Store.Config reads one key after the other, in the order of the fields.
ReadKey(r) ==
  /\ kind[r] = "config"
  /\ \E k \in Keys : AtStep(r, k) /\ snap' = [snap EXCEPT ![r][k] = store[k]]
  /\ Left(r, Tail(todo[r]))
  /\ UNCHANGED <<store, users, live>> /\ Request(r)

\* Kaggle accepts the credentials, or the request ends. It may take 30 s.
Verify(r) ==
  /\ AtStep(r, "verify")
  /\ Left(r, Tail(todo[r])) \/ Left(r, << >>)
  /\ UNCHANGED <<store, users, live, snap>> /\ Request(r)

\* Mutation: a token is made on every save.
CheckTokenNever(r) ==
  /\ AtStep(r, "check")
  /\ Left(r, <<"token">>)
  /\ UNCHANGED <<store, users, live, snap>> /\ Request(r)

\* A kernel token is made if there is none.
CheckToken(r) ==
  /\ AtStep(r, "check")
  /\ Left(r, IF store["token"] = None THEN <<"token">> ELSE << >>)
  /\ UNCHANGED <<store, users, live, snap>> /\ Request(r)

\* Mutation: the administrator is not looked for.
CountNobody(r) ==
  /\ AtStep(r, "count")
  /\ Left(r, <<"done">>)
  /\ UNCHANGED <<store, users, live, snap>> /\ Request(r)

\* Setup is finished if there is an administrator; the dataset stays written.
CountUsers(r) ==
  /\ AtStep(r, "count")
  /\ Left(r, IF users = {} THEN << >> ELSE <<"done">>)
  /\ UNCHANGED <<store, users, live, snap>> /\ Request(r)

\* Mutation: whoever got past guardSetup may add an administrator.
SeekNobody(r) ==
  /\ AtStep(r, "seek")
  /\ Left(r, Tail(todo[r]))
  /\ UNCHANGED <<store, users, live, snap>> /\ Request(r)

\* A stranger only makes the first administrator.
SeekAdmin(r) ==
  /\ AtStep(r, "seek")
  /\ Left(r, IF users # {} /\ r \notin signed THEN << >> ELSE Tail(todo[r]))
  /\ UNCHANGED <<store, users, live, snap>> /\ Request(r)

\* Mutation: an account in nobody's name.
CreateNobody(r) ==
  /\ AtStep(r, "create")
  /\ users' = users \cup {None}
  /\ Left(r, << >>)
  /\ UNCHANGED <<store, live, snap>> /\ Request(r)

\* The row is inserted, or refused: its address exists, the password is weak.
CreateUser(r) ==
  /\ AtStep(r, "create")
  /\ users' \in {users, users \cup {r}}
  /\ Left(r, << >>)
  /\ UNCHANGED <<store, live, snap>> /\ Request(r)

Answer(r) ==
  /\ r \in live /\ todo[r] = << >>
  /\ live' = live \ {r}
  /\ UNCHANGED <<store, users, todo, snap>> /\ Request(r)

RequestStep(r) == \/ Write(r) \/ ReadKey(r) \/ Verify(r) \/ CheckToken(r)
                  \/ CountUsers(r) \/ SeekAdmin(r) \/ CreateUser(r) \/ Answer(r)

\* The panel dies: what was written stays, what was to be written is not.
Crash ==
  /\ live # {} /\ live' = {} /\ crashed' = TRUE
  /\ todo' = [r \in Requests |-> << >>]
  /\ UNCHANGED <<store, users, kind, signed, snap, overlap>>

Next == (\E r \in Requests : Admit(r) \/ RequestStep(r)) \/ Crash

Spec == Init /\ [][Next]_vars

-----------------------------------------------------------------------------

\* Setting the panel up goes one way: an account is never lost, and setup is
\* never finished without one, nor reopened. Otherwise nobody could sign in,
\* or anybody could rewrite the settings.
Setup == INSTANCE Onboarding WITH People <- Requests \cup {Old}, users <- users,
                                  finished <- SetupDone
SetupGoesForward == Setup!OnboardingSpec

\* The token a running kernel was given stays the one the panel uses, unless
\* two saves of the tunnel overlapped and both found none: the second one
\* then replaces what the first one made.
TokenIsKept ==
  [][store["token"] # None /\ store'["token"] # store["token"] =>
       \E r \in Requests : store'["token"] = r /\ store["token"] \in overlap[r]]_vars

\* A second administrator is made by someone who is signed in, or by a request
\* that was under way while the first one was made.
OneFirstAdministrator ==
  \A r \in users \ (signed \cup {Old}) : users \ (signed \cup {r}) \subseteq overlap[r]

\* Once setup is finished, a request that nobody signed in for changes nothing
\* any more, unless it was under way while setup was being finished.
StrangersAreShutOut ==
  [][\A r \in Requests \ signed :
       RequestStep(r) /\ SetupDone /\ <<store, users>>' # <<store, users>> =>
         store["done"] \in overlap[r]]_vars

\* The two halves of the Kaggle account are those of two different setups:
\* q's name with p's key.
Torn(c, q, p) ==
  /\ c["user"] = q /\ c["key"] = p /\ q # p
  /\ \A o \in {q, p} : o \in Requests => kind[o] = "kaggle"

\* A Config mixes two setups of the account only if one of them overlapped the
\* other or the request that read it, or the panel died in the middle of one.
ConfigTornByOverlap ==
  \A r \in Requests : kind[r] = "config" /\ todo[r] = << >> /\ ~crashed =>
    \A q, p \in Requests \cup {Old} : Torn(snap[r], q, p) =>
      \E o \in {q, p} \cap Requests : overlap[o] \cap {q, p, r} # {}

\* config.go says a handler can never see a half-applied change. Config makes
\* one query per key, and the setup of the account writes in between.
NoHalfAppliedChange ==
  \A r \in Requests : kind[r] = "config" /\ todo[r] = << >> /\ ~crashed =>
    \A q, p \in Requests \cup {Old} : Torn(snap[r], q, p) =>
      \E o \in {q, p} \cap Requests : overlap[o] \cap {q, p} # {}

=============================================================================
