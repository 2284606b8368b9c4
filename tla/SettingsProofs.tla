--------------------------- MODULE SettingsProofs ---------------------------
(***************************************************************************)
(* What is proved of Settings, for any number of requests: setting up goes *)
(* forward only, and the four ways in which unsynchronised requests go     *)
(* wrong all need requests that overlap.                                   *)
(***************************************************************************)
EXTENDS Settings, TLAPS

\* What a request of this kind may still have to do.
Rest(k) ==
  CASE k = "admin"  -> {AdminSteps, <<"create">>, << >>}
    [] k = "kaggle" -> {KaggleSteps, <<"user", "key">>, <<"key">>, << >>}
    [] k = "tunnel" -> {TunnelSteps, <<"check">>, <<"token">>, << >>}
    [] k = "models" -> {ModelsSteps, <<"count">>, <<"done">>, << >>}
    [] k = "save"   -> {SaveSteps, <<"key", "host", "run">>, <<"host", "run">>, <<"run">>, << >>}
    [] k = "config" -> {ConfigSteps, <<"key", "host", "token", "done", "run">>,
                        <<"host", "token", "done", "run">>, <<"token", "done", "run">>,
                        <<"done", "run">>, <<"run">>, << >>}
    [] OTHER        -> {<< >>}

AnyRest == UNION {Rest(k) : k \in Kinds}

\* Config has still to read the second half of the account.
KeyUnread == <<"key", "host", "token", "done", "run">>

Typed ==
  /\ store \in [Keys -> Values]
  /\ users \in SUBSET (Requests \cup {Old})
  /\ kind \in [Requests -> Kinds \cup {"new"}]
  /\ live \in SUBSET Requests /\ signed \in SUBSET Requests
  /\ todo \in [Requests -> AnyRest]
  /\ snap \in [Requests -> [Keys -> Values]]
  /\ overlap \in [Requests -> SUBSET Requests]

\* A request does the rest of what its kind does, and only while it is live.
Progress ==
  \A r \in Requests :
    /\ todo[r] \in Rest(kind[r])
    /\ r \notin live => todo[r] = << >>
    /\ kind[r] = "new" => r \notin live /\ r \notin users /\ overlap[r] = {}
    /\ kind[r] = "new" => snap[r]["user"] = None /\ snap[r]["key"] = None

\* What is in the table was written by a request that has been made.
Written == \A k \in Keys : store[k] \in Requests => kind[store[k]] # "new"

\* Overlapping is mutual, and requests that are live together overlap.
Mutual ==
  /\ \A r \in Requests : r \notin overlap[r]
  /\ \A p, r \in Requests : p \in overlap[r] => r \in overlap[p]
  /\ \A p, r \in live : p # r => p \in overlap[r]

\* Setup is finished, or about to be, only with an account.
Staffed ==
  /\ SetupDone => users # {}
  /\ \A r \in Requests : todo[r] = <<"done">> => users # {}

\* What a request found missing was written since by one that overlaps it.
SeenMissing ==
  \A r \in live :
    /\ todo[r] = <<"token">> /\ store["token"] # None => store["token"] \in overlap[r]
    /\ todo[r] = <<"create">> /\ r \notin signed => users \subseteq overlap[r]
    /\ todo[r] # << >> /\ r \notin signed /\ SetupDone => store["done"] \in overlap[r]
    /\ todo[r] = <<"key">> => store["user"] \in {r, None} \cup overlap[r]

\* A half of an account that a setup of the account wrote.
Half(v) == v = Old \/ (v \in Requests /\ kind[v] = "kaggle")

\* One of two setups overlaps the other, or the reader r.
Linked(q, p, r) == \E o \in {q, p} \cap Requests : overlap[o] \cap {q, p, r} # {}

\* Two halves in the table that do not belong together, and why.
TableTorn ==
  ~crashed => \A q, p \in Requests \cup {Old} :
    store["user"] = q /\ store["key"] = p /\ q # p /\ Half(q) /\ Half(p) =>
      (q \in live /\ todo[q] = <<"key">>) \/ Linked(q, p, q)

\* The same of what a Config has read, or is about to read.
SnapTorn ==
  ~crashed => \A r \in Requests : kind[r] = "config" => \A q, p \in Requests \cup {Old} :
    /\ snap[r]["user"] = q /\ q # p /\ Half(q) /\ Half(p) =>
         /\ todo[r] = KeyUnread /\ store["key"] = p => Linked(q, p, r)
         /\ todo[r] \notin {ConfigSteps, KeyUnread} /\ snap[r]["key"] = p => Linked(q, p, r)
    /\ snap[r]["user"] \in Requests => kind[snap[r]["user"]] # "new"
    /\ snap[r]["key"] \in Requests => kind[snap[r]["key"]] # "new"

SettingsInv ==
  /\ Typed /\ Progress /\ Written /\ Mutual /\ Staffed /\ SeenMissing
  /\ TableTorn /\ SnapTorn /\ OneFirstAdministrator

-----------------------------------------------------------------------------
(* The lists of steps *)

\* What one step further down a handler looks like.
LEMMA NextStep ==
  ASSUME NEW k \in Kinds \cup {"new"}, NEW t \in Rest(k), t # << >>
  PROVE  /\ Tail(t) \in Rest(k)
         /\ Tail(t) \notin {<<"done">>, <<"token">>, ConfigSteps}
         /\ Tail(t) = <<"create">> => Head(t) = "seek"
         /\ Tail(t) = <<"key">> => Head(t) = "user" /\ k = "kaggle"
         /\ Head(t) = "create" => t = <<"create">>
         /\ Head(t) = "verify" => Tail(t) # <<"key">>
         /\ t = <<"key">> => k = "kaggle"
         /\ Len(t) <= 6
         /\ k = "kaggle" /\ Head(t) = "user" => Tail(t) = <<"key">>
         /\ k = "kaggle" /\ Head(t) = "key" => t = <<"key">> /\ Tail(t) = << >>
         /\ k # "config" /\ Head(t) = "done" => t = <<"done">> /\ k = "models" /\ Tail(t) = << >>
         /\ k # "config" /\ Head(t) = "token" => t = <<"token">> /\ k = "tunnel"
         /\ Head(t) = "check" => k = "tunnel"
         /\ Head(t) = "count" => k = "models"
         /\ Head(t) = "seek" => k = "admin"
         /\ Head(t) = "create" => k = "admin"
         /\ k = "config" => /\ Head(t) = "user" => t = ConfigSteps /\ Tail(t) = KeyUnread
                            /\ Head(t) = "key" => t = KeyUnread
                            /\ Tail(t) = KeyUnread => Head(t) = "user"
<1> USE DEF Rest, AdminSteps, KaggleSteps, TunnelSteps, ModelsSteps, SaveSteps, ConfigSteps, KeyUnread
<1>1. CASE k = "admin"
  <2>1. CASE t = AdminSteps  BY <1>1, <2>1
  <2>2. CASE t = <<"create">>  BY <1>1, <2>2
  <2>3. QED  BY <1>1, <2>1, <2>2
<1>2. CASE k = "kaggle"
  <2>1. CASE t = KaggleSteps  BY <1>2, <2>1
  <2>2. CASE t = <<"user", "key">>  BY <1>2, <2>2
  <2>3. CASE t = <<"key">>  BY <1>2, <2>3
  <2>4. QED  BY <1>2, <2>1, <2>2, <2>3
<1>3. CASE k = "tunnel"
  <2>1. CASE t = TunnelSteps  BY <1>3, <2>1
  <2>2. CASE t = <<"check">>  BY <1>3, <2>2
  <2>3. CASE t = <<"token">>  BY <1>3, <2>3
  <2>4. QED  BY <1>3, <2>1, <2>2, <2>3
<1>4. CASE k = "models"
  <2>1. CASE t = ModelsSteps  BY <1>4, <2>1
  <2>2. CASE t = <<"count">>  BY <1>4, <2>2
  <2>3. CASE t = <<"done">>  BY <1>4, <2>3
  <2>4. QED  BY <1>4, <2>1, <2>2, <2>3
<1>5. CASE k = "save"
  <2>1. CASE t = SaveSteps  BY <1>5, <2>1
  <2>2. CASE t = <<"key", "host", "run">>  BY <1>5, <2>2
  <2>3. CASE t = <<"host", "run">>  BY <1>5, <2>3
  <2>4. CASE t = <<"run">>  BY <1>5, <2>4
  <2>5. QED  BY <1>5, <2>1, <2>2, <2>3, <2>4
<1>6. CASE k = "config"
  <2>1. CASE t = ConfigSteps  BY <1>6, <2>1
  <2>2. CASE t = KeyUnread  BY <1>6, <2>2
  <2>3. CASE t = <<"host", "token", "done", "run">>  BY <1>6, <2>3
  <2>4. CASE t = <<"token", "done", "run">>  BY <1>6, <2>4
  <2>5. CASE t = <<"done", "run">>  BY <1>6, <2>5
  <2>6. CASE t = <<"run">>  BY <1>6, <2>6
  <2>7. QED  BY <1>6, <2>1, <2>2, <2>3, <2>4, <2>5, <2>6
<1>7. CASE k = "new"  BY <1>7
<1>8. QED  BY <1>1, <1>2, <1>3, <1>4, <1>5, <1>6, <1>7 DEF Kinds, Wizard

-----------------------------------------------------------------------------
(* One lemma per kind of step *)

\* A query that changes nothing but what its request does next.
LEMMA TodoKeeps ==
  ASSUME SettingsInv, NEW r \in live, todo[r] \notin {<< >>, <<"key">>}, kind[r] # "config",
         NEW t \in Rest(kind[r]), todo' = [todo EXCEPT ![r] = t], t # <<"key">>,
         t = <<"done">> => users # {},
         t = <<"token">> => store["token"] = None,
         t = <<"create">> /\ r \notin signed => users = {},
         UNCHANGED <<store, users, live, snap, kind, signed, overlap, crashed>>
  PROVE  SettingsInv'
<1> USE DEF SettingsInv
<1>1. r \in Requests /\ kind[r] \in Kinds /\ t \in AnyRest
  BY DEF Typed, Progress, AnyRest
<1>2. Typed'  BY <1>1 DEF Typed
<1>3. Progress'  BY <1>1 DEF Progress, Typed
<1>4. Written' /\ Mutual' /\ OneFirstAdministrator'
  BY DEF Written, Mutual, OneFirstAdministrator
<1>5. Staffed'  BY <1>1 DEF Staffed, SetupDone, Typed
<1>6. SeenMissing'  BY <1>1 DEF SeenMissing, SetupDone, Typed
<1>7. TableTorn'  BY <1>1 DEF TableTorn, Half, Linked, Typed
<1>8. SnapTorn'  BY <1>1 DEF SnapTorn, Half, Linked, Typed
<1>9. QED  BY <1>2, <1>3, <1>4, <1>5, <1>6, <1>7, <1>8

LEMMA CheckKeeps ==
  ASSUME SettingsInv, NEW r \in Requests,
         Verify(r) \/ CheckToken(r) \/ CountUsers(r) \/ SeekAdmin(r)
  PROVE  SettingsInv'
<1> USE DEF SettingsInv
<1>1. /\ r \in live /\ todo[r] # << >> /\ todo[r] \in Rest(kind[r])
      /\ Head(todo[r]) \in {"verify", "check", "count", "seek"}
      /\ UNCHANGED <<store, users, live, snap, kind, signed, overlap, crashed>>
  BY DEF Verify, CheckToken, CountUsers, SeekAdmin, AtStep, Request, Progress
<1>2. kind[r] \in Kinds \cup {"new"} /\ << >> \in Rest(kind[r])
  BY DEF Typed, Rest, Kinds, Wizard
<1>3. todo[r] # <<"key">>  BY <1>1
<1>4. kind[r] # "config"
  BY <1>1 DEF Rest, ConfigSteps
<1>5. /\ Tail(todo[r]) \in Rest(kind[r])
      /\ Tail(todo[r]) \notin {<<"done">>, <<"token">>}
      /\ Tail(todo[r]) = <<"create">> => Head(todo[r]) = "seek"
      /\ Tail(todo[r]) # <<"key">>
      /\ Head(todo[r]) = "check" => kind[r] = "tunnel"
      /\ Head(todo[r]) = "count" => kind[r] = "models"
  BY <1>1, <1>2, NextStep
<1>6. CASE Verify(r)
  <2>1. PICK t \in {Tail(todo[r]), << >>} : todo' = [todo EXCEPT ![r] = t]
    BY <1>6 DEF Verify, Left
  <2>2. Head(todo[r]) = "verify"  BY <1>6 DEF Verify, AtStep
  <2>3. << >> \notin {<<"done">>, <<"token">>, <<"create">>, <<"key">>}  OBVIOUS
  <2>4. t \notin {<<"done">>, <<"token">>, <<"create">>, <<"key">>}
    BY <2>1, <2>2, <2>3, <1>5, Zenon
  <2>5. QED  BY <1>1, <1>2, <1>3, <1>4, <1>5, <2>1, <2>4, TodoKeeps
<1>7. CASE CheckToken(r)
  <2>1. PICK t \in {<<"token">>, << >>} :
          todo' = [todo EXCEPT ![r] = t] /\ (t = <<"token">> => store["token"] = None)
    BY <1>7 DEF CheckToken, Left
  <2>2. <<"token">> \in Rest(kind[r])  BY <1>5, <1>7 DEF CheckToken, AtStep, Rest
  <2>3. QED  BY <1>1, <1>2, <1>3, <1>4, <2>1, <2>2, TodoKeeps
<1>8. CASE CountUsers(r)
  <2>1. PICK t \in {<<"done">>, << >>} :
          todo' = [todo EXCEPT ![r] = t] /\ (t = <<"done">> => users # {})
    BY <1>8 DEF CountUsers, Left
  <2>2. <<"done">> \in Rest(kind[r])  BY <1>5, <1>8 DEF CountUsers, AtStep, Rest
  <2>3. QED  BY <1>1, <1>2, <1>3, <1>4, <2>1, <2>2, TodoKeeps
<1>9. CASE SeekAdmin(r)
  <2>1. PICK t \in {Tail(todo[r]), << >>} :
          todo' = [todo EXCEPT ![r] = t] /\ (t # << >> /\ r \notin signed => users = {})
    BY <1>9 DEF SeekAdmin, Left
  <2>2. << >> \notin {<<"done">>, <<"token">>, <<"key">>}  OBVIOUS
  <2>3. t \notin {<<"done">>, <<"token">>, <<"key">>}  BY <2>1, <2>2, <1>5, Zenon
  <2>4. t = <<"create">> => t # << >>  OBVIOUS
  <2>5. QED  BY <1>1, <1>2, <1>3, <1>4, <1>5, <2>1, <2>3, <2>4, TodoKeeps
<1>10. QED  BY <1>6, <1>7, <1>8, <1>9

\* A value is written, or passed over.
LEMMA WriteKeeps ==
  ASSUME SettingsInv, NEW r \in Requests, Write(r)
  PROVE  SettingsInv'
<1> USE SettingsAssumption DEF SettingsInv
<1>1. PICK k \in Keys :
        /\ AtStep(r, k)
        /\ \/ store' = [store EXCEPT ![k] = r]
           \/ kind[r] = "save" /\ store' = store
           \/ kind[r] = "save" /\ k \notin Secrets /\ store' = [store EXCEPT ![k] = None]
  BY DEF Write
<1>2. /\ kind[r] # "config" /\ todo' = [todo EXCEPT ![r] = Tail(todo[r])]
      /\ UNCHANGED <<users, live, snap, kind, signed, overlap, crashed>>
  BY DEF Write, Left, Request
<1>3. /\ r \in live /\ todo[r] # << >> /\ Head(todo[r]) = k
      /\ kind[r] \in Kinds \cup {"new"} /\ kind[r] # "new" /\ todo[r] \in Rest(kind[r])
  BY <1>1 DEF AtStep, Typed, Progress
<1>4. /\ Tail(todo[r]) \in Rest(kind[r])
      /\ Tail(todo[r]) \notin {<<"done">>, <<"token">>, <<"create">>}
      /\ Tail(todo[r]) = <<"key">> => k = "user" /\ kind[r] = "kaggle"
      /\ kind[r] = "kaggle" /\ k = "user" => Tail(todo[r]) = <<"key">>
      /\ kind[r] = "kaggle" /\ k = "key" => todo[r] = <<"key">> /\ Tail(todo[r]) = << >>
      /\ k = "done" => todo[r] = <<"done">> /\ kind[r] = "models" /\ Tail(todo[r]) = << >>
      /\ k = "token" => todo[r] = <<"token">> /\ kind[r] = "tunnel"
  BY <1>1, <1>2, <1>3, NextStep DEF Keys
<1>5. k # "done" => store'["done"] = store["done"]  BY <1>1 DEF Typed, Keys
<1>6. Typed'
  <2>1. Tail(todo[r]) \in AnyRest  BY <1>3, <1>4 DEF AnyRest
  <2>2. QED  BY <1>1, <1>2, <2>1 DEF Typed, Values
<1>7. Progress'  BY <1>2, <1>3, <1>4 DEF Progress, Typed
<1>8. Written'  BY <1>1, <1>2, <1>3 DEF Written, Typed
<1>9. Mutual' /\ OneFirstAdministrator'  BY <1>2 DEF Mutual, OneFirstAdministrator
<1>10. Staffed'
  <2>1. SetupDone' => users # {}  BY <1>3, <1>4, <1>5 DEF Staffed, SetupDone, Typed
  <2>2. \A p \in Requests : todo'[p] = <<"done">> => users # {}
    BY <1>2, <1>4 DEF Staffed, Typed
  <2>3. QED  BY <2>1, <2>2, <1>2 DEF Staffed
<1>11. SeenMissing'
  <2> SUFFICES ASSUME NEW p \in live
      PROVE  /\ todo'[p] = <<"token">> /\ store'["token"] # None => store'["token"] \in overlap[p]
             /\ todo'[p] = <<"create">> /\ p \notin signed => users \subseteq overlap[p]
             /\ todo'[p] # << >> /\ p \notin signed /\ store'["done"] # None =>
                  store'["done"] \in overlap[p]
             /\ todo'[p] = <<"key">> => store'["user"] \in {p, None} \cup overlap[p]
    BY <1>2 DEF SeenMissing, SetupDone
  <2>1. p \in Requests /\ (p # r => r \in overlap[p] /\ todo'[p] = todo[p])
    BY <1>2, <1>3 DEF Typed, Mutual
  <2>2. store["done"] # None /\ k # "done" => store'["done"] = store["done"]
    BY <1>1 DEF Typed, Keys
  <2>3. k # "token" => store'["token"] = store["token"]  BY <1>1 DEF Typed, Keys
  <2>4. k = "token" => store'["token"] = r  BY <1>1, <1>4 DEF Typed, Keys
  <2>5. k = "done" => store'["done"] = r  BY <1>1, <1>4 DEF Typed, Keys
  <2>6. store'["user"] \in {store["user"], r, None}  BY <1>1 DEF Typed, Keys
  <2>7. k = "user" /\ kind[r] = "kaggle" => store'["user"] = r
    BY <1>1 DEF Typed, Keys
  <2>8. CASE p = r
    BY <2>8, <2>7, <1>2, <1>3, <1>4, <1>5 DEF SeenMissing, SetupDone, Typed
  <2>9. CASE p # r
    BY <2>9, <2>1, <2>3, <2>4, <2>5, <2>6, <1>5 DEF SeenMissing, SetupDone
  <2>10. QED  BY <2>8, <2>9
<1>12. TableTorn'
  <2> SUFFICES ASSUME ~crashed, NEW q \in Requests \cup {Old}, NEW p \in Requests \cup {Old},
                      store'["user"] = q, store'["key"] = p, q # p, Half(q), Half(p)
               PROVE  (q \in live /\ todo'[q] = <<"key">>) \/ Linked(q, p, q)
    BY <1>2 DEF TableTorn, Half, Linked
  <2>1. CASE k = "user" /\ q = r
    <3>1. kind[r] = "kaggle"  BY <2>1, SettingsAssumption DEF Half
    <3>2. QED  BY <3>1, <2>1, <1>2, <1>3, <1>4 DEF Typed
  <2>2. CASE k = "key" /\ p = r
    <3>1. kind[r] = "kaggle"  BY <2>2, SettingsAssumption DEF Half
    <3>2. store["user"] = q  BY <2>2, <1>1 DEF Typed, Keys
    <3>3. q \in {r, None} \cup overlap[r]  BY <3>1, <3>2, <2>2, <1>3, <1>4 DEF SeenMissing
    <3>4. QED  BY <3>3, <2>2, SettingsAssumption DEF Linked, Mutual, Typed
  <2>3. CASE store["user"] = q /\ store["key"] = p
    <3>1. (q \in live /\ todo[q] = <<"key">>) \/ Linked(q, p, q)
      BY <2>3 DEF TableTorn
    <3>2. CASE q = r /\ todo[r] = <<"key">>
      <4>1. kind[r] = "kaggle" /\ k = "key"  BY <3>2, <1>3, SettingsAssumption DEF Half
      <4>2. store'["key"] = r  BY <4>1, <1>1 DEF Typed, Keys
      <4>3. QED  BY <4>2, <3>2
    <3>3. QED  BY <3>1, <3>2, <1>2 DEF Typed
  <2>4. store' = store \/ store' = [store EXCEPT ![k] = r] \/ store' = [store EXCEPT ![k] = None]
    BY <1>1
  <2>5. QED  BY <2>1, <2>2, <2>3, <2>4, SettingsAssumption DEF Typed, Keys
<1>13. SnapTorn'
  <2> SUFFICES ASSUME ~crashed, NEW c \in Requests, kind[c] = "config",
                      NEW q \in Requests \cup {Old}, NEW p \in Requests \cup {Old}
      PROVE  /\ snap[c]["user"] = q /\ q # p /\ Half(q) /\ Half(p) =>
                  /\ todo'[c] = KeyUnread /\ store'["key"] = p => Linked(q, p, c)
                  /\ todo'[c] \notin {ConfigSteps, KeyUnread} /\ snap[c]["key"] = p =>
                       Linked(q, p, c)
             /\ snap[c]["user"] \in Requests => kind[snap[c]["user"]] # "new"
             /\ snap[c]["key"] \in Requests => kind[snap[c]["key"]] # "new"
    BY <1>2 DEF SnapTorn, Half, Linked
  <2>1. c # r /\ todo'[c] = todo[c]  BY <1>2 DEF Typed
  <2>2. CASE todo[c] = KeyUnread /\ store'["key"] = p /\ store["key"] # p
    <3>1. p = r  BY <2>2, <1>1, SettingsAssumption DEF Typed, Keys
    <3>2. c \in live
      <4>1. KeyUnread # << >>  BY DEF KeyUnread
      <4>2. QED  BY <4>1, <2>2 DEF Progress
    <3>3. c \in overlap[r]  BY <3>2, <2>1, <1>3 DEF Mutual
    <3>4. Linked(q, p, c)  BY <3>1, <3>3 DEF Linked
    <3>5. QED  BY <3>4, <2>1, <2>2 DEF SnapTorn
  <2>3. CASE todo[c] = KeyUnread /\ store'["key"] = p => store["key"] = p
    BY <2>1, <2>3 DEF SnapTorn
  <2>4. QED  BY <2>2, <2>3
<1>14. QED  BY <1>6, <1>7, <1>8, <1>9, <1>10, <1>11, <1>12, <1>13

\* Config reads one key.
LEMMA ReadKeeps ==
  ASSUME SettingsInv, NEW r \in Requests, ReadKey(r)
  PROVE  SettingsInv'
<1> USE DEF SettingsInv
<1>1. PICK k \in Keys : AtStep(r, k) /\ snap' = [snap EXCEPT ![r][k] = store[k]]
  BY DEF ReadKey
<1>2. /\ kind[r] = "config" /\ todo' = [todo EXCEPT ![r] = Tail(todo[r])]
      /\ UNCHANGED <<store, users, live, kind, signed, overlap, crashed>>
  BY DEF ReadKey, Left, Request
<1>3. /\ r \in live /\ todo[r] # << >> /\ Head(todo[r]) = k /\ todo[r] \in Rest(kind[r])
  BY <1>1 DEF AtStep, Progress
<1>4. /\ Tail(todo[r]) \in Rest(kind[r])
      /\ Tail(todo[r]) \notin {<<"done">>, <<"token">>, <<"create">>, <<"key">>, ConfigSteps}
      /\ k = "user" => todo[r] = ConfigSteps /\ Tail(todo[r]) = KeyUnread
      /\ todo[r] # <<"key">>
      /\ k = "key" => todo[r] = KeyUnread
      /\ Tail(todo[r]) = KeyUnread => k = "user"
  BY <1>1, <1>2, <1>3, NextStep DEF Keys, Kinds
<1>5. KeyUnread # ConfigSteps  BY DEF KeyUnread, ConfigSteps
<1>6. Typed'
  <2>1. Tail(todo[r]) \in AnyRest  BY <1>2, <1>4 DEF AnyRest, Kinds
  <2>2. store[k] \in Values  BY <1>1 DEF Typed
  <2>3. QED  BY <1>1, <1>2, <2>1, <2>2 DEF Typed
<1>7. Progress'
  <2>1. \A p \in Requests : kind[p] = "new" => snap'[p] = snap[p]  BY <1>1, <1>2 DEF Typed
  <2>2. QED  BY <1>2, <1>3, <1>4, <2>1 DEF Progress, Typed
<1>8. Written' /\ Mutual' /\ OneFirstAdministrator'
  BY <1>2 DEF Written, Mutual, OneFirstAdministrator
<1>9. Staffed'  BY <1>2, <1>4 DEF Staffed, SetupDone, Typed
<1>10. SeenMissing'  BY <1>2, <1>3, <1>4 DEF SeenMissing, SetupDone, Typed
<1>11. TableTorn'  BY <1>2, <1>4 DEF TableTorn, Half, Linked, Typed
<1>12. SnapTorn'
  <2> SUFFICES ASSUME ~crashed, NEW c \in Requests, kind[c] = "config",
                      NEW q \in Requests \cup {Old}, NEW p \in Requests \cup {Old}
      PROVE  /\ snap'[c]["user"] = q /\ q # p /\ Half(q) /\ Half(p) =>
                  /\ todo'[c] = KeyUnread /\ store["key"] = p => Linked(q, p, c)
                  /\ todo'[c] \notin {ConfigSteps, KeyUnread} /\ snap'[c]["key"] = p =>
                       Linked(q, p, c)
             /\ snap'[c]["user"] \in Requests => kind[snap'[c]["user"]] # "new"
             /\ snap'[c]["key"] \in Requests => kind[snap'[c]["key"]] # "new"
    <3>1. \A x : Half(x)' = Half(x)  BY <1>2 DEF Half
    <3>2. \A x, y, z : Linked(x, y, z)' = Linked(x, y, z)  BY <1>2 DEF Linked
    <3>3. QED  BY <3>1, <3>2, <1>2 DEF SnapTorn
  <2>1. CASE c # r
    <3>1. snap'[c] = snap[c] /\ todo'[c] = todo[c]  BY <2>1, <1>1, <1>2 DEF Typed
    <3>2. QED  BY <3>1 DEF SnapTorn
  <2>2. CASE c = r /\ k = "user"
    <3>1. /\ snap'[c]["user"] = store["user"] /\ snap'[c]["key"] = snap[c]["key"]
          /\ todo'[c] = KeyUnread
      BY <2>2, <1>1, <1>2, <1>4 DEF Typed, Keys
    <3>2. ASSUME store["user"] = q, store["key"] = p, q # p, Half(q), Half(p)
          PROVE  Linked(q, p, c)
      <4>1. CASE q \in live /\ todo[q] = <<"key">>
        <5>1. q # c  BY <4>1, <2>2, <1>2, <1>3 DEF Rest, ConfigSteps
        <5>2. c \in overlap[q] /\ q \in Requests  BY <5>1, <4>1, <2>2, <1>3 DEF Mutual, Typed
        <5>3. QED  BY <5>2 DEF Linked
      <4>2. CASE Linked(q, p, q)  BY <4>2 DEF Linked
      <4>3. QED  BY <3>2, <4>1, <4>2 DEF TableTorn
    <3>3. store["user"] \in Requests => kind[store["user"]] # "new"
      BY DEF Written, Keys
    <3>4. QED  BY <3>1, <3>2, <3>3 DEF SnapTorn
  <2>3. CASE c = r /\ k = "key"
    <3>1. /\ snap'[c]["user"] = snap[c]["user"] /\ snap'[c]["key"] = store["key"]
          /\ todo[c] = KeyUnread /\ todo'[c] # KeyUnread
      BY <2>3, <1>1, <1>2, <1>4 DEF Typed, Keys
    <3>2. store["key"] \in Requests => kind[store["key"]] # "new"
      BY DEF Written, Keys
    <3>3. QED  BY <3>1, <3>2, <2>3 DEF SnapTorn
  <2>4. CASE c = r /\ k \notin {"user", "key"}
    <3>1. snap'[c]["user"] = snap[c]["user"] /\ snap'[c]["key"] = snap[c]["key"]
      BY <2>4, <1>1 DEF Typed, Keys
    <3>2. todo[c] \notin {ConfigSteps, KeyUnread} /\ todo'[c] # KeyUnread
      BY <2>4, <1>2, <1>3, <1>4 DEF Typed, ConfigSteps, KeyUnread
    <3>3. QED  BY <3>1, <3>2 DEF SnapTorn
  <2>5. QED  BY <2>1, <2>2, <2>3, <2>4
<1>13. QED  BY <1>6, <1>7, <1>8, <1>9, <1>10, <1>11, <1>12

\* An account is created, by somebody signed in or by who saw none.
LEMMA CreateKeeps ==
  ASSUME SettingsInv, NEW r \in Requests, CreateUser(r)
  PROVE  SettingsInv'
<1> USE DEF SettingsInv
<1>1. /\ users' \in {users, users \cup {r}} /\ todo' = [todo EXCEPT ![r] = << >>]
      /\ UNCHANGED <<store, live, snap, kind, signed, overlap, crashed>>
  BY DEF CreateUser, Left, Request
<1>2. /\ r \in live /\ todo[r] # << >> /\ Head(todo[r]) = "create"
      /\ kind[r] \in Kinds \cup {"new"} /\ kind[r] # "new" /\ todo[r] \in Rest(kind[r])
  BY DEF CreateUser, AtStep, Typed, Progress
<1>3. todo[r] = <<"create">> /\ kind[r] = "admin"  BY <1>2, NextStep
<1>4. << >> \in Rest(kind[r]) /\ << >> \in AnyRest
  BY <1>3 DEF Rest, AnyRest, Kinds, Wizard
<1>5. << >> \notin {<<"done">>, <<"token">>, <<"create">>, <<"key">>}  OBVIOUS
<1>6. Typed'  BY <1>1, <1>4 DEF Typed
<1>7. Progress'  BY <1>1, <1>2, <1>4 DEF Progress, Typed
<1>8. Written' /\ Mutual'  BY <1>1 DEF Written, Mutual
<1>9. Staffed'  BY <1>1, <1>5 DEF Staffed, SetupDone, Typed
<1>10. SeenMissing'
  <2> SUFFICES ASSUME NEW p \in live
      PROVE  /\ todo'[p] = <<"token">> /\ store["token"] # None => store["token"] \in overlap[p]
             /\ todo'[p] = <<"create">> /\ p \notin signed => users' \subseteq overlap[p]
             /\ todo'[p] # << >> /\ p \notin signed /\ store["done"] # None =>
                  store["done"] \in overlap[p]
             /\ todo'[p] = <<"key">> => store["user"] \in {p, None} \cup overlap[p]
    BY <1>1 DEF SeenMissing, SetupDone
  <2>1. CASE p = r  BY <2>1, <1>1, <1>5 DEF Typed
  <2>2. CASE p # r
    <3>1. todo'[p] = todo[p] /\ r \in overlap[p]  BY <2>2, <1>1, <1>2 DEF Typed, Mutual
    <3>2. QED  BY <3>1, <1>1 DEF SeenMissing, SetupDone
  <2>3. QED  BY <2>1, <2>2
<1>11. OneFirstAdministrator'
  <2>1. CASE users' = users  BY <2>1, <1>1 DEF OneFirstAdministrator
  <2>2. CASE users' = users \cup {r} /\ r \in signed
    BY <2>2, <1>1 DEF OneFirstAdministrator
  <2>3. CASE users' = users \cup {r} /\ r \notin signed
    <3>1. users \subseteq overlap[r]  BY <2>3, <1>2, <1>3 DEF SeenMissing
    <3>2. \A p \in users : p \in Requests /\ r \in overlap[p]  BY <3>1 DEF Mutual, Typed
    <3>3. QED  BY <3>1, <3>2, <2>3, <1>1 DEF OneFirstAdministrator
  <2>4. QED  BY <2>1, <2>2, <2>3, <1>1
<1>12. TableTorn'  BY <1>1, <1>3, <1>5 DEF TableTorn, Half, Linked, Typed
<1>13. SnapTorn'  BY <1>1, <1>3 DEF SnapTorn, Half, Linked, Typed
<1>14. QED  BY <1>6, <1>7, <1>8, <1>9, <1>10, <1>11, <1>12, <1>13

\* Requests that end, by being answered or with the panel.
LEMMA EndKeeps ==
  ASSUME SettingsInv, Crash \/ \E r \in Requests : Answer(r)
  PROVE  SettingsInv'
<1> USE DEF SettingsInv
<1>1. CASE \E r \in Requests : Answer(r)
  <2>1. PICK r \in Requests : r \in live /\ todo[r] = << >> /\ live' = live \ {r}
    BY <1>1 DEF Answer
  <2>2. UNCHANGED <<store, users, todo, snap, kind, signed, overlap, crashed>>
    BY <1>1 DEF Answer, Request
  <2>3. << >> # <<"key">>  OBVIOUS
  <2>4. Typed' /\ Progress' /\ Written' /\ Mutual' /\ Staffed' /\ OneFirstAdministrator'
    BY <2>1, <2>2 DEF Typed, Progress, Written, Mutual, Staffed, SetupDone, OneFirstAdministrator
  <2>5. SeenMissing' /\ TableTorn' /\ SnapTorn'
    BY <2>1, <2>2, <2>3 DEF SeenMissing, SetupDone, TableTorn, SnapTorn, Half, Linked
  <2>6. QED  BY <2>4, <2>5
<1>2. CASE Crash
  <2>1. /\ live' = {} /\ crashed' = TRUE /\ todo' = [r \in Requests |-> << >>]
        /\ UNCHANGED <<store, users, kind, signed, snap, overlap>>
    BY <1>2 DEF Crash
  <2>2. \A k \in Kinds \cup {"new"} : << >> \in Rest(k)  BY DEF Rest
  <2>3. << >> \in AnyRest /\ << >> # <<"done">>  BY <2>2 DEF AnyRest, Kinds, Wizard
  <2>4. Typed'  BY <2>1, <2>3 DEF Typed
  <2>5. Progress'  BY <2>1, <2>2 DEF Progress, Typed
  <2>6. Written' /\ Mutual' /\ OneFirstAdministrator'
    BY <2>1 DEF Written, Mutual, OneFirstAdministrator
  <2>7. Staffed' /\ SeenMissing' /\ TableTorn' /\ SnapTorn'
    BY <2>1, <2>3 DEF Staffed, SeenMissing, SetupDone, TableTorn, SnapTorn
  <2>8. QED  BY <2>4, <2>5, <2>6, <2>7
<1>3. QED  BY <1>1, <1>2

\* A request is let in: it overlaps those that are live.
LEMMA AdmitKeeps ==
  ASSUME SettingsInv, NEW r \in Requests, Admit(r)
  PROVE  SettingsInv'
<1> USE SettingsAssumption DEF SettingsInv
<1>1. PICK k \in Kinds, s \in BOOLEAN :
        /\ Admitted(r, k, s) /\ kind' = [kind EXCEPT ![r] = k]
        /\ signed' = IF s THEN signed \cup {r} ELSE signed
        /\ todo' = [todo EXCEPT ![r] = Steps(k)]
  BY DEF Admit
<1>2. /\ kind[r] = "new" /\ live' = live \cup {r}
      /\ overlap' = [q \in Requests |-> IF q = r THEN live
                                        ELSE IF q \in live THEN overlap[q] \cup {r}
                                        ELSE overlap[q]]
      /\ UNCHANGED <<store, users, snap, crashed>>
  BY DEF Admit
<1>3. r \notin live /\ r \notin users /\ overlap[r] = {}  BY <1>2 DEF Progress
<1>4. Steps(k) \in Rest(k)
  BY DEF Steps, Rest, Kinds, Wizard
<1>5. Steps(k) \notin {<<"done">>, <<"token">>, <<"create">>, <<"key">>, KeyUnread}
  BY DEF Steps, AdminSteps, KaggleSteps, TunnelSteps, ModelsSteps, SaveSteps, ConfigSteps,
         KeyUnread, Kinds, Wizard
<1>6. k = "config" => Steps(k) = ConfigSteps  BY DEF Steps
<1>7. \A x \in Keys : store[x] # r  BY <1>2 DEF Written
<1>8. \A q \in Requests : overlap[q] \subseteq overlap'[q]  BY <1>2, <1>3 DEF Typed
<1>9. Typed'
  <2>1. Steps(k) \in AnyRest  BY <1>4 DEF AnyRest
  <2>2. overlap' \in [Requests -> SUBSET Requests]  BY <1>2 DEF Typed
  <2>3. QED  BY <1>1, <1>2, <2>1, <2>2 DEF Typed
<1>10. Progress'
  <2>1. "new" \notin Kinds  BY DEF Kinds, Wizard
  <2>2. QED  BY <1>1, <1>2, <1>4, <2>1 DEF Progress, Typed
<1>11. Written'
  <2>1. "new" \notin Kinds  BY DEF Kinds, Wizard
  <2>2. QED  BY <1>1, <1>2, <2>1 DEF Written, Typed
<1>12. Mutual'  BY <1>2, <1>3 DEF Mutual, Typed
<1>13. Staffed'  BY <1>1, <1>2, <1>5 DEF Staffed, SetupDone, Typed
<1>14. SeenMissing'
  <2> SUFFICES ASSUME NEW p \in live'
      PROVE  /\ todo'[p] = <<"token">> /\ store["token"] # None => store["token"] \in overlap'[p]
             /\ todo'[p] = <<"create">> /\ p \notin signed' => users \subseteq overlap'[p]
             /\ todo'[p] # << >> /\ p \notin signed' /\ store["done"] # None =>
                  store["done"] \in overlap'[p]
             /\ todo'[p] = <<"key">> => store["user"] \in {p, None} \cup overlap'[p]
    BY <1>2 DEF SeenMissing, SetupDone
  <2>1. CASE p = r
    <3>1. r \notin signed' => store["done"] = None
      BY <1>1 DEF Admitted, SetupDone
    <3>2. QED  BY <3>1, <2>1, <1>1, <1>5 DEF Typed
  <2>2. CASE p # r
    <3>1. p \in live /\ todo'[p] = todo[p] /\ (p \in signed' <=> p \in signed)
      BY <2>2, <1>1, <1>2 DEF Typed
    <3>2. overlap[p] \subseteq overlap'[p]  BY <3>1, <1>8 DEF Typed
    <3>3. QED  BY <3>1, <3>2 DEF SeenMissing, SetupDone
  <2>3. QED  BY <2>1, <2>2
<1>15. OneFirstAdministrator'
  <2>1. \A p \in users \ (signed' \cup {Old}) : p \in Requests /\ p \notin signed
    BY <1>1 DEF Typed
  <2>2. signed \subseteq signed'  BY <1>1
  <2>3. QED  BY <1>2, <1>8, <2>1, <2>2 DEF OneFirstAdministrator
<1>16. \A q, p, c \in Requests \cup {Old} : Linked(q, p, c) => Linked(q, p, c)'
  BY <1>8 DEF Linked
<1>17. \A q \in Requests \cup {Old} : q # r /\ Half(q)' => Half(q)
  BY <1>1 DEF Half, Typed
<1>18. TableTorn'
  <2> SUFFICES ASSUME ~crashed, NEW q \in Requests \cup {Old}, NEW p \in Requests \cup {Old},
                      store["user"] = q, store["key"] = p, q # p, Half(q)', Half(p)'
               PROVE  (q \in live' /\ todo'[q] = <<"key">>) \/ Linked(q, p, q)'
    BY <1>2 DEF TableTorn
  <2>1. q # r /\ p # r  BY <1>7 DEF Keys
  <2>2. Half(q) /\ Half(p)  BY <2>1, <1>17
  <2>3. (q \in live /\ todo[q] = <<"key">>) \/ Linked(q, p, q)  BY <2>2 DEF TableTorn
  <2>4. q \in live => todo'[q] = todo[q] /\ q \in live'  BY <2>1, <1>1, <1>2 DEF Typed
  <2>5. QED  BY <2>3, <2>4, <1>16
<1>19. SnapTorn'
  <2> SUFFICES ASSUME ~crashed, NEW c \in Requests, kind'[c] = "config",
                      NEW q \in Requests \cup {Old}, NEW p \in Requests \cup {Old}
      PROVE  /\ snap[c]["user"] = q /\ q # p /\ Half(q)' /\ Half(p)' =>
                  /\ todo'[c] = KeyUnread /\ store["key"] = p => Linked(q, p, c)'
                  /\ todo'[c] \notin {ConfigSteps, KeyUnread} /\ snap[c]["key"] = p =>
                       Linked(q, p, c)'
             /\ snap[c]["user"] \in Requests => kind'[snap[c]["user"]] # "new"
             /\ snap[c]["key"] \in Requests => kind'[snap[c]["key"]] # "new"
    BY <1>2 DEF SnapTorn
  <2>1. \A x \in Requests : kind[x] # "new" => kind'[x] # "new"
    BY <1>1, <1>2 DEF Typed
  <2>2. CASE c # r
    <3>1. kind[c] = "config" /\ todo'[c] = todo[c]  BY <2>2, <1>1 DEF Typed
    <3>2. snap[c]["user"] # r /\ snap[c]["key"] # r  BY <3>1, <1>2 DEF SnapTorn
    <3>3. store["key"] # r  BY <1>7 DEF Keys
    <3>4. QED  BY <3>1, <3>2, <3>3, <2>1, <1>16, <1>17 DEF SnapTorn
  <2>3. CASE c = r
    <3>1. snap[c]["user"] = None /\ snap[c]["key"] = None  BY <2>3, <1>2 DEF Progress
    <3>2. QED  BY <3>1
  <2>4. QED  BY <2>2, <2>3
<1>20. QED  BY <1>9, <1>10, <1>11, <1>12, <1>13, <1>14, <1>15, <1>18, <1>19

-----------------------------------------------------------------------------
(* The theorems *)

LEMMA SettingsInvariant == Spec => []SettingsInv
<1>1. Init => SettingsInv
  <2> SUFFICES ASSUME Init PROVE SettingsInv  OBVIOUS
  <2> USE SettingsAssumption DEF Init
  <2>1. << >> \in AnyRest /\ << >> \in Rest("new")  BY DEF AnyRest, Rest, Kinds, Wizard
  <2>2. Typed  BY <2>1 DEF Typed, Values
  <2>3. Progress  BY <2>1 DEF Progress, Keys
  <2>4. << >> # <<"done">>  OBVIOUS
  <2>5. Written /\ Mutual /\ Staffed /\ SeenMissing
    BY <2>4 DEF Written, Mutual, Staffed, SetupDone, SeenMissing, Keys
  <2>6. TableTorn /\ SnapTorn /\ OneFirstAdministrator
    BY DEF TableTorn, SnapTorn, OneFirstAdministrator, Half, Keys
  <2>7. QED  BY <2>2, <2>3, <2>5, <2>6 DEF SettingsInv
<1>2. SettingsInv /\ [Next]_vars => SettingsInv'
  <2> SUFFICES ASSUME SettingsInv, [Next]_vars PROVE SettingsInv'  OBVIOUS
  <2>1. ASSUME NEW r \in Requests, Admit(r) PROVE SettingsInv'  BY <2>1, AdmitKeeps
  <2>2. ASSUME NEW r \in Requests, RequestStep(r) PROVE SettingsInv'
    BY <2>2, WriteKeeps, ReadKeeps, CheckKeeps, CreateKeeps, EndKeeps DEF RequestStep
  <2>3. CASE Crash  BY <2>3, EndKeeps
  <2>4. CASE UNCHANGED vars
    <3>1. Typed' /\ Progress' /\ Written' /\ Mutual' /\ Staffed' /\ SeenMissing'
      BY <2>4 DEF vars, SettingsInv, Typed, Progress, Written, Mutual, Staffed, SetupDone,
                  SeenMissing
    <3>2. TableTorn' /\ SnapTorn' /\ OneFirstAdministrator'
      <4>1. \A x : Half(x)' = Half(x)  BY <2>4 DEF vars, Half
      <4>2. \A x, y, z : Linked(x, y, z)' = Linked(x, y, z)  BY <2>4 DEF vars, Linked
      <4>3. QED  BY <4>1, <4>2, <2>4
                 DEF vars, SettingsInv, TableTorn, SnapTorn, OneFirstAdministrator
    <3>3. QED  BY <3>1, <3>2 DEF SettingsInv
  <2>5. QED  BY <2>1, <2>2, <2>3, <2>4 DEF Next
<1>3. QED  BY <1>1, <1>2, PTL DEF Spec

\* Two first administrators are made by requests that overlap, or not at all.
THEOREM FirstAdministrator == Spec => []OneFirstAdministrator
BY SettingsInvariant, PTL DEF SettingsInv

\* Requests that do not overlap never leave a Config with one account's name
\* and another's key.
THEOREM TornOnlyByOverlap == Spec => []ConfigTornByOverlap
<1>1. SettingsInv => ConfigTornByOverlap
  <2> SUFFICES ASSUME SettingsInv, NEW r \in Requests, kind[r] = "config", todo[r] = << >>,
                      ~crashed, NEW q \in Requests \cup {Old}, NEW p \in Requests \cup {Old},
                      Torn(snap[r], q, p)
               PROVE  \E o \in {q, p} \cap Requests : overlap[o] \cap {q, p, r} # {}
    BY DEF ConfigTornByOverlap
  <2>1. snap[r]["user"] = q /\ snap[r]["key"] = p /\ q # p /\ Half(q) /\ Half(p)
    BY DEF Torn, Half
  <2>2. todo[r] \notin {ConfigSteps, KeyUnread}  BY DEF ConfigSteps, KeyUnread
  <2>3. QED  BY <2>1, <2>2 DEF SettingsInv, SnapTorn, Linked
<1>2. QED  BY <1>1, SettingsInvariant, PTL

\* A kernel's token is only replaced by a save of the tunnel that overlapped
\* the one that made it.
THEOREM TokenKept == Spec => TokenIsKept
<1>1. SettingsInv /\ [Next]_vars =>
        [store["token"] # None /\ store'["token"] # store["token"] =>
           \E r \in Requests : store'["token"] = r /\ store["token"] \in overlap[r]]_vars
  <2> SUFFICES ASSUME SettingsInv, Next, store["token"] # None,
                      store'["token"] # store["token"]
               PROVE  \E r \in Requests : store'["token"] = r /\ store["token"] \in overlap[r]
    BY DEF vars
  <2>1. PICK r \in Requests : Write(r)
    BY DEF Next, Admit, RequestStep, ReadKey, Verify, CheckToken, CountUsers, SeekAdmin,
           CreateUser, Answer, Crash
  <2>2. PICK k \in Keys :
          /\ AtStep(r, k)
          /\ \/ store' = [store EXCEPT ![k] = r]
             \/ kind[r] = "save" /\ store' = store
             \/ kind[r] = "save" /\ k \notin Secrets /\ store' = [store EXCEPT ![k] = None]
    BY <2>1 DEF Write
  <2>3. k = "token"  BY <2>2 DEF SettingsInv, Typed, Keys
  <2>4. todo[r] = <<"token">> /\ kind[r] = "tunnel" /\ r \in live
    BY <2>1, <2>2, <2>3, NextStep DEF Write, AtStep, SettingsInv, Progress, Typed
  <2>5. store'["token"] = r  BY <2>2, <2>3, <2>4 DEF SettingsInv, Typed, Keys
  <2>6. QED  BY <2>4, <2>5 DEF SettingsInv, SeenMissing
<1>2. QED  BY <1>1, SettingsInvariant, PTL DEF Spec, TokenIsKept

\* After setup, strangers change nothing unless they came before its end.
THEOREM StrangersShutOut == Spec => StrangersAreShutOut
<1>1. SettingsInv /\ [Next]_vars =>
        [\A r \in Requests \ signed :
           RequestStep(r) /\ SetupDone /\ <<store, users>>' # <<store, users>> =>
             store["done"] \in overlap[r]]_vars
  <2> SUFFICES ASSUME SettingsInv, NEW r \in Requests \ signed, RequestStep(r), SetupDone,
                      <<store, users>>' # <<store, users>>
               PROVE  store["done"] \in overlap[r]
    OBVIOUS
  <2>1. r \in live /\ todo[r] # << >>
    BY DEF RequestStep, Write, ReadKey, Verify, CheckToken, CountUsers, SeekAdmin, CreateUser,
           Answer, AtStep
  <2>2. QED  BY <2>1 DEF SettingsInv, SeenMissing
<1>2. QED  BY <1>1, SettingsInvariant, PTL DEF Spec, StrangersAreShutOut

\* Every variable keeps its range; no list of steps is longer than Config's.
THEOREM SettingsTypeCorrect == Spec => []TypeOK
<1>1. Spec => [](crashed \in BOOLEAN)
  <2>1. Init => crashed \in BOOLEAN  BY Zenon DEF Init
  <2>2. crashed \in BOOLEAN /\ [Next]_vars => (crashed \in BOOLEAN)'
    BY Zenon DEF Next, vars, Admit, RequestStep, Write, ReadKey, Verify, CheckToken,
                 CountUsers, SeekAdmin, CreateUser, Answer, Crash, Request
  <2>3. QED  BY <2>1, <2>2, PTL DEF Spec
<1>2. SettingsInv /\ crashed \in BOOLEAN => TypeOK
  <2> SUFFICES ASSUME SettingsInv, crashed \in BOOLEAN PROVE TypeOK  OBVIOUS
  <2>1. ASSUME NEW r \in Requests PROVE Len(todo[r]) <= Len(ConfigSteps)
    <3>1. Len(ConfigSteps) = 6  BY DEF ConfigSteps
    <3>2. CASE todo[r] = << >>  BY <3>1, <3>2
    <3>3. CASE todo[r] # << >>
      <4>1. kind[r] \in Kinds \cup {"new"} /\ todo[r] \in Rest(kind[r])
        BY DEF SettingsInv, Typed, Progress
      <4>2. QED  BY <3>1, <3>3, <4>1, NextStep
    <3>4. QED  BY <3>2, <3>3
  <2>2. \A r \in Requests : overlap[r] \in SUBSET (Requests \ {r})
    BY DEF SettingsInv, Typed, Mutual
  <2>3. crashed \in BOOLEAN  OBVIOUS
  <2>4. QED  BY <2>1, <2>2, <2>3, Zenon DEF SettingsInv, Typed, TypeOK
<1>3. QED  BY <1>1, <1>2, SettingsInvariant, PTL

\* The panel's requests, interleaved query by query and cut off by a crash,
\* implement the abstract Onboarding.
THEOREM SettingUpGoesForward == Spec => SetupGoesForward
<1>1. Init => Setup!OnboardingInit
  BY SettingsAssumption DEF Init, Setup!OnboardingInit, SetupDone, Keys
<1>2. SettingsInv /\ [Next]_vars => [Setup!Join \/ Setup!Finish]_<<users, SetupDone>>
  <2> SUFFICES ASSUME SettingsInv, [Next]_vars
               PROVE  Setup!Join \/ Setup!Finish \/ (users' = users /\ SetupDone' = SetupDone)
    OBVIOUS
  <2>1. ASSUME NEW r \in Requests, Write(r)
        PROVE  Setup!Finish \/ (users' = users /\ SetupDone' = SetupDone)
    <3>1. PICK k \in Keys :
            /\ AtStep(r, k)
            /\ \/ store' = [store EXCEPT ![k] = r]
               \/ kind[r] = "save" /\ store' = store
               \/ kind[r] = "save" /\ k \notin Secrets /\ store' = [store EXCEPT ![k] = None]
      BY <2>1 DEF Write
    <3>2. users' = users  BY <2>1 DEF Write
    <3>3. CASE k # "done"
      <4>1. store'["done"] = store["done"]  BY <3>1, <3>3 DEF SettingsInv, Typed, Keys
      <4>2. QED  BY <4>1, <3>2 DEF SetupDone
    <3>4. CASE k = "done"
      <4>1. todo[r] = <<"done">> /\ kind[r] = "models"
        BY <2>1, <3>1, <3>4, NextStep DEF Write, AtStep, SettingsInv, Progress, Typed
      <4>2. store'["done"] = r  BY <3>1, <3>4, <4>1 DEF SettingsInv, Typed, Keys
      <4>3. users # {}  BY <4>1 DEF SettingsInv, Staffed
      <4>4. SetupDone' = TRUE  BY <4>2, SettingsAssumption DEF SetupDone
      <4>5. QED  BY <3>2, <4>3, <4>4 DEF Setup!Finish
    <3>5. QED  BY <3>3, <3>4
  <2>2. ASSUME NEW r \in Requests, CreateUser(r)
        PROVE  Setup!Join \/ (users' = users /\ SetupDone' = SetupDone)
    BY <2>2 DEF CreateUser, Setup!Join, SetupDone
  <2>3. ASSUME NEW r \in Requests,
               Admit(r) \/ ReadKey(r) \/ Verify(r) \/ CheckToken(r) \/ CountUsers(r)
                 \/ SeekAdmin(r) \/ Answer(r)
        PROVE  users' = users /\ SetupDone' = SetupDone
    BY <2>3 DEF Admit, ReadKey, Verify, CheckToken, CountUsers, SeekAdmin, Answer, SetupDone
  <2>4. CASE Crash \/ UNCHANGED vars  BY <2>4 DEF Crash, vars, SetupDone
  <2>5. QED  BY <2>1, <2>2, <2>3, <2>4 DEF Next, RequestStep
<1>3. QED
  BY <1>1, <1>2, SettingsInvariant, PTL DEF Spec, SetupGoesForward, Setup!OnboardingSpec

=============================================================================
