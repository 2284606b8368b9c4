------------------------ MODULE KernelLifecycleProofs ------------------------
(***************************************************************************)
(* What is proved of KernelLifecycle, for any number of callers, stoppers, *)
(* sessions and restarts.                                                  *)
(***************************************************************************)
EXTENDS KernelLifecycle, TLAPS

-----------------------------------------------------------------------------
(* Type correctness *)

\* A start that has recorded its session holds the id of a row. The invariant
\* needs this: readied only gets rows because of it.
HoldsRow == \A c \in Callers : pc[c] \in {"note", "poll"} => row[c] \in Rows

TypeInv == TypeOK /\ HoldsRow

\* A step of a call to EnsureReady keeps every variable in its type.
LEMMA CallerTyped ==
  ASSUME TypeInv, NEW c \in Callers, LookStep(c) \/ GiveUp(c) \/ StartStep(c)
  PROVE  TypeInv'
<1> USE ActorsAssumption, BoundsAssumption
<1> USE DEF TypeInv, HoldsRow, TypeOK, Rows, Reasons, Channels, StartPcs, CallerStays, kernelVars, callerVars,
            stopVars, storeVars, remoteVars
<1>1. CASE FindReady(c)  BY <1>1 DEF FindReady
<1>2. CASE FindStarting(c)  BY <1>2 DEF FindStarting
<1>3. CASE FindStopping(c)  BY <1>3 DEF FindStopping
<1>4. CASE Refuse(c)  BY <1>4 DEF Refuse
<1>5. CASE GiveUp(c)  BY <1>5 DEF GiveUp
<1>6. CASE BeginStart(c)  BY <1>6 DEF BeginStart
<1>7. CASE Push(c)
  <2>1. booting' \in BOOLEAN
    BY <1>7, Zenon DEF Push
  <2>2. pc' = [pc EXCEPT ![c] = "record"] \/ pc' = [pc EXCEPT ![c] = "lost"]
    BY <1>7, Zenon DEF Push
  <2>3. QED  BY <1>7, <2>1, <2>2 DEF Push
<1>8. CASE Record(c)
  <2>1. ASSUME NEW s \in Rows, book' = [book EXCEPT ![s] = "open"], row' = [row EXCEPT ![c] = s],
               pc' = [pc EXCEPT ![c] = "note"]
        PROVE  TypeInv'
    BY <1>8, <2>1 DEF Record
  <2>2. ASSUME UNCHANGED <<book, row>>, pc' = [pc EXCEPT ![c] = "lost"]
        PROVE  TypeInv'
    BY <1>8, <2>2 DEF Record
  <2>3. QED  BY <1>8, <2>1, <2>2 DEF Record
<1>9. CASE Note(c)  BY <1>9 DEF Note
<1>10. CASE PollAnswered(c)  BY <1>10 DEF PollAnswered
<1>11. CASE PollExpires(c)  BY <1>11 DEF PollExpires
<1>12. CASE PublishReady(c)  BY <1>12 DEF PublishReady, ReleaseWaiters
<1>13. CASE PublishFailure(c)  BY <1>13 DEF PublishFailure, ReleaseWaiters
<1>14. CASE BookFailure(c)  BY <1>14 DEF BookFailure, Finish
<1>15. QED  BY <1>1, <1>2, <1>3, <1>4, <1>5, <1>6, <1>7, <1>8, <1>9, <1>10, <1>11, <1>12, <1>13, <1>14 DEF LookStep, StartStep

\* A step of Stop or of Supervise keeps every variable in its type.
LEMMA StopperTyped ==
  ASSUME TypeInv,
         SuperviseStep \/ \E p \in StopProcs : PressStop(p) \/ FinishStop(p)
  PROVE  TypeInv'
<1> USE ActorsAssumption, BoundsAssumption
<1> USE DEF TypeInv, HoldsRow, TypeOK, Rows, Reasons, Channels, StartPcs, StopProcs, StopperStays, kernelVars,
            callerVars, stopVars, storeVars, remoteVars
<1>1. ASSUME NEW p \in StopProcs, EnterStop(p)  PROVE TypeInv'  BY <1>1 DEF EnterStop
<1>2. ASSUME NEW p \in StopProcs, Settle(p)  PROVE TypeInv'  BY <1>2 DEF Settle
<1>3. ASSUME NEW p \in StopProcs, AbandonStop(p)  PROVE TypeInv'  BY <1>3 DEF AbandonStop
<1>4. ASSUME NEW p \in StopProcs, BookStop(p)  PROVE TypeInv'  BY <1>4 DEF BookStop, Finish
<1>5. CASE Tick  BY <1>5 DEF Tick
<1>6. CASE ProbeFails  BY <1>6 DEF ProbeFails
<1>7. CASE ProbeAnswered  BY <1>7 DEF ProbeAnswered
<1>8. CASE KeepRunning  BY <1>8 DEF KeepRunning
<1>9. QED
  BY <1>1, <1>2, <1>3, <1>4, <1>5, <1>6, <1>7, <1>8
  DEF SuperviseStep, SuperviseStop, PressStop, FinishStop

\* A step of the panel process or of Kaggle keeps every variable in its type.
LEMMA WorldTyped ==
  ASSUME TypeInv, StartPanel \/ SigTerm \/ EndPanel \/ KernelBoots \/ KernelEnds
  PROVE  TypeInv'
<1> USE ActorsAssumption, BoundsAssumption
<1> USE DEF TypeInv, HoldsRow, TypeOK, Rows, Reasons, Channels, StartPcs, kernelVars, callerVars, stopVars,
            storeVars, remoteVars
<1>1. CASE StartPanel
  BY <1>1 DEF StartPanel, AdoptNothing, AdoptLost, AdoptLive, IsLatestOpen, Finish
<1>2. CASE SigTerm  BY <1>2 DEF SigTerm
<1>3. CASE EndPanel  BY <1>3 DEF EndPanel, LoseMemory
<1>4. CASE KernelBoots  BY <1>4 DEF KernelBoots
<1>5. CASE KernelEnds  BY <1>5 DEF KernelEnds
<1>6. QED  BY <1>1, <1>2, <1>3, <1>4, <1>5

\* The inductive invariant behind TypeCorrect.
LEMMA TypeInvariant == Spec => []TypeInv
<1>1. Init => TypeInv
  <2> SUFFICES ASSUME Init  PROVE TypeInv
    OBVIOUS
  <2>1. sessionID \in 0..MaxSessions /\ restarts \in 0..MaxRestarts
    BY BoundsAssumption DEF Init
  <2>2. /\ row \in [Callers -> 0..MaxSessions]
        /\ stopID \in [StopProcs -> 0..MaxSessions]
    BY BoundsAssumption DEF Init
  <2>3. QED  BY <2>1, <2>2 DEF Init, TypeInv, HoldsRow, TypeOK, StartPcs, Channels
<1>2. TypeInv /\ [Next]_vars => TypeInv'
  <2> SUFFICES ASSUME TypeInv, [Next]_vars  PROVE TypeInv'
    OBVIOUS
  <2>1. CASE UNCHANGED vars
    BY <2>1 DEF vars, kernelVars, callerVars, stopVars, storeVars, remoteVars, TypeInv,
          HoldsRow, TypeOK
  <2>2. CASE Next
    BY <2>2, CallerTyped, StopperTyped, WorldTyped DEF Next
  <2>3. QED  BY <2>1, <2>2
<1>3. QED  BY <1>1, <1>2, PTL DEF Spec

\* Every variable keeps its type in every behaviour of the kernel.
THEOREM TypeCorrect == Spec => []TypeOK
<1>1. TypeInv => TypeOK  BY DEF TypeInv
<1>2. QED  BY <1>1, TypeInvariant, PTL

-----------------------------------------------------------------------------
(* Nobody waits for a start that no one performs *)

\* What a caller waits for is a start in progress, unless it was released ...
WaitsForStart == \A w \in Callers : wait[w] \in Callers => InStart(wait[w])

\* ... and it never waits on the nil channel.
WaitsForSomething == \A w \in Callers : pc[w] = "wait" => wait[w] # NoChan

WakeInv == StartingHasOwner /\ WaitsForStart /\ WaitsForSomething

\* A call that looks at the state, waits for it or gives up keeps WakeInv.
LEMMA LookWakes ==
  ASSUME TypeOK, WakeInv, NEW c \in Callers, LookStep(c) \/ GiveUp(c)
  PROVE  WakeInv'
<1> USE ActorsAssumption
<1> USE DEF TypeOK, WakeInv, StartingHasOwner, WaitsForStart, WaitsForSomething, InStart,
            StartPcs, Channels, kernelVars, callerVars, stopVars, storeVars, remoteVars, AtHead, CallerStays
<1>1. CASE FindReady(c)  BY <1>1 DEF FindReady
<1>2. CASE FindStarting(c)  BY <1>2 DEF FindStarting
<1>3. CASE FindStopping(c)  BY <1>3 DEF FindStopping
<1>4. CASE Refuse(c)  BY <1>4 DEF Refuse
<1>5. CASE GiveUp(c)  BY <1>5 DEF GiveUp
<1>6. CASE BeginStart(c)  BY <1>6 DEF BeginStart
<1>7. QED  BY <1>1, <1>2, <1>3, <1>4, <1>5, <1>6 DEF LookStep

\* A step of a start keeps WakeInv: before it leaves, it releases its waiters.
LEMMA StartWakes ==
  ASSUME TypeOK, WakeInv, NEW c \in Callers, StartStep(c)
  PROVE  WakeInv'
<1> USE ActorsAssumption
<1> USE DEF TypeOK, WakeInv, StartingHasOwner, WaitsForStart, WaitsForSomething, InStart,
            StartPcs, Channels, kernelVars, callerVars, stopVars, storeVars, remoteVars, CallerStays
<1>1. CASE Push(c)  BY <1>1 DEF Push
<1>2. CASE Record(c)  BY <1>2 DEF Record
<1>3. CASE Note(c)  BY <1>3 DEF Note
<1>4. CASE PollAnswered(c)  BY <1>4 DEF PollAnswered
<1>5. CASE PollExpires(c)  BY <1>5 DEF PollExpires
<1>6. CASE PublishReady(c)  BY <1>6 DEF PublishReady, ReleaseWaiters
<1>7. CASE PublishFailure(c)  BY <1>7 DEF PublishFailure, ReleaseWaiters
<1>8. CASE BookFailure(c)  BY <1>8 DEF BookFailure
<1>9. QED  BY <1>1, <1>2, <1>3, <1>4, <1>5, <1>6, <1>7, <1>8 DEF StartStep

\* Stop and Supervise never make the kernel "starting" and touch no caller.
LEMMA StopperWakes ==
  ASSUME TypeOK, WakeInv,
         SuperviseStep \/ \E p \in StopProcs : PressStop(p) \/ FinishStop(p)
  PROVE  WakeInv'
<1> USE DEF WakeInv, StartingHasOwner, WaitsForStart, WaitsForSomething, InStart,
            StopperStays, callerVars
<1>1. ASSUME NEW p \in StopProcs, EnterStop(p)  PROVE WakeInv'  BY <1>1 DEF EnterStop
<1>2. ASSUME NEW p \in StopProcs, Settle(p)  PROVE WakeInv'  BY <1>2 DEF Settle
<1>3. ASSUME NEW p \in StopProcs, AbandonStop(p)  PROVE WakeInv'  BY <1>3 DEF AbandonStop
<1>4. ASSUME NEW p \in StopProcs, BookStop(p)  PROVE WakeInv'  BY <1>4 DEF BookStop
<1>5. CASE Tick  BY <1>5 DEF Tick
<1>6. CASE ProbeFails  BY <1>6 DEF ProbeFails
<1>7. CASE ProbeAnswered  BY <1>7 DEF ProbeAnswered
<1>8. CASE KeepRunning  BY <1>8 DEF KeepRunning
<1>9. QED
  BY <1>1, <1>2, <1>3, <1>4, <1>5, <1>6, <1>7, <1>8
  DEF SuperviseStep, SuperviseStop, PressStop, FinishStop, StopProcs

\* The panel process resets everything at once; Kaggle touches none of it.
LEMMA WorldWakes ==
  ASSUME TypeOK, WakeInv, StartPanel \/ SigTerm \/ EndPanel \/ KernelBoots \/ KernelEnds
  PROVE  WakeInv'
<1> USE ActorsAssumption
<1> USE DEF WakeInv, StartingHasOwner, WaitsForStart, WaitsForSomething, InStart, StartPcs,
            kernelVars, callerVars
<1>1. CASE StartPanel
  BY <1>1 DEF StartPanel, AdoptNothing, AdoptLost, AdoptLive
<1>2. CASE SigTerm  BY <1>2 DEF SigTerm
<1>3. CASE EndPanel  BY <1>3 DEF EndPanel, LoseMemory
<1>4. CASE KernelBoots  BY <1>4 DEF KernelBoots
<1>5. CASE KernelEnds  BY <1>5 DEF KernelEnds
<1>6. QED  BY <1>1, <1>2, <1>3, <1>4, <1>5

\* The inductive invariant behind the two theorems that follow.
LEMMA WakeInvariant == Spec => []WakeInv
<1>1. Init => WakeInv
  BY ActorsAssumption DEF Init, WakeInv, StartingHasOwner, WaitsForStart, WaitsForSomething
<1>2. TypeOK /\ WakeInv /\ [Next]_vars => WakeInv'
  <2> SUFFICES ASSUME TypeOK, WakeInv, [Next]_vars  PROVE WakeInv'
    OBVIOUS
  <2>1. CASE UNCHANGED vars
    BY <2>1 DEF vars, kernelVars, callerVars, WakeInv, StartingHasOwner, WaitsForStart,
                WaitsForSomething, InStart
  <2>2. CASE Next
    BY <2>2, LookWakes, StartWakes, StopperWakes, WorldWakes DEF Next
  <2>3. QED  BY <2>1, <2>2
<1>3. QED  BY <1>1, <1>2, TypeCorrect, PTL DEF Spec

\* A kernel that is starting has somebody starting it, in every behaviour.
THEOREM StartingOwned == Spec => []StartingHasOwner
<1>1. WakeInv => StartingHasOwner  BY DEF WakeInv
<1>2. QED  BY <1>1, WakeInvariant, PTL

\* EnsureReady never blocks on a channel that nobody will close.
THEOREM WaitersReleasable == Spec => []WaiterNotStranded
<1>1. TypeOK /\ WakeInv => WaiterNotStranded
  BY DEF TypeOK, WakeInv, WaitsForStart, WaitsForSomething, WaiterNotStranded, Channels
<1>2. QED  BY <1>1, TypeCorrect, WakeInvariant, PTL

-----------------------------------------------------------------------------
(* kernel_sessions is a ledger *)

\* FinishKernelSession closes an open row or does nothing.
LEMMA FinishCloses ==
  ASSUME NEW s, NEW r \in Reasons, Finish(s, r)
  PROVE  [Ledger!LedgerNext]_book
<1>1. CASE s \in Rows /\ book[s] = "open"
  BY <1>1 DEF Finish, Rows, Ledger!LedgerNext, Ledger!CloseRow, Ledger!Rows
<1>2. CASE ~(s \in Rows /\ book[s] = "open")
  BY <1>2 DEF Finish
<1>3. QED  BY <1>1, <1>2

\* Every step of the lifecycle is a step of the ledger or leaves it alone.
LEMMA StepKeepsLedger == Next => [Ledger!LedgerNext]_book
<1> SUFFICES ASSUME Next  PROVE [Ledger!LedgerNext]_book
  OBVIOUS
<1> USE DEF storeVars
<1>1. ASSUME NEW c \in Callers, LookStep(c) \/ GiveUp(c)
      PROVE  UNCHANGED book
  BY <1>1 DEF LookStep, GiveUp, FindReady, FindStarting, FindStopping, Refuse, BeginStart
<1>2. ASSUME NEW c \in Callers, Record(c)
      PROVE  [Ledger!LedgerNext]_book
  BY <1>2 DEF Record, IsNextRow, Rows, Ledger!LedgerNext, Ledger!OpenRow, Ledger!IsNextRow,
              Ledger!Rows
<1>3. ASSUME NEW c \in Callers, BookFailure(c)
      PROVE  [Ledger!LedgerNext]_book
  BY <1>3, FinishCloses DEF BookFailure, Reasons
<1>4. ASSUME NEW c \in Callers,
             \/ Push(c) \/ Note(c) \/ PollAnswered(c) \/ PollExpires(c)
             \/ PublishReady(c) \/ PublishFailure(c)
      PROVE  UNCHANGED book
  BY <1>4 DEF Push, Note, PollAnswered, PollExpires, PublishReady, PublishFailure
<1>5. ASSUME NEW p \in StopProcs, BookStop(p)
      PROVE  [Ledger!LedgerNext]_book
  BY <1>5, FinishCloses DEF BookStop, Reasons
<1>6. ASSUME NEW p \in StopProcs, EnterStop(p) \/ Settle(p) \/ AbandonStop(p)
      PROVE  UNCHANGED book
  BY <1>6 DEF EnterStop, Settle, AbandonStop
<1>7. CASE Tick \/ ProbeFails \/ ProbeAnswered \/ KeepRunning
  BY <1>7 DEF Tick, ProbeFails, ProbeAnswered, KeepRunning
<1>8. CASE StartPanel
  BY <1>8, FinishCloses DEF StartPanel, AdoptNothing, AdoptLost, AdoptLive, Reasons
<1>9. CASE SigTerm \/ EndPanel \/ KernelBoots \/ KernelEnds
  BY <1>9 DEF SigTerm, EndPanel, LoseMemory, KernelBoots, KernelEnds
<1>10. QED
  BY <1>1, <1>2, <1>3, <1>4, <1>5, <1>6, <1>7, <1>8, <1>9
  DEF Next, StartStep, SuperviseStep, SuperviseStop, PressStop, FinishStop, StopProcs

\* However calls, stops, probes and restarts interleave, a billed session is
\* opened once, closed at most once, and never rewritten.
THEOREM LedgerKept == Spec => IsLedger
<1>1. Init => Ledger!LedgerInit
  BY DEF Init, Ledger!LedgerInit, Rows, Ledger!Rows
<1>2. [Next]_vars => [Ledger!LedgerNext]_book
  <2>1. UNCHANGED vars => UNCHANGED book
    BY DEF vars, storeVars
  <2>2. QED  BY <2>1, StepKeepsLedger
<1>3. QED  BY <1>1, <1>2, PTL DEF Spec, IsLedger, Ledger!LedgerSpec

-----------------------------------------------------------------------------
(* The rest of the panel sees what KernelView says *)

\* While the panel is down nobody is anywhere, and it remembers nothing.
NobodyWhenDown ==
  panel = "down" => /\ state = "stopped"
                    /\ \A c \in Callers : pc[c] = "idle" /\ wait[c] = NoChan
                    /\ \A p \in StopProcs : stopPc[p] = "idle"

\* The inductive invariant behind ViewShown.
LEMMA DownInvariant == Spec => []NobodyWhenDown
<1>1. Init => NobodyWhenDown  BY DEF Init, NobodyWhenDown
<1>2. TypeOK /\ NobodyWhenDown /\ [Next]_vars => NobodyWhenDown'
  <2> SUFFICES ASSUME TypeOK, NobodyWhenDown, [Next]_vars PROVE NobodyWhenDown'  OBVIOUS
  <2> USE DEF NobodyWhenDown
  <2>1. CASE UNCHANGED vars
    BY <2>1 DEF vars, kernelVars, callerVars, stopVars
  <2>2. ASSUME NEW c \in Callers, LookStep(c) \/ GiveUp(c) \/ StartStep(c)
        PROVE  NobodyWhenDown'
    <3>1. panel # "down"
      BY <2>2, ActorsAssumption
      DEF LookStep, GiveUp, StartStep, FindReady, FindStarting, FindStopping, Refuse, BeginStart,
          AtHead, Push, Record, Note, PollAnswered, PollExpires, PublishReady, PublishFailure,
          BookFailure
    <3>2. panel' = panel
      BY <2>2
      DEF LookStep, GiveUp, StartStep, FindReady, FindStarting, FindStopping, Refuse, BeginStart,
          Push, Record, Note, PollAnswered, PollExpires, PublishReady, PublishFailure,
          BookFailure, CallerStays
    <3>3. QED  BY <3>1, <3>2
  <2>3. CASE SuperviseStep \/ \E p \in StopProcs : PressStop(p) \/ FinishStop(p)
    <3>1. panel' = panel /\ panel # "down"
      BY <2>3
      DEF SuperviseStep, SuperviseStop, PressStop, FinishStop, Tick, ProbeFails, ProbeAnswered,
          KeepRunning, EnterStop, Settle, AbandonStop, BookStop, StopperStays, StopProcs
    <3>2. QED  BY <3>1
  <2>4. CASE StartPanel  BY <2>4 DEF StartPanel
  <2>5. CASE SigTerm  BY <2>5 DEF SigTerm
  <2>6. CASE EndPanel  BY <2>6 DEF EndPanel, LoseMemory
  <2>7. CASE KernelBoots \/ KernelEnds
    BY <2>7 DEF KernelBoots, KernelEnds, kernelVars, callerVars, stopVars
  <2>8. QED  BY <2>1, <2>2, <2>3, <2>4, <2>5, <2>6, <2>7 DEF Next
<1>3. QED  BY <1>1, <1>2, TypeCorrect, PTL DEF Spec

\* A caller answers for its own outcome only: it becomes ready after an answer,
\* and leaves the answers of other starts alone.
LEMMA CallerKeepsView ==
  ASSUME TypeOK, NobodyWhenDown, NEW c \in Callers, LookStep(c) \/ GiveUp(c) \/ StartStep(c)
  PROVE  [View!ViewNext]_(View!viewVars)
<1> DEFINE seen == \E d \in Callers : pc[d] = "won"
<1> USE ActorsAssumption
<1> USE DEF View!viewVars, CallerStays, kernelVars, storeVars, remoteVars
<1>1. CASE LookStep(c) \/ GiveUp(c)
  <2>1. pc[c] # "won"
    BY <1>1 DEF LookStep, GiveUp, FindReady, FindStarting, FindStopping, Refuse, BeginStart, AtHead,
                NobodyWhenDown
  <2>2. seen' = seen
    BY <1>1, <2>1 DEF LookStep, GiveUp, FindReady, FindStarting, FindStopping, Refuse, BeginStart, TypeOK
  <2>3. UNCHANGED <<panel, serving>> /\ (state' = "ready" <=> state = "ready")
    BY <1>1 DEF LookStep, GiveUp, FindReady, FindStarting, FindStopping, Refuse, BeginStart
  <2>4. QED  BY <2>2, <2>3
<1>2. CASE Push(c) \/ Record(c) \/ Note(c) \/ PollExpires(c) \/ BookFailure(c)
  <2>1. seen' = seen
    BY <1>2 DEF Push, Record, Note, PollExpires, BookFailure, TypeOK
  <2>2. UNCHANGED <<panel, serving, state>>
    BY <1>2 DEF Push, Record, Note, PollExpires, BookFailure
  <2>3. QED  BY <2>1, <2>2
<1>3. CASE PollAnswered(c)
  <2>1. seen'  BY <1>3 DEF PollAnswered, TypeOK
  <2>2. panel # "down"  BY <1>3 DEF PollAnswered, NobodyWhenDown
  <2>3. View!Answered  BY <1>3, <2>1, <2>2 DEF PollAnswered, View!Answered
  <2>4. QED  BY <2>3 DEF View!ViewNext
<1>4. CASE PublishReady(c)
  <2>1. seen  BY <1>4 DEF PublishReady
  <2>2. panel # "down"  BY <1>4 DEF PublishReady, NobodyWhenDown
  <2>3. View!Found  BY <1>4, <2>1, <2>2 DEF PublishReady, View!Found
  <2>4. QED  BY <2>3 DEF View!ViewNext
<1>5. CASE PublishFailure(c)
  <2>1. seen' = seen  BY <1>5 DEF PublishFailure, TypeOK
  <2>2. UNCHANGED <<panel, serving>> /\ state' = "failed"  BY <1>5 DEF PublishFailure
  <2>3. View!Gone \/ UNCHANGED View!viewVars  BY <2>1, <2>2 DEF View!Gone
  <2>4. QED  BY <2>3 DEF View!ViewNext
<1>6. QED  BY <1>1, <1>2, <1>3, <1>4, <1>5 DEF StartStep

\* Whatever calls, stops, probes, restarts and ends of the kernel interleave,
\* the rest of the panel finds a kernel ready only after it answered this
\* panel: what Generation and IdleStop take for granted.
THEOREM ViewShown == Spec => ShowsView
<1>1. Init => View!ViewInit  BY DEF Init, View!ViewInit
<1>2. TypeOK /\ NobodyWhenDown /\ [Next]_vars => [View!ViewNext]_(View!viewVars)
  <2> SUFFICES ASSUME TypeOK, NobodyWhenDown, [Next]_vars
               PROVE  [View!ViewNext]_(View!viewVars)
    OBVIOUS
  <2>1. CASE UNCHANGED vars
    BY <2>1 DEF vars, kernelVars, callerVars, remoteVars, View!viewVars
  <2>2. ASSUME NEW c \in Callers, LookStep(c) \/ GiveUp(c) \/ StartStep(c)
        PROVE  [View!ViewNext]_(View!viewVars)
    BY <2>2, CallerKeepsView
  <2>3. CASE SuperviseStep \/ \E p \in StopProcs : PressStop(p) \/ FinishStop(p)
    <3>1. /\ UNCHANGED <<panel, serving, pc>>
          /\ state' = state \/ state' \in {"stopping", "stopped"}
      BY <2>3
      DEF SuperviseStep, SuperviseStop, PressStop, FinishStop, Tick, ProbeFails, ProbeAnswered,
          KeepRunning, EnterStop, Settle, AbandonStop, BookStop, StopperStays, callerVars, remoteVars
    <3>2. View!Gone \/ UNCHANGED View!viewVars  BY <3>1 DEF View!Gone, View!viewVars
    <3>3. QED  BY <3>2 DEF View!ViewNext
  <2>4. CASE StartPanel
    <3>1. View!Return
      BY <2>4 DEF StartPanel, AdoptNothing, AdoptLost, AdoptLive, NobodyWhenDown, callerVars,
                  remoteVars, View!Return
    <3>2. QED  BY <3>1 DEF View!ViewNext
  <2>5. CASE SigTerm
    BY <2>5 DEF SigTerm, kernelVars, callerVars, remoteVars, View!viewVars
  <2>6. CASE EndPanel
    <3>1. View!Leave  BY <2>6 DEF EndPanel, LoseMemory, remoteVars, View!Leave
    <3>2. QED  BY <3>1 DEF View!ViewNext
  <2>7. CASE KernelBoots \/ KernelEnds
    <3>1. View!Boots \/ View!Ends \/ UNCHANGED View!viewVars
      BY <2>7 DEF KernelBoots, KernelEnds, kernelVars, callerVars, TypeOK, View!Boots, View!Ends,
                  View!viewVars
    <3>2. QED  BY <3>1 DEF View!ViewNext
  <2>8. QED  BY <2>1, <2>2, <2>3, <2>4, <2>5, <2>6, <2>7 DEF Next
<1>3. QED  BY <1>1, <1>2, TypeCorrect, DownInvariant, PTL DEF Spec, ShowsView, View!ViewSpec

=============================================================================
