------------------------ MODULE KernelUnattendedProofs ------------------------
(***************************************************************************)
(* What is proved of KernelLifecycle when nobody presses the stop button   *)
(* (Stoppers = {}), for any number of callers, sessions and restarts.      *)
(***************************************************************************)
EXTENDS KernelLifecycleProofs

\* A session that is open and was never seen ready.
Unproven(s) == s \in Rows /\ book[s] = "open" /\ s \notin readied

\* Whoever is inside start is the one whose channel everybody waits for.
StartIsShown == \A c \in Callers : InStart(c) => state = "starting" /\ inflight = c

\* The kernel shows the session of a start from Note until its outcome.
StartSession ==
  \A c \in Callers :
    /\ pc[c] \in {"push", "record", "note"} => sessionID = 0
    /\ pc[c] = "note" => Unproven(row[c])
    /\ pc[c] \in {"poll", "won"} =>
         sessionID \in Rows /\ book[sessionID] = "open" /\ sessionID = row[c]
    /\ pc[c] = "poll" => Unproven(sessionID)
    /\ pc[c] = "lost" => sessionID = 0 \/ Unproven(sessionID)

\* A kernel that is off shows no session.
OffShowsNothing == state \in {"stopped", "failed"} => sessionID = 0

\* The supervisor acts on the kernel it looked at: it is still ready when the
\* probe fails, and still being stopped, with the same session, when it settles.
SupervisorIsCurrent ==
  /\ stopPc[Supervisor] \in {"probe", "decide"} => state = "ready"
  /\ stopPc[Supervisor] = "quiet" =>
       /\ state = "stopping" /\ stopID[Supervisor] = sessionID
       /\ sessionID \in Rows /\ book[sessionID] = "open"

\* s was taken away from the kernel: no one else shows it or is about to.
TakenAway(s) ==
  /\ s \in Rows /\ book[s] # "none" /\ s # sessionID
  /\ \A c \in Callers : pc[c] = "note" => row[c] # s

ClosersHoldTheirOwn ==
  /\ \A c \in Callers : pc[c] = "book" => TakenAway(row[c]) /\ row[c] \notin readied
  /\ stopPc[Supervisor] \in {"bookEnded", "bookStopped"} => TakenAway(stopID[Supervisor])

ReadiedWereOpened == \A s \in readied : book[s] # "none"

\* A panel that is down has forgotten everything; the first one finds no row.
DownIsBlank ==
  panel = "down" =>
    /\ state = "stopped"
    /\ \A c \in Callers : pc[c] = "idle"
    /\ stopPc[Supervisor] = "idle"
    /\ restarts = 0 => \A s \in Rows : book[s] = "none"

UnattendedInv ==
  /\ StartIsShown /\ StartSession /\ OffShowsNothing /\ ReadyIsBilled
  /\ SupervisorIsCurrent /\ ClosersHoldTheirOwn /\ OneCloser
  /\ ReadiedWereOpened /\ FailedNeverReady /\ DownIsBlank

-----------------------------------------------------------------------------
(* One lemma per kind of step *)

\* A call that looks, waits or gives up; only BeginStart changes the kernel.
LEMMA LookUnattended ==
  ASSUME Stoppers = {}, TypeInv, UnattendedInv, NEW c \in Callers, LookStep(c) \/ GiveUp(c)
  PROVE  UnattendedInv'
<1> USE ActorsAssumption, BoundsAssumption
<1> USE DEF TypeInv, HoldsRow, TypeOK, Reasons, StopProcs, StartPcs, InStart, UnattendedInv,
            StartIsShown, StartSession, OffShowsNothing, ReadyIsBilled, SupervisorIsCurrent,
            ClosersHoldTheirOwn, OneCloser, TakenAway, Unproven, ReadiedWereOpened, FailedNeverReady,
            DownIsBlank, kernelVars, callerVars, stopVars, storeVars,
            remoteVars, AtHead, CallerStays
<1>1. CASE FindReady(c)  BY <1>1 DEF FindReady
<1>2. CASE FindStarting(c)  BY <1>2 DEF FindStarting
<1>3. CASE FindStopping(c)  BY <1>3 DEF FindStopping
<1>4. CASE Refuse(c)  BY <1>4 DEF Refuse
<1>5. CASE GiveUp(c)  BY <1>5 DEF GiveUp
<1>6. CASE BeginStart(c)  BY <1>6 DEF BeginStart
<1>7. QED  BY <1>1, <1>2, <1>3, <1>4, <1>5, <1>6 DEF LookStep

\* A step of a start, up to the close of a session that failed.
LEMMA StartUnattended ==
  ASSUME Stoppers = {}, TypeInv, UnattendedInv, NEW c \in Callers, StartStep(c)
  PROVE  UnattendedInv'
<1> USE ActorsAssumption, BoundsAssumption
<1> USE DEF TypeInv, HoldsRow, TypeOK, Reasons, StopProcs, StartPcs, InStart, UnattendedInv,
            StartIsShown, StartSession, OffShowsNothing, ReadyIsBilled, SupervisorIsCurrent,
            ClosersHoldTheirOwn, OneCloser, TakenAway, Unproven, ReadiedWereOpened, FailedNeverReady,
            DownIsBlank, kernelVars, callerVars, stopVars, storeVars,
            remoteVars, CallerStays
<1>1. CASE Push(c)  BY <1>1 DEF Push
<1>2. CASE Record(c)  BY <1>2 DEF Record, IsNextRow
<1>3. CASE Note(c)  BY <1>3 DEF Note
<1>4. CASE PollAnswered(c)  BY <1>4 DEF PollAnswered
<1>5. CASE PollExpires(c)  BY <1>5 DEF PollExpires
<1>6. CASE PublishReady(c)  BY <1>6 DEF PublishReady, ReleaseWaiters
<1>7. CASE PublishFailure(c)  BY <1>7 DEF PublishFailure, ReleaseWaiters, Rows
<1>8. CASE BookFailure(c)  BY <1>8 DEF BookFailure, Finish
<1>9. QED  BY <1>1, <1>2, <1>3, <1>4, <1>5, <1>6, <1>7, <1>8 DEF StartStep

\* A step of the supervisor, the only one that stops the kernel.
LEMMA SupervisorUnattended ==
  ASSUME Stoppers = {}, TypeInv, UnattendedInv, SuperviseStep \/ FinishStop(Supervisor)
  PROVE  UnattendedInv'
<1> USE ActorsAssumption, BoundsAssumption
<1> USE DEF TypeInv, HoldsRow, TypeOK, Reasons, StopProcs, StartPcs, InStart, UnattendedInv,
            StartIsShown, StartSession, OffShowsNothing, ReadyIsBilled, SupervisorIsCurrent,
            ClosersHoldTheirOwn, OneCloser, TakenAway, Unproven, ReadiedWereOpened, FailedNeverReady,
            DownIsBlank, kernelVars, callerVars, stopVars, storeVars,
            remoteVars, StopperStays
<1>1. CASE EnterStop(Supervisor) /\ stopPc[Supervisor] = "decide"  BY <1>1 DEF EnterStop
<1>2. CASE Settle(Supervisor)  BY <1>2 DEF Settle, Rows
<1>3. CASE AbandonStop(Supervisor)  BY <1>3 DEF AbandonStop
<1>4. CASE BookStop(Supervisor)  BY <1>4 DEF BookStop, Finish
<1>5. CASE Tick  BY <1>5 DEF Tick
<1>6. CASE ProbeFails  BY <1>6 DEF ProbeFails, Rows
<1>7. CASE ProbeAnswered  BY <1>7 DEF ProbeAnswered
<1>8. CASE KeepRunning  BY <1>8 DEF KeepRunning
<1>9. QED  BY <1>1, <1>2, <1>3, <1>4, <1>5, <1>6, <1>7, <1>8 DEF SuperviseStep, SuperviseStop, FinishStop

\* The panel process ends and comes back, Kaggle runs its kernels.
LEMMA WorldUnattended ==
  ASSUME Stoppers = {}, TypeInv, UnattendedInv, 
         StartPanel \/ SigTerm \/ EndPanel \/ KernelBoots \/ KernelEnds
  PROVE  UnattendedInv'
<1> USE ActorsAssumption, BoundsAssumption
<1> USE DEF TypeInv, HoldsRow, TypeOK, Reasons, StopProcs, StartPcs, InStart, UnattendedInv,
            StartIsShown, StartSession, OffShowsNothing, ReadyIsBilled, SupervisorIsCurrent,
            ClosersHoldTheirOwn, OneCloser, TakenAway, Unproven, ReadiedWereOpened, FailedNeverReady,
            DownIsBlank, kernelVars, callerVars, stopVars, storeVars,
            remoteVars, Rows
<1>1. CASE StartPanel  BY <1>1 DEF StartPanel, AdoptNothing, AdoptLost, AdoptLive, IsLatestOpen, Finish
<1>2. CASE SigTerm  BY <1>2 DEF SigTerm
<1>3. CASE EndPanel  BY <1>3 DEF EndPanel, LoseMemory
<1>4. CASE KernelBoots  BY <1>4 DEF KernelBoots
<1>5. CASE KernelEnds  BY <1>5 DEF KernelEnds
<1>6. QED  BY <1>1, <1>2, <1>3, <1>4, <1>5 DEF StartPanel

-----------------------------------------------------------------------------
(* Who knows of a row *)

\* A call that looks, waits or gives up holds no row.
LEMMA LookHandsOn ==
  ASSUME TypeInv, UnattendedInv, NEW c \in Callers, LookStep(c) \/ GiveUp(c),
         NEW s \in Rows, Accounted(s)
  PROVE  Accounted(s)'
<1> USE DEF Accounted, kernelVars, storeVars, CallerStays, stopVars, AtHead
<1>1. /\ pc[c] \notin {"note", "book"} /\ \A d \in Callers \ {c} : pc'[d] = pc[d]
      /\ UNCHANGED <<row, stopPc, stopID>>
      /\ UNCHANGED sessionID
  BY DEF TypeInv, TypeOK, LookStep, FindReady, FindStarting, FindStopping, Refuse, GiveUp, BeginStart
<1>2. QED  BY <1>1

\* A start notes the row it opened, and takes it back when it has failed.
LEMMA StartHandsOn ==
  ASSUME TypeInv, UnattendedInv, NEW c \in Callers, StartStep(c),
         NEW s \in Rows, book'[s] = "open", book[s] = "open" => Accounted(s)
  PROVE  Accounted(s)'
<1> USE DEF TypeInv, TypeOK, Accounted, kernelVars, storeVars, stopVars, CallerStays, Rows
<1>1. CASE Push(c) \/ PollAnswered(c) \/ PollExpires(c)
  BY <1>1 DEF Push, PollAnswered, PollExpires
<1>2. CASE Record(c)
  <2>1. CASE book[s] = "open"  BY <1>2, <2>1 DEF Record, IsNextRow
  <2>2. CASE book[s] # "open"
    BY <1>2, <2>2 DEF Record, IsNextRow
  <2>3. QED  BY <2>1, <2>2
<1>3. CASE Note(c)
  <2>1. sessionID # s  BY <1>3 DEF Note, UnattendedInv, StartSession
  <2>2. book[s] = "open" /\ row[c] = sessionID'  BY <1>3 DEF Note
  <2>3. CASE \E d \in Callers : row[d] = s /\ pc[d] \in {"note", "book"}
    <3>1. PICK d \in Callers : row[d] = s /\ pc[d] \in {"note", "book"}  BY <2>3
    <3>2. CASE d = c  BY <2>2, <3>1, <3>2
    <3>3. CASE d # c
      <4>1. row'[d] = s /\ pc'[d] \in {"note", "book"}  BY <1>3, <3>1, <3>3 DEF Note
      <4>2. QED  BY <4>1
    <3>4. QED  BY <3>2, <3>3
  <2>4. CASE \E p \in StopProcs : stopID[p] = s /\ stopPc[p] \in {"bookEnded", "bookStopped"}
    BY <1>3, <2>4 DEF Note
  <2>5. QED  BY <2>1, <2>2, <2>3, <2>4
<1>4. CASE PublishReady(c)  BY <1>4 DEF PublishReady, ReleaseWaiters
<1>5. CASE PublishFailure(c)
  <2>1. book[s] = "open"  BY <1>5 DEF PublishFailure
  <2>2. CASE sessionID = s
    <3>1. row'[c] = s /\ pc'[c] = "book"  BY <1>5, <2>2 DEF PublishFailure
    <3>2. QED  BY <3>1
  <2>3. CASE \E d \in Callers : row[d] = s /\ pc[d] \in {"note", "book"}
    <3>1. PICK d \in Callers : row[d] = s /\ pc[d] \in {"note", "book"}  BY <2>3
    <3>2. row'[d] = s /\ pc'[d] \in {"note", "book"}  BY <1>5, <3>1 DEF PublishFailure
    <3>3. QED  BY <3>2
  <2>4. CASE \E p \in StopProcs : stopID[p] = s /\ stopPc[p] \in {"bookEnded", "bookStopped"}
    BY <1>5, <2>4 DEF PublishFailure
  <2>5. QED  BY <2>1, <2>2, <2>3, <2>4
<1>6. CASE BookFailure(c)  BY <1>6 DEF BookFailure, Finish
<1>7. QED  BY <1>1, <1>2, <1>3, <1>4, <1>5, <1>6 DEF StartStep

\* The supervisor takes the row from a kernel that is gone or has been stopped,
\* and closes the row it took.
LEMMA SupervisorHandsOn ==
  ASSUME Stoppers = {}, TypeInv, UnattendedInv, SuperviseStep \/ FinishStop(Supervisor),
         NEW s \in Rows, book'[s] = "open", book[s] = "open" => Accounted(s)
  PROVE  Accounted(s)'
<1> USE ActorsAssumption
<1> USE DEF TypeInv, TypeOK, StopProcs, Accounted, kernelVars, callerVars, storeVars, StopperStays, Rows
<1>1. CASE Settle(Supervisor)
  <2>1. book[s] = "open" /\ stopPc[Supervisor] \notin {"bookEnded", "bookStopped"}
    BY <1>1 DEF Settle
  <2>2. CASE sessionID = s
    <3>1. stopID'[Supervisor] = s /\ stopPc'[Supervisor] = "bookStopped"
      BY <1>1, <2>2 DEF Settle, UnattendedInv, SupervisorIsCurrent
    <3>2. QED  BY <3>1
  <2>3. CASE sessionID # s  BY <1>1, <2>1, <2>3 DEF Settle
  <2>4. QED  BY <2>2, <2>3
<1>2. CASE ProbeFails
  <2>1. book[s] = "open" /\ stopPc[Supervisor] \notin {"bookEnded", "bookStopped"}
    BY <1>2 DEF ProbeFails
  <2>2. CASE sessionID = s
    <3>1. stopID'[Supervisor] = s /\ stopPc'[Supervisor] = "bookEnded"
      BY <1>2, <2>2 DEF ProbeFails
    <3>2. QED  BY <3>1
  <2>3. CASE sessionID # s  BY <1>2, <2>1, <2>3 DEF ProbeFails
  <2>4. QED  BY <2>2, <2>3
<1>3. CASE BookStop(Supervisor)  BY <1>3 DEF BookStop, Finish
<1>4. CASE SuperviseStop \/ AbandonStop(Supervisor) \/ Tick \/ ProbeAnswered \/ KeepRunning
  BY <1>4 DEF SuperviseStop, EnterStop, AbandonStop, Tick, ProbeAnswered, KeepRunning
<1>5. QED  BY <1>1, <1>2, <1>3, <1>4 DEF SuperviseStep, FinishStop

\* Outside of the panel nothing touches a row; a panel that starts knows none.
LEMMA WorldHandsOn ==
  ASSUME TypeInv, UnattendedInv, Stoppers = {},
         StartPanel \/ SigTerm \/ EndPanel \/ KernelBoots \/ KernelEnds, panel' # "down",
         NEW s \in Rows, book'[s] = "open", book[s] = "open" => Accounted(s)
  PROVE  Accounted(s)'
<1> USE DEF TypeInv, TypeOK, Accounted, StopProcs, kernelVars, callerVars, stopVars, storeVars,
            remoteVars, Rows
<1>1. CASE StartPanel
  <2>1. ~Accounted(s)
    BY <1>1 DEF StartPanel, UnattendedInv, DownIsBlank, OffShowsNothing
  <2>2. QED  BY <1>1, <2>1 DEF StartPanel, AdoptNothing, AdoptLost, AdoptLive, IsLatestOpen, Finish
<1>2. CASE SigTerm  BY <1>2 DEF SigTerm
<1>3. CASE EndPanel  BY <1>3 DEF EndPanel, LoseMemory
<1>4. CASE KernelBoots \/ KernelEnds  BY <1>4 DEF KernelBoots, KernelEnds
<1>5. QED  BY <1>1, <1>2, <1>3, <1>4

\* Only its end adds to the ends of the panel.
LEMMA OnlyEndsCount ==
  ASSUME [Next]_vars, panel' # "down"
  PROVE  restarts' = restarts
<1> USE DEF CallerStays, StopperStays
<1>1. ASSUME NEW c \in Callers, LookStep(c) \/ GiveUp(c)  PROVE restarts' = restarts
  BY <1>1 DEF LookStep, FindReady, FindStarting, FindStopping, Refuse, GiveUp, BeginStart
<1>2. ASSUME NEW c \in Callers, StartStep(c)  PROVE restarts' = restarts
  BY <1>2 DEF StartStep, Push, Record, Note, PollAnswered, PollExpires, PublishReady,
              PublishFailure, BookFailure
<1>3. ASSUME NEW p \in StopProcs, PressStop(p) \/ FinishStop(p)  PROVE restarts' = restarts
  BY <1>3 DEF PressStop, EnterStop, FinishStop, Settle, AbandonStop, BookStop
<1>4. CASE SuperviseStep
  BY <1>4 DEF SuperviseStep, Tick, ProbeFails, ProbeAnswered, KeepRunning, SuperviseStop, EnterStop,
              BookStop
<1>5. CASE StartPanel \/ SigTerm \/ EndPanel \/ KernelBoots \/ KernelEnds
  BY <1>5 DEF StartPanel, SigTerm, EndPanel, LoseMemory, KernelBoots, KernelEnds
<1>6. QED  BY <1>1, <1>2, <1>3, <1>4, <1>5 DEF Next, vars

\* No step but the end of the panel loses track of a row.
LEMMA StepHandsOn ==
  ASSUME Stoppers = {}, TypeInv, UnattendedInv, [Next]_vars, panel' # "down",
         NEW s \in Rows, book'[s] = "open", book[s] = "open" => Accounted(s)
  PROVE  Accounted(s)'
<1>1. CASE UNCHANGED vars
  BY <1>1 DEF vars, kernelVars, callerVars, stopVars, storeVars, Accounted
<1>2. ASSUME NEW c \in Callers, LookStep(c) \/ GiveUp(c)  PROVE Accounted(s)'
  <2>1. book[s] = "open"
    BY <1>2 DEF LookStep, FindReady, FindStarting, FindStopping, Refuse, GiveUp, BeginStart, storeVars
  <2>2. QED  BY <1>2, <2>1, LookHandsOn
<1>3. ASSUME NEW c \in Callers, StartStep(c)  PROVE Accounted(s)'
  BY <1>3, StartHandsOn
<1>4. ASSUME NEW p \in StopProcs, PressStop(p) \/ FinishStop(p)  PROVE Accounted(s)'
  BY <1>4, SupervisorHandsOn DEF StopProcs, PressStop
<1>5. CASE SuperviseStep  BY <1>5, SupervisorHandsOn
<1>6. CASE StartPanel \/ SigTerm \/ EndPanel \/ KernelBoots \/ KernelEnds
  BY <1>6, WorldHandsOn
<1>7. QED  BY <1>1, <1>2, <1>3, <1>4, <1>5, <1>6 DEF Next

-----------------------------------------------------------------------------
(* The theorems *)

\* The inductive invariant of a panel whose stop button nobody presses.
LEMMA UnattendedInvariant ==
  ASSUME Stoppers = {}
  PROVE  Spec => []UnattendedInv
<1>1. Init => UnattendedInv
  BY DEF Init, UnattendedInv, StartIsShown, StartSession, OffShowsNothing,
         ReadyIsBilled, SupervisorIsCurrent, ClosersHoldTheirOwn, OneCloser, ReadiedWereOpened,
         FailedNeverReady, DownIsBlank, InStart, StartPcs, StopProcs
<1>2. TypeInv /\ UnattendedInv /\ [Next]_vars => UnattendedInv'
  <2> SUFFICES ASSUME TypeInv, UnattendedInv, [Next]_vars  PROVE UnattendedInv'
    OBVIOUS
  <2>1. CASE UNCHANGED vars
    BY <2>1 DEF vars, kernelVars, callerVars, stopVars, storeVars, remoteVars, UnattendedInv,
         StartIsShown, StartSession, OffShowsNothing, ReadyIsBilled,
         SupervisorIsCurrent, ClosersHoldTheirOwn, OneCloser, ReadiedWereOpened, FailedNeverReady,
         DownIsBlank, InStart, TakenAway, Unproven
  <2>2. ASSUME NEW c \in Callers, LookStep(c) \/ GiveUp(c) \/ StartStep(c)
        PROVE  UnattendedInv'
    BY <2>2, LookUnattended, StartUnattended
  <2>3. ASSUME NEW p \in StopProcs, PressStop(p) \/ FinishStop(p)
        PROVE  UnattendedInv'
    BY <2>3, SupervisorUnattended DEF StopProcs, PressStop
  <2>4. CASE SuperviseStep  BY <2>4, SupervisorUnattended
  <2>5. CASE StartPanel \/ SigTerm \/ EndPanel \/ KernelBoots \/ KernelEnds
    BY <2>5, WorldUnattended
  <2>6. QED  BY <2>1, <2>2, <2>3, <2>4, <2>5 DEF Next
<1>3. QED  BY <1>1, <1>2, TypeInvariant, PTL DEF Spec

\* Concurrent callers share one start as long as nobody presses the button:
\* the notebook is never pushed by two starts at once.
THEOREM OneStartAtATime ==
  ASSUME Stoppers = {}
  PROVE  Spec => []OneStart
<1>1. UnattendedInv => OneStart
  BY DEF UnattendedInv, StartIsShown, OneStart
<1>2. QED  BY <1>1, UnattendedInvariant, PTL

\* A ready kernel shows the open row it is billed on.
THEOREM ReadyBilled ==
  ASSUME Stoppers = {}
  PROVE  Spec => []ReadyIsBilled
<1>1. UnattendedInv => ReadyIsBilled  BY DEF UnattendedInv
<1>2. QED  BY <1>1, UnattendedInvariant, PTL

\* However many panels there have been, an open row that somebody knows is known
\* until it is closed or the panel ends, and a row is opened by somebody who does.
THEOREM RowsAreHandedOn ==
  ASSUME Stoppers = {}
  PROVE  Spec => RowsHandedOn
<1>1. TypeInv /\ UnattendedInv /\ [Next]_vars =>
        [\A s \in Rows :
           panel' # "down" /\ book'[s] = "open" /\ (book[s] = "open" => Accounted(s))
             => Accounted(s)']_vars
  BY StepHandsOn
<1>2. QED  BY <1>1, TypeInvariant, UnattendedInvariant, PTL DEF Spec, RowsHandedOn

\* Until the panel is restarted, every open row has somebody who will close it.
THEOREM RowsAccounted ==
  ASSUME Stoppers = {}
  PROVE  Spec => []NoRowLeaks
<1>1. Init => NoRowLeaks  BY DEF Init, NoRowLeaks
<1>2. TypeInv /\ UnattendedInv /\ NoRowLeaks /\ [Next]_vars => NoRowLeaks'
  <2> SUFFICES ASSUME TypeInv, UnattendedInv, NoRowLeaks, [Next]_vars, panel' # "down",
                      restarts' = 0, NEW s \in Rows, book'[s] = "open"
               PROVE  Accounted(s)'
    BY DEF NoRowLeaks
  <2>1. restarts = 0  BY OnlyEndsCount
  <2>2. book[s] = "open" => panel # "down"  BY <2>1 DEF UnattendedInv, DownIsBlank
  <2>3. QED  BY <2>1, <2>2, StepHandsOn DEF NoRowLeaks
<1>3. QED  BY <1>1, <1>2, TypeInvariant, UnattendedInvariant, PTL DEF Spec

\* No session is closed by two goroutines at once, so its row tells how it ended
\* (FinishKernelSession); with the stop button pressed, a stop and a probe may.
THEOREM ClosedByOne ==
  ASSUME Stoppers = {}
  PROVE  Spec => []OneCloser
<1>1. UnattendedInv => OneCloser  BY DEF UnattendedInv
<1>2. QED  BY <1>1, UnattendedInvariant, PTL

\* A session booked as failed was never seen ready.
THEOREM FailedWereNeverReady ==
  ASSUME Stoppers = {}
  PROVE  Spec => []FailedNeverReady
<1>1. UnattendedInv => FailedNeverReady  BY DEF UnattendedInv
<1>2. QED  BY <1>1, UnattendedInvariant, PTL

=============================================================================
