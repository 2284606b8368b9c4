--------------------------- MODULE KernelLifecycle ---------------------------
(***************************************************************************)
(* The notebook kernel as the panel sees it (kernel.go), together with the *)
(* rows of kernel_sessions that bill for it (store.go).                    *)
(*                                                                         *)
(* The processes are the goroutines that call into Kernel:                 *)
(*   - Callers: EnsureReady, for a generation, a manual start or a warm-up;*)
(*   - Stoppers: Stop, for a person who presses the button;                *)
(*   - Supervisor: the one Supervise loop, which also calls Stop;          *)
(* and the panel process itself, which adopts a running kernel when it     *)
(* starts, is asked to leave by SIGTERM, and may crash.                    *)
(*                                                                         *)
(* One critical section of Kernel.mu is one step, and so is one call to    *)
(* the store or to Kaggle. A health probe may fail at any time, because    *)
(* the tunnel is between the panel and the kernel; it can only succeed     *)
(* while some kernel is serving. Deadlines, context expiry, the budget and *)
(* the idle time are choices: the code may take either branch.             *)
(***************************************************************************)
EXTENDS Naturals, FiniteSets

CONSTANTS
  Callers,      \* goroutines that call EnsureReady
  Stoppers,     \* requests that call Stop; {} when nobody presses the button
  Supervisor,   \* the Supervise goroutine
  NoChan,       \* the nil channel, and "waits for nothing"
  Closed,       \* a channel that has been closed
  MaxSessions,  \* bound: rows of kernel_sessions
  MaxRestarts   \* bound: times the panel ends, by a crash or after SIGTERM

ASSUME ActorsAssumption ==
  /\ Supervisor \notin Stoppers
  /\ NoChan \notin Callers /\ Closed \notin Callers /\ NoChan # Closed
ASSUME BoundsAssumption == MaxSessions \in Nat /\ MaxRestarts \in Nat

VARIABLES
  panel,        \* the panel process: "down", "up", or "draining" after SIGTERM
  state,        \* Kernel.state
  sessionID,    \* Kernel.sessionID, 0 when there is none
  inflight,     \* Kernel.inflight: the caller whose start made the channel
  pc,           \* where each caller is in EnsureReady and start
  wait,         \* EnsureReady's local wait: the caller whose channel it is
  row,          \* the caller's local id
  stopPc,       \* where each stopper and the supervisor are
  stopID,       \* their local id
  book,         \* kernel_sessions: "none", "open", or why the row was closed
  readied,      \* the rows whose ready_at is set
  booting,      \* Kaggle: a pushed notebook has yet to answer
  serving,      \* Kaggle: some kernel answers through the tunnel
  restarts      \* times the panel has ended so far

kernelVars == <<state, sessionID, inflight>>
callerVars == <<pc, wait, row>>
stopVars   == <<stopPc, stopID>>
storeVars  == <<book, readied>>
remoteVars == <<booting, serving>>
vars == <<panel, kernelVars, callerVars, stopVars, storeVars, remoteVars, restarts>>

Rows      == 1..MaxSessions
Reasons   == {"failed", "stopped", "ended", "lost"}
StopProcs == Stoppers \cup {Supervisor}
Channels  == Callers \cup {NoChan, Closed}

\* A caller in one of these is inside start, or about to publish its outcome.
StartPcs == {"push", "record", "note", "poll", "won", "lost"}

\* Every variable of the kernel, of the goroutines and of the rows keeps its
\* range; in particular a row is only ever closed for one of the four reasons.
TypeOK ==
  /\ panel \in {"down", "up", "draining"}
  /\ state \in {"stopped", "starting", "ready", "stopping", "failed"}
  /\ sessionID \in 0..MaxSessions
  /\ inflight \in Callers \cup {NoChan}
  /\ pc \in [Callers -> {"idle", "wait", "nap", "book"} \cup StartPcs]
  /\ wait \in [Callers -> Channels]
  /\ row \in [Callers -> 0..MaxSessions]
  /\ stopPc \in [StopProcs -> {"idle", "probe", "decide", "quiet", "bookEnded", "bookStopped"}]
  /\ stopID \in [StopProcs -> 0..MaxSessions]
  /\ book \in [Rows -> {"none", "open"} \cup Reasons]
  /\ readied \in SUBSET Rows
  /\ booting \in BOOLEAN
  /\ serving \in BOOLEAN
  /\ restarts \in 0..MaxRestarts

Init ==
  /\ state = "stopped" /\ sessionID = 0 /\ inflight = NoChan
  /\ pc = [c \in Callers |-> "idle"]
  /\ wait = [c \in Callers |-> NoChan]
  /\ row = [c \in Callers |-> 0]
  /\ stopPc = [p \in StopProcs |-> "idle"]
  /\ stopID = [p \in StopProcs |-> 0]
  /\ panel = "down"
  /\ book = [s \in Rows |-> "none"]
  /\ readied = {}
  /\ booting = FALSE /\ serving = FALSE
  /\ restarts = 0

-----------------------------------------------------------------------------
(* kernel_sessions *)

\* The row an insert would get.
IsNextRow(s) == /\ book[s] = "none"
                /\ \A t \in Rows : t < s => book[t] # "none"

\* Mutations: the reason is dropped; "stopped_at IS NULL" is missing.
FinishWithoutReason(s, reason) ==
  book' = IF s \in Rows /\ book[s] = "open" THEN [book EXCEPT ![s] = ""] ELSE book
FinishAgain(s, reason) ==
  book' = IF s \in Rows THEN [book EXCEPT ![s] = reason] ELSE book

\* FinishKernelSession: a row that is already closed is left as it is.
Finish(s, reason) ==
  book' = IF s \in Rows /\ book[s] = "open" THEN [book EXCEPT ![s] = reason] ELSE book

\* OpenKernelSession: the latest row that was never closed.
IsLatestOpen(s) == /\ book[s] = "open"
                   /\ \A t \in Rows : t > s => book[t] # "open"

\* Bound: a start is only begun while there is a row left for it.
RoomForStart ==
  \E s \in Rows :
    /\ book[s] = "none"
    /\ s + Cardinality({c \in Callers : pc[c] \in {"push", "record"}}) <= MaxSessions
    /\ IsNextRow(s)

-----------------------------------------------------------------------------
(* EnsureReady and start, step by step, for the caller c *)

CallerStays == UNCHANGED <<panel, stopVars, restarts>>

\* c is at the head of EnsureReady's loop: a new call, a wait that ended
\* because the channel was closed, or the end of a one-second nap.
AtHead(c) == \/ pc[c] = "idle" /\ panel # "down"
             \/ pc[c] = "wait" /\ wait[c] = Closed
             \/ pc[c] = "nap"

\* Ready: the call returns.
FindReady(c) ==
  /\ AtHead(c) /\ state = "ready"
  /\ pc' = [pc EXCEPT ![c] = "idle"]
  /\ wait' = [wait EXCEPT ![c] = NoChan]
  /\ UNCHANGED <<row, kernelVars, storeVars, remoteVars>> /\ CallerStays

\* Starting: wait for the channel of the start in flight.
FindStarting(c) ==
  /\ AtHead(c) /\ state = "starting"
  /\ pc' = [pc EXCEPT ![c] = "wait"]
  /\ wait' = [wait EXCEPT ![c] = inflight]
  /\ UNCHANGED <<row, kernelVars, storeVars, remoteVars>> /\ CallerStays

\* Stopping: look again in a second.
FindStopping(c) ==
  /\ AtHead(c) /\ state = "stopping"
  /\ pc' = [pc EXCEPT ![c] = "nap"]
  /\ wait' = [wait EXCEPT ![c] = NoChan]
  /\ UNCHANGED <<row, kernelVars, storeVars, remoteVars>> /\ CallerStays

\* Stopped or failed, but not configured or out of budget: the call fails.
Refuse(c) ==
  /\ AtHead(c) /\ state \in {"stopped", "failed"}
  /\ pc' = [pc EXCEPT ![c] = "idle"]
  /\ wait' = [wait EXCEPT ![c] = NoChan]
  /\ UNCHANGED <<row, kernelVars, storeVars, remoteVars>> /\ CallerStays

\* The caller's context ends while it waits.
GiveUp(c) ==
  /\ pc[c] \in {"wait", "nap"}
  /\ pc' = [pc EXCEPT ![c] = "idle"]
  /\ wait' = [wait EXCEPT ![c] = NoChan]
  /\ UNCHANGED <<row, kernelVars, storeVars, remoteVars>> /\ CallerStays

\* Mutation: the state is left for start to set.
BeginStartUnmarked(c) ==
  /\ AtHead(c) /\ state \in {"stopped", "failed"} /\ RoomForStart
  /\ inflight' = c
  /\ pc' = [pc EXCEPT ![c] = "push"]
  /\ wait' = [wait EXCEPT ![c] = NoChan]
  /\ UNCHANGED <<state, sessionID, row, storeVars, remoteVars>> /\ CallerStays

\* Stopped or failed: this caller performs the start.
BeginStart(c) ==
  /\ AtHead(c) /\ state \in {"stopped", "failed"}
  /\ RoomForStart
  /\ state' = "starting" /\ inflight' = c
  /\ pc' = [pc EXCEPT ![c] = "push"]
  /\ wait' = [wait EXCEPT ![c] = NoChan]
  /\ UNCHANGED <<sessionID, row, storeVars, remoteVars>> /\ CallerStays

\* Push: Kaggle takes the notebook or not, and the answer may be lost.
Push(c) ==
  /\ pc[c] = "push"
  /\ \E accepted, answered \in BOOLEAN :
       /\ booting' = (booting \/ accepted)
       /\ pc' = [pc EXCEPT ![c] = IF accepted /\ answered THEN "record" ELSE "lost"]
  /\ UNCHANGED <<serving, wait, row, kernelVars, storeVars>> /\ CallerStays

\* StartKernelSession: the billing row is inserted, or the store refuses.
Record(c) ==
  /\ pc[c] = "record"
  /\ \/ \E s \in Rows : /\ IsNextRow(s)
                        /\ book' = [book EXCEPT ![s] = "open"]
                        /\ row' = [row EXCEPT ![c] = s]
                        /\ pc' = [pc EXCEPT ![c] = "note"]
     \/ /\ pc' = [pc EXCEPT ![c] = "lost"]
        /\ UNCHANGED <<book, row>>
  /\ UNCHANGED <<wait, readied, kernelVars, remoteVars>> /\ CallerStays

\* Mutation: the id stays local to start.
NoteNothing(c) ==
  /\ pc[c] = "note"
  /\ pc' = [pc EXCEPT ![c] = "poll"]
  /\ UNCHANGED <<kernelVars, wait, row, storeVars, remoteVars>> /\ CallerStays

\* The row's id is put where everybody else can see it.
Note(c) ==
  /\ pc[c] = "note"
  /\ sessionID' = row[c]
  /\ pc' = [pc EXCEPT ![c] = "poll"]
  /\ UNCHANGED <<state, inflight, wait, row, storeVars, remoteVars>> /\ CallerStays

\* A poll is answered: MarkKernelReady, and start returns nil.
PollAnswered(c) ==
  /\ pc[c] = "poll" /\ serving
  /\ readied' = readied \cup {row[c]}
  /\ pc' = [pc EXCEPT ![c] = "won"]
  /\ UNCHANGED <<book, wait, row, kernelVars, remoteVars>> /\ CallerStays

\* Mutations: no deadline; MarkKernelReady before the answer is looked at.
PollNeverExpires(c) == pc[c] = "poll" /\ UNCHANGED vars
PollMarksAnyway(c) ==
  /\ pc[c] = "poll"
  /\ readied' = readied \cup {row[c]}
  /\ pc' = [pc EXCEPT ![c] = "lost"]
  /\ UNCHANGED <<book, wait, row, kernelVars, remoteVars>> /\ CallerStays

\* No poll is answered before the boot deadline or the end of the context.
PollExpires(c) ==
  /\ pc[c] = "poll"
  /\ pc' = [pc EXCEPT ![c] = "lost"]
  /\ UNCHANGED <<wait, row, kernelVars, storeVars, remoteVars>> /\ CallerStays

\* Mutation: the channel is never closed.
ReleaseNobody(c) == wait' = wait

\* close(done): everybody who waits on c's channel may go on.
ReleaseWaiters(c) ==
  wait' = [w \in Callers |-> IF wait[w] = c THEN Closed ELSE wait[w]]

\* start returned nil.
PublishReady(c) ==
  /\ pc[c] = "won"
  /\ ReleaseWaiters(c)
  /\ inflight' = NoChan /\ state' = "ready"
  /\ pc' = [pc EXCEPT ![c] = "idle"]
  /\ row' = [row EXCEPT ![c] = 0]
  /\ UNCHANGED <<sessionID, storeVars, remoteVars>> /\ CallerStays

\* Mutations: an early return before close(done); the id is read after it
\* was cleared.
PublishFailureEarly(c) ==
  /\ pc[c] = "lost"
  /\ inflight' = NoChan /\ state' = "failed" /\ sessionID' = 0
  /\ pc' = [pc EXCEPT ![c] = IF sessionID = 0 THEN "idle" ELSE "book"]
  /\ row' = [row EXCEPT ![c] = sessionID]
  /\ UNCHANGED <<wait, storeVars, remoteVars>> /\ CallerStays
PublishFailureForgets(c) ==
  /\ pc[c] = "lost"
  /\ ReleaseWaiters(c)
  /\ inflight' = NoChan /\ state' = "failed" /\ sessionID' = 0
  /\ pc' = [pc EXCEPT ![c] = "idle"]
  /\ row' = [row EXCEPT ![c] = 0]
  /\ UNCHANGED <<storeVars, remoteVars>> /\ CallerStays

\* start returned an error: the session the kernel shows is taken away from
\* it under the lock and closed after it.
PublishFailure(c) ==
  /\ pc[c] = "lost"
  /\ ReleaseWaiters(c)
  /\ inflight' = NoChan /\ state' = "failed" /\ sessionID' = 0
  /\ pc' = [pc EXCEPT ![c] = IF sessionID = 0 THEN "idle" ELSE "book"]
  /\ row' = [row EXCEPT ![c] = sessionID]
  /\ UNCHANGED <<storeVars, remoteVars>> /\ CallerStays

BookFailure(c) ==
  /\ pc[c] = "book"
  /\ Finish(row[c], "failed")
  /\ pc' = [pc EXCEPT ![c] = "idle"]
  /\ row' = [row EXCEPT ![c] = 0]
  /\ UNCHANGED <<wait, readied, kernelVars, remoteVars>> /\ CallerStays

\* What the caller does of itself once it has begun a start.
StartStep(c) == \/ Push(c) \/ Record(c) \/ Note(c) \/ PollAnswered(c) \/ PollExpires(c)
                \/ PublishReady(c) \/ PublishFailure(c) \/ BookFailure(c)

LookStep(c) == \/ FindReady(c) \/ FindStarting(c) \/ FindStopping(c)
               \/ Refuse(c) \/ BeginStart(c)

-----------------------------------------------------------------------------
(* Stop and Supervise *)

StopperStays == UNCHANGED <<panel, callerVars, inflight, readied, remoteVars, restarts>>

\* Stop is entered: refused unless the kernel is ready or failed. The POST to
\* /gpuless/shutdown that follows changes nothing here: the kernel ends in
\* its own time (KernelEnds), asked or not.
EnterStop(p) ==
  /\ IF state \in {"ready", "failed"}
     THEN /\ state' = "stopping"
          /\ stopPc' = [stopPc EXCEPT ![p] = "quiet"]
          /\ stopID' = [stopID EXCEPT ![p] = sessionID]
     ELSE /\ stopPc' = [stopPc EXCEPT ![p] = "idle"]
          /\ UNCHANGED <<state, stopID>>
  /\ UNCHANGED <<sessionID, book>> /\ StopperStays

\* A person presses the button; a request that is in when SIGTERM comes is
\* still answered, and so is one that begins a call of EnsureReady.
PressStop(p) == p # Supervisor /\ stopPc[p] = "idle" /\ panel # "down" /\ EnterStop(p)

\* Mutation: only the session is settled, not the state.
SettleSession(p) ==
  /\ stopPc[p] = "quiet"
  /\ sessionID' = 0
  /\ stopPc' = [stopPc EXCEPT ![p] = IF stopID[p] = 0 THEN "idle" ELSE "bookStopped"]
  /\ UNCHANGED <<state, stopID, book>> /\ StopperStays

\* A probe failed, or two minutes have passed: the kernel counts as gone.
Settle(p) ==
  /\ stopPc[p] = "quiet"
  /\ state' = "stopped" /\ sessionID' = 0
  /\ stopPc' = [stopPc EXCEPT ![p] = IF stopID[p] = 0 THEN "idle" ELSE "bookStopped"]
  /\ UNCHANGED <<stopID, book>> /\ StopperStays

\* The kernel still answers and the context ends before the next probe: Stop
\* returns as it stands. The supervisor's context only ends with the panel.
AbandonStop(p) ==
  /\ stopPc[p] = "quiet" /\ serving
  /\ p = Supervisor => panel = "draining"
  /\ stopPc' = [stopPc EXCEPT ![p] = "idle"]
  /\ stopID' = [stopID EXCEPT ![p] = 0]
  /\ UNCHANGED <<state, sessionID, book>> /\ StopperStays

\* FinishKernelSession after Stop or after a failed probe of Supervise.
BookStop(p) ==
  /\ stopPc[p] \in {"bookStopped", "bookEnded"}
  /\ Finish(stopID[p], IF stopPc[p] = "bookEnded" THEN "ended" ELSE "stopped")
  /\ stopPc' = [stopPc EXCEPT ![p] = "idle"]
  /\ stopID' = [stopID EXCEPT ![p] = 0]
  /\ UNCHANGED <<state, sessionID>> /\ StopperStays

\* Supervise ticks: a kernel that is not ready is not looked at.
Tick ==
  /\ stopPc[Supervisor] = "idle" /\ panel = "up" /\ state = "ready"
  /\ stopPc' = [stopPc EXCEPT ![Supervisor] = "probe"]
  /\ UNCHANGED <<state, sessionID, stopID, book>> /\ StopperStays

\* Mutations: the error is ignored; the id is read after it was cleared.
ProbeFailsIgnored ==
  /\ stopPc[Supervisor] = "probe"
  /\ stopPc' = [stopPc EXCEPT ![Supervisor] = "idle"]
  /\ UNCHANGED <<state, sessionID, stopID, book>> /\ StopperStays
ProbeFailsForgets ==
  /\ stopPc[Supervisor] = "probe"
  /\ state' = "stopped" /\ sessionID' = 0
  /\ stopPc' = [stopPc EXCEPT ![Supervisor] = "idle"]
  /\ UNCHANGED <<stopID, book>> /\ StopperStays

\* The probe fails: whatever the kernel is by now, it becomes stopped.
ProbeFails ==
  /\ stopPc[Supervisor] = "probe"
  /\ state' = "stopped" /\ sessionID' = 0
  /\ stopID' = [stopID EXCEPT ![Supervisor] = sessionID]
  /\ stopPc' = [stopPc EXCEPT ![Supervisor] = IF sessionID = 0 THEN "idle" ELSE "bookEnded"]
  /\ UNCHANGED book /\ StopperStays

\* The probe is answered: the budget and the idle time are read ...
ProbeAnswered ==
  /\ stopPc[Supervisor] = "probe" /\ serving
  /\ stopPc' = [stopPc EXCEPT ![Supervisor] = "decide"]
  /\ UNCHANGED <<state, sessionID, stopID, book>> /\ StopperStays

\* ... and allow the kernel to go on, or make the supervisor stop it.
KeepRunning ==
  /\ stopPc[Supervisor] = "decide"
  /\ stopPc' = [stopPc EXCEPT ![Supervisor] = "idle"]
  /\ UNCHANGED <<state, sessionID, stopID, book>> /\ StopperStays

SuperviseStop == stopPc[Supervisor] = "decide" /\ EnterStop(Supervisor)

FinishStop(p) == Settle(p) \/ AbandonStop(p) \/ BookStop(p)

SuperviseStep == \/ Tick \/ ProbeFails \/ ProbeAnswered \/ KeepRunning \/ SuperviseStop

-----------------------------------------------------------------------------
(* The panel process and Kaggle *)

\* Adopt, run before anything else is: nothing of the panel interleaves.

\* No open row is found, because there is none or because the query fails.
AdoptNothing == UNCHANGED <<state, sessionID, book>>

\* Not configured, or the one probe is not answered: the row is closed.
AdoptLost(s) ==
  /\ IsLatestOpen(s)
  /\ Finish(s, "lost")
  /\ UNCHANGED <<state, sessionID>>

\* Mutation: the row is trusted without a probe.
AdoptUnprobed(s) ==
  /\ IsLatestOpen(s)
  /\ state' = "ready" /\ sessionID' = s
  /\ UNCHANGED book

\* The kernel of the row answers, and is ready at once.
AdoptLive(s) ==
  /\ IsLatestOpen(s) /\ serving
  /\ state' = "ready" /\ sessionID' = s
  /\ UNCHANGED book

StartPanel ==
  /\ panel = "down" /\ panel' = "up"
  /\ AdoptNothing \/ \E s \in Rows : AdoptLost(s) \/ AdoptLive(s)
  /\ UNCHANGED <<inflight, callerVars, stopVars, readied, remoteVars, restarts>>

SigTerm ==
  /\ panel = "up" /\ restarts < MaxRestarts /\ panel' = "draining"
  /\ UNCHANGED <<kernelVars, callerVars, stopVars, storeVars, remoteVars, restarts>>

\* All that was in memory is gone; the rows and the kernel are not.
LoseMemory ==
  /\ panel' = "down"
  /\ state' = "stopped" /\ sessionID' = 0 /\ inflight' = NoChan
  /\ pc' = [c \in Callers |-> "idle"]
  /\ wait' = [c \in Callers |-> NoChan]
  /\ row' = [c \in Callers |-> 0]
  /\ stopPc' = [p \in StopProcs |-> "idle"]
  /\ stopID' = [p \in StopProcs |-> 0]
  /\ UNCHANGED <<storeVars, remoteVars>>

\* The panel restarts, or has been asked to leave and does: goroutines nobody
\* waits for are cut short either way.
EndPanel == /\ panel # "down" /\ restarts < MaxRestarts
            /\ restarts' = restarts + 1
            /\ LoseMemory

\* A pushed notebook reaches the point where its edge answers, or dies first;
\* another one may be on its way behind it.
KernelBoots ==
  /\ booting
  /\ booting' \in BOOLEAN /\ serving' \in {serving, TRUE}
  /\ UNCHANGED <<panel, kernelVars, callerVars, stopVars, storeVars, restarts>>

\* The last kernel that answers ends: asked, idle, capped or broken.
KernelEnds ==
  /\ serving /\ serving' = FALSE
  /\ UNCHANGED <<panel, booting, kernelVars, callerVars, stopVars, storeVars, restarts>>

Next ==
  \/ \E c \in Callers : LookStep(c) \/ GiveUp(c) \/ StartStep(c)
  \/ \E p \in StopProcs : PressStop(p) \/ FinishStop(p)
  \/ SuperviseStep
  \/ StartPanel \/ SigTerm \/ EndPanel
  \/ KernelBoots \/ KernelEnds

\* Goroutines run; deadlines, timeouts and tickers fire. Nobody is obliged to
\* call, to press the button, to answer a probe or to end the panel.
Fairness ==
  /\ \A c \in Callers : /\ WF_vars(StartStep(c))
                         /\ WF_vars(pc[c] # "idle" /\ LookStep(c))
  /\ \A p \in StopProcs : WF_vars(Settle(p)) /\ WF_vars(BookStop(p))
  /\ WF_vars(SuperviseStep)

Spec == Init /\ [][Next]_vars

FairSpec == Spec /\ Fairness

-----------------------------------------------------------------------------
(* What holds however people use the buttons *)

InStart(c) == pc[c] \in StartPcs

\* A kernel that is starting has somebody starting it, and inflight is that
\* somebody's channel: nobody can wait for a start that no one performs.
StartingHasOwner == state = "starting" => inflight \in Callers /\ InStart(inflight)

\* A call that waits, waits for a start that is still going on, or has been
\* released: the nil channel and a forgotten channel would block it for ever.
WaiterNotStranded ==
  \A c \in Callers : pc[c] = "wait" =>
    wait[c] = Closed \/ (wait[c] \in Callers /\ InStart(wait[c]))

\* kernel_sessions is a ledger: two goroutines that close the same session, or
\* a restart between the two, never rewrite a row or reopen it.
Ledger == INSTANCE SessionLedger WITH MaxSessions <- MaxSessions, Reasons <- Reasons,
                                     book <- book
IsLedger == Ledger!LedgerSpec

\* What the rest of the panel may rely on: it takes no kernel for ready that has
\* not answered it, whatever is pressed, restarted or ended in between.
View == INSTANCE KernelView WITH up <- panel # "down", ready <- state = "ready",
                                 serving <- serving,
                                 seen <- \E c \in Callers : pc[c] = "won"
ShowsView == View!ViewSpec

\* A start always comes to an end: the kernel does not stay "starting".
StartEnds == state = "starting" ~> state # "starting"

\* Whoever waits for a start is released when that start is over.
WaiterIsReleased == \A c, d \in Callers : wait[c] = d ~> wait[c] # d

-----------------------------------------------------------------------------
(* What holds as long as nobody presses the button (Stoppers = {}) *)

\* Concurrent callers share one start: the notebook is not pushed twice.
OneStart == \A c, d \in Callers : InStart(c) /\ InStart(d) => c = d

\* A kernel that is ready is being billed on the row the panel will close.
ReadyIsBilled == state = "ready" => sessionID \in Rows /\ book[sessionID] = "open"

\* Somebody still knows the row s and is bound to close it: the kernel shows
\* it, or a goroutine holds its id on the way to noting or closing it.
Accounted(s) ==
  \/ sessionID = s
  \/ \E c \in Callers : row[c] = s /\ pc[c] \in {"note", "book"}
  \/ \E p \in StopProcs : stopID[p] = s /\ stopPc[p] \in {"bookEnded", "bookStopped"}

\* Until the panel dies, no row is left open that nobody will close: it would
\* count against the weekly budget for ever.
NoRowLeaks ==
  panel # "down" /\ restarts = 0 => \A s \in Rows : book[s] = "open" => Accounted(s)

\* However often the panel ends and comes back: its end is the only step that
\* loses track of a row. Whoever opens one knows it, and what somebody knows is
\* closed or handed on, by a start, a stop, a probe or an adoption.
RowsHandedOn ==
  [][\A s \in Rows :
       panel' # "down" /\ book'[s] = "open" /\ (book[s] = "open" => Accounted(s))
         => Accounted(s)']_vars

\* No row has two goroutines on their way to close it: the reason it is booked
\* with is that of whoever ended the session, not of whoever came first.
OneCloser ==
  LET callers  == {c \in Callers : pc[c] = "book"}
      stoppers == {p \in StopProcs : stopPc[p] \in {"bookEnded", "bookStopped"}}
  IN  /\ \A c, d \in callers : row[c] = row[d] => c = d
      /\ \A p, q \in stoppers : stopID[p] = stopID[q] => p = q
      /\ \A c \in callers, p \in stoppers : row[c] # stopID[p]

\* A session booked as failed is one whose kernel was never seen ready.
FailedNeverReady == \A s \in Rows : book[s] = "failed" => s \notin readied

\* Stopping is a passage, not a place to stay.
StopSettles == (state = "stopping" /\ panel = "up") ~> ~(state = "stopping" /\ panel = "up")

\* The supervisor notices a kernel that is gone.
DeathIsNoticed ==
  (state = "ready" /\ ~serving) ~> (state # "ready" \/ serving \/ panel # "up")

\* Once Kaggle runs nothing of ours any more, and the panel stays, every
\* session is closed: the budget stops counting.
BudgetStopsCounting ==
  (<>[](~serving /\ panel = "up") /\ [](restarts = 0)) =>
     <>[](\A s \in Rows : book[s] # "open")

=============================================================================
