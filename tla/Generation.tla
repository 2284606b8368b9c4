------------------------------ MODULE Generation ------------------------------
(***************************************************************************)
(* A generation from the request to the stored file (app.go, comfy.go,     *)
(* api.go): the handler that records the run, the goroutine that does the  *)
(* slow part, the rows of runs, the media directory, and the panel that    *)
(* drains its jobs on SIGTERM, may crash, and abandons runs on restart     *)
(* (main.go).                                                              *)
(*                                                                         *)
(* The kernel is the one of KernelView, which KernelLifecycle implements:   *)
(* the panel believes it ready or not, and some kernel answers or not. A   *)
(* kernel that ends takes its prompts with it. The thirty-minute context   *)
(* of a generation may end at any of its waits.                            *)
(***************************************************************************)
EXTENDS Integers, FiniteSets

CONSTANTS
  Requests,     \* POST /api/generate/{kind}; each makes at most one run
  MaxRestarts   \* bound: times the panel ends

ASSUME GenerationAssumption == IsFiniteSet(Requests) /\ MaxRestarts \in Nat

VARIABLES
  panel,     \* "up", "draining" in srv.Shutdown, "waiting" in jobs.Wait,
             \* "leaving" after it, "exited", or "crashed"
  clean,     \* srv.Shutdown returned because no handler was left
  pc,        \* where each request's handler, then its goroutine, is
  jobs,      \* App.jobs, the WaitGroup's counter
  status,    \* runs.status, "none" while there is no row
  media,     \* the run's file: "none", "partial" or "whole"
  ready,     \* Kernel.state is "ready"
  serving,   \* some kernel answers through the tunnel
  seen,      \* a start was answered and has yet to publish it
  history,   \* what that kernel's ComfyUI knows of the run's prompt
  restarts   \* times the panel has ended so far

kernelVars == <<ready, serving, seen, history>>
vars == <<panel, clean, pc, jobs, status, media, kernelVars, restarts>>

Handling   == {"read", "launch"}
Waits      == {"ensure", "submit", "wait", "fetch"}
Generating == Waits \cup {"save", "saving", "finish", "fail", "leave"}

\* Every variable keeps its range; in particular the job counter is never
\* negative, at which sync.WaitGroup would panic.
TypeOK ==
  /\ panel \in {"up", "draining", "waiting", "leaving", "exited", "crashed"}
  /\ clean \in BOOLEAN /\ ready \in BOOLEAN /\ serving \in BOOLEAN /\ seen \in BOOLEAN
  /\ pc \in [Requests -> {"idle", "over"} \cup Handling \cup Generating]
  /\ jobs \in Nat
  /\ status \in [Requests -> {"none", "running", "done", "failed"}]
  /\ media \in [Requests -> {"none", "partial", "whole"}]
  /\ history \in [Requests -> {"unknown", "queued", "written", "broken"}]
  /\ restarts \in 0..MaxRestarts

Alive == panel \notin {"exited", "crashed"}

Init ==
  /\ panel = "up" /\ clean = FALSE
  /\ pc = [r \in Requests |-> "idle"]
  /\ jobs = 0
  /\ status = [r \in Requests |-> "none"]
  /\ media = [r \in Requests |-> "none"]
  /\ ready = FALSE /\ serving = FALSE /\ seen = FALSE
  /\ history = [r \in Requests |-> "unknown"]
  /\ restarts = 0

Goto(r, l) == pc' = [pc EXCEPT ![r] = l]

PanelStays == UNCHANGED <<panel, clean, restarts>>

-----------------------------------------------------------------------------
(* The handler: apiGenerate and startGeneration *)

\* A request is accepted; after SIGTERM the listener is closed.
Arrive(r) ==
  /\ pc[r] = "idle" /\ panel = "up" /\ Goto(r, "read")
  /\ UNCHANGED <<jobs, status, media, kernelVars>> /\ PanelStays

\* No workflow, bad parameters, not configured, out of budget, or no row.
Reject(r) ==
  /\ pc[r] = "read" /\ Goto(r, "over")
  /\ UNCHANGED <<jobs, status, media, kernelVars>> /\ PanelStays

CreateRun(r) ==
  /\ pc[r] = "read" /\ Goto(r, "launch")
  /\ status' = [status EXCEPT ![r] = "running"]
  /\ UNCHANGED <<jobs, media, kernelVars>> /\ PanelStays

\* jobs.Add, and the handler answers while the goroutine goes on.
Launch(r) ==
  /\ pc[r] = "launch" /\ Goto(r, "ensure")
  /\ jobs' = jobs + 1
  /\ UNCHANGED <<status, media, kernelVars>> /\ PanelStays

-----------------------------------------------------------------------------
(* The goroutine: runGeneration, then the end of the closure *)

RunStays(r) == UNCHANGED <<jobs, status>> /\ PanelStays

\* EnsureReady returns nil, and the graph is built.
FindKernel(r) ==
  /\ pc[r] = "ensure" /\ ready /\ Goto(r, "submit")
  /\ UNCHANGED <<media, kernelVars>> /\ RunStays(r)

\* ComfyUI takes the graph, and the answer may be lost.
Submit(r) ==
  /\ pc[r] = "submit" /\ serving
  /\ history' = [history EXCEPT ![r] = "queued"]
  /\ \E answered \in BOOLEAN : Goto(r, IF answered THEN "wait" ELSE "fail")
  /\ UNCHANGED <<media, ready, serving, seen>> /\ RunStays(r)

\* A poll finds the outputs, or a prompt that failed or wrote nothing. A
\* prompt the kernel does not know counts as still queued.
FindOutputs(r) ==
  /\ pc[r] = "wait" /\ serving
  /\ \/ history[r] = "written" /\ Goto(r, "fetch")
     \/ history[r] = "broken" /\ Goto(r, "fail")
  /\ UNCHANGED <<media, kernelVars>> /\ RunStays(r)

Fetch(r) ==
  /\ pc[r] = "fetch" /\ serving /\ history[r] = "written" /\ Goto(r, "save")
  /\ UNCHANGED <<media, kernelVars>> /\ RunStays(r)

\* Mutation: a context without a deadline; only the kernel ends a wait.
GiveUpUnlimited(r) ==
  /\ pc[r] \in Waits /\ (pc[r] = "wait" => ~serving) /\ Goto(r, "fail")
  /\ UNCHANGED <<media, kernelVars>> /\ RunStays(r)

\* The call fails, or the thirty minutes are over.
GiveUp(r) ==
  /\ pc[r] \in Waits /\ Goto(r, "fail")
  /\ UNCHANGED <<media, kernelVars>> /\ RunStays(r)

\* os.WriteFile creates the file, fills it, and may fail at either.
OpenFile(r) ==
  /\ pc[r] = "save"
  /\ \/ Goto(r, "saving") /\ media' = [media EXCEPT ![r] = "partial"]
     \/ Goto(r, "fail") /\ UNCHANGED media
  /\ UNCHANGED kernelVars /\ RunStays(r)

\* Mutation: the error of the write is not looked at.
FillFileUnchecked(r) ==
  /\ pc[r] = "saving" /\ Goto(r, "finish")
  /\ \/ media' = [media EXCEPT ![r] = "whole"]
     \/ UNCHANGED media
  /\ UNCHANGED kernelVars /\ RunStays(r)

FillFile(r) ==
  /\ pc[r] = "saving"
  /\ \/ Goto(r, "finish") /\ media' = [media EXCEPT ![r] = "whole"]
     \/ Goto(r, "fail") /\ UNCHANGED media
  /\ UNCHANGED kernelVars /\ RunStays(r)

\* FinishRun, whose error makes a failed run of it.
FinishRun(r) ==
  /\ pc[r] = "finish"
  /\ \/ Goto(r, "leave") /\ status' = [status EXCEPT ![r] = "done"]
     \/ Goto(r, "fail") /\ UNCHANGED status
  /\ UNCHANGED <<jobs, media, kernelVars>> /\ PanelStays

FailRun(r) ==
  /\ pc[r] = "fail" /\ Goto(r, "leave")
  /\ status' = [status EXCEPT ![r] = "failed"]
  /\ UNCHANGED <<jobs, media, kernelVars>> /\ PanelStays

\* Mutations: a run that failed is not counted out; the goroutine counts out
\* again before it ends.
LeaveUncounted(r) ==
  /\ pc[r] = "leave" /\ Goto(r, "over")
  /\ jobs' = IF status[r] = "done" THEN jobs - 1 ELSE jobs
  /\ UNCHANGED <<status, media, kernelVars>> /\ PanelStays
LeaveTwice(r) ==
  /\ pc[r] = "leave" /\ Goto(r, "over")
  /\ jobs' = jobs - 2
  /\ UNCHANGED <<status, media, kernelVars>> /\ PanelStays

\* jobs.Done
Leave(r) ==
  /\ pc[r] = "leave" /\ Goto(r, "over")
  /\ jobs' = jobs - 1
  /\ UNCHANGED <<status, media, kernelVars>> /\ PanelStays

HandlerStep(r) == Reject(r) \/ CreateRun(r) \/ Launch(r)

GenerationStep(r) ==
  \/ FindKernel(r) \/ Submit(r) \/ FindOutputs(r) \/ Fetch(r) \/ GiveUp(r)
  \/ OpenFile(r) \/ FillFile(r) \/ FinishRun(r) \/ FailRun(r) \/ Leave(r)

-----------------------------------------------------------------------------
(* The kernel *)

OthersStay == UNCHANGED <<panel, clean, pc, jobs, status, media, restarts>>

View == INSTANCE KernelView WITH up <- Alive, ready <- ready, serving <- serving,
                                 seen <- seen

\* Its edge begins to answer, a start hears of it and publishes it; a probe is
\* not answered, or the kernel is stopped.
KernelMoves ==
  /\ OthersStay
  /\ View!Boots \/ View!Answered \/ View!Found \/ View!Gone
  /\ UNCHANGED history

\* It ends with every prompt it knew.
KernelEnds ==
  /\ OthersStay
  /\ View!Ends
  /\ history' = [r \in Requests |-> "unknown"]

\* ComfyUI comes to the end of a prompt, with outputs or without.
PromptEnds(r) ==
  /\ serving /\ history[r] = "queued"
  /\ \E outcome \in {"written", "broken"} : history' = [history EXCEPT ![r] = outcome]
  /\ UNCHANGED <<ready, serving, seen>> /\ OthersStay

KernelStep == KernelMoves \/ KernelEnds \/ \E r \in Requests : PromptEnds(r)

-----------------------------------------------------------------------------
(* The panel *)

SigTerm ==
  /\ panel = "up" /\ restarts < MaxRestarts /\ panel' = "draining"
  /\ UNCHANGED <<clean, pc, jobs, status, media, kernelVars, restarts>>

\* srv.Shutdown returns: no handler is left, or thirty seconds have passed.
ShutdownReturns ==
  /\ panel = "draining" /\ panel' = "waiting"
  /\ clean' \in {FALSE, \A r \in Requests : pc[r] \notin Handling}
  /\ UNCHANGED <<pc, jobs, status, media, kernelVars, restarts>>

\* Mutation: nobody waits for the generations.
WaitReturnsAtOnce ==
  /\ panel = "waiting" /\ panel' = "leaving"
  /\ UNCHANGED <<clean, pc, jobs, status, media, kernelVars, restarts>>

\* app.Wait returns.
WaitReturns ==
  /\ panel = "waiting" /\ jobs = 0 /\ panel' = "leaving"
  /\ UNCHANGED <<clean, pc, jobs, status, media, kernelVars, restarts>>

\* The process ends, with all that was in memory.
EndProcess ==
  /\ restarts' = restarts + 1
  /\ pc' = [r \in Requests |-> IF pc[r] = "idle" THEN "idle" ELSE "over"]
  /\ jobs' = 0 /\ ready' = FALSE /\ seen' = FALSE
  /\ UNCHANGED <<clean, status, media, serving, history>>

\* A crash, or a listener that fails, ends it without any of that.
Exit  == panel = "leaving" /\ panel' = "exited" /\ EndProcess
Crash == Alive /\ restarts < MaxRestarts /\ panel' = "crashed" /\ EndProcess

\* Mutation: every run is abandoned, not only the ones that were running.
AbandonAllRuns ==
  status' = [r \in Requests |-> IF status[r] # "none" THEN "failed" ELSE "none"]

AbandonRuns ==
  status' = [r \in Requests |-> IF status[r] = "running" THEN "failed" ELSE status[r]]

\* The panel starts again: runs are abandoned, and the kernel may be adopted.
Restart ==
  /\ ~Alive /\ panel' = "up" /\ clean' = FALSE
  /\ AbandonRuns
  /\ ready' \in {FALSE, serving}
  /\ UNCHANGED <<pc, jobs, media, serving, seen, history, restarts>>

Next ==
  \/ \E r \in Requests : Arrive(r) \/ HandlerStep(r) \/ GenerationStep(r)
  \/ KernelStep
  \/ SigTerm \/ ShutdownReturns \/ WaitReturns \/ Exit \/ Crash \/ Restart

\* Goroutines run and contexts end; what has begun to shut down goes on, and a
\* panel that crashed is started again (restart: unless-stopped). Nobody has to
\* start a panel that was told to leave, and the kernel may do as it likes.
Fairness ==
  /\ \A r \in Requests : WF_vars(HandlerStep(r)) /\ WF_vars(GenerationStep(r))
  /\ WF_vars(ShutdownReturns) /\ WF_vars(WaitReturns) /\ WF_vars(Exit)
  /\ WF_vars(panel = "crashed" /\ Restart)

Spec == Init /\ [][Next]_vars

FairSpec == Spec /\ Fairness

-----------------------------------------------------------------------------
(* What is promised *)

\* The panel's ends and starts are those of KernelView too.
KeepsView == View!ViewSpec

\* The WaitGroup counts the generations that are going on, neither more, which
\* would hold up every shutdown, nor fewer, which would cut one short.
JobsCountGenerations == jobs = Cardinality({r \in Requests : pc[r] \in Generating})

\* A run is only ever "done" when all of its file is on the disk, whatever
\* crash or failed write comes between the file and the row.
DoneIsSaved == \A r \in Requests : status[r] = "done" => media[r] = "whole"

\* When srv.Shutdown has seen the handlers off, app.Wait sees the generations
\* off: the panel leaves no run behind that is still running.
CleanExitSettles ==
  panel \in {"leaving", "exited"} /\ clean => \A r \in Requests : status[r] # "running"

\* A run is settled once: neither its own goroutine nor AbandonRuns in a later
\* panel takes back what was said of it.
SettledOnce ==
  [][\A r \in Requests : status[r] \in {"done", "failed"} => status'[r] = status[r]]_vars

\* No run sits at "running" for ever: the generation ends, even when a new
\* kernel has never heard of its prompt, or a later panel abandons it.
RunsSettle ==
  \A r \in Requests : status[r] = "running" ~> (status[r] # "running" \/ panel = "exited")

\* A panel that was asked to leave does.
ShutdownCompletes == panel = "draining" ~> panel \in {"exited", "crashed"}

=============================================================================
