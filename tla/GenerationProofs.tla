--------------------------- MODULE GenerationProofs ---------------------------
(***************************************************************************)
(* What is proved of Generation, for any finite set of requests and any    *)
(* number of restarts: the job counter is exact, a done run has its file,  *)
(* a clean exit leaves no run running, and a settled run stays settled.    *)
(***************************************************************************)
EXTENDS Generation, FiniteSetTheorems, TLAPS

Jobs == {r \in Requests : pc[r] \in Generating}

\* Where a request is tells what its row and its file can be.
RowFollowsGeneration ==
  \A r \in Requests :
    /\ pc[r] \in {"idle", "read"} => status[r] = "none"
    /\ pc[r] = "launch" \/ pc[r] \in Generating \ {"leave"} => status[r] = "running"
    /\ pc[r] = "leave" => status[r] \in {"done", "failed"}
    /\ pc[r] = "finish" => media[r] = "whole"
    /\ pc[r] = "over" /\ Alive => status[r] # "running"

\* A clean shutdown has no handler left, and none comes in any more.
CleanMeansQuiet ==
  /\ panel \in {"up", "draining"} => ~clean
  /\ clean /\ panel \in {"waiting", "leaving"} => \A r \in Requests : pc[r] \notin Handling
  /\ clean /\ panel = "leaving" => Jobs = {}
  /\ ~Alive => \A r \in Requests : pc[r] \in {"idle", "over"}
  /\ panel \in {"draining", "waiting", "leaving"} => restarts < MaxRestarts

GenerationInv ==
  /\ TypeOK /\ JobsCountGenerations /\ RowFollowsGeneration /\ CleanMeansQuiet
  /\ DoneIsSaved /\ CleanExitSettles

-----------------------------------------------------------------------------
(* The counter *)

LEMMA JobsFinite == IsFiniteSet(Jobs) /\ Cardinality(Jobs) \in Nat
BY GenerationAssumption, FS_Subset, FS_CardinalityType DEF Jobs

\* A goroutine that is launched is one more, and one that leaves one less.
LEMMA JobAdded ==
  ASSUME NEW r \in Requests, r \notin Jobs, Jobs' = Jobs \cup {r}
  PROVE  Cardinality(Jobs') = Cardinality(Jobs) + 1
BY JobsFinite, FS_AddElement

LEMMA JobRemoved ==
  ASSUME NEW r \in Requests, r \in Jobs, Jobs' = Jobs \ {r}
  PROVE  Cardinality(Jobs') = Cardinality(Jobs) - 1
BY JobsFinite, FS_RemoveElement

-----------------------------------------------------------------------------
(* One lemma per kind of step *)

\* The handler; only Launch changes the counter.
LEMMA HandlerKeeps ==
  ASSUME GenerationInv, NEW r \in Requests, Arrive(r) \/ HandlerStep(r)
  PROVE  GenerationInv'
<1> USE DEF GenerationInv, RowFollowsGeneration, CleanMeansQuiet, DoneIsSaved, CleanExitSettles,
            JobsCountGenerations, TypeOK, Alive, Handling, Waits, Generating, kernelVars, Jobs
<1> USE DEF Goto, PanelStays
<1>1. CASE Arrive(r)  BY <1>1 DEF Arrive
<1>2. CASE Reject(r)  BY <1>2 DEF Reject
<1>3. CASE CreateRun(r)  BY <1>3 DEF CreateRun
<1>4. CASE Launch(r)
  <2>1. Jobs' = Jobs \cup {r} /\ r \notin Jobs  BY <1>4 DEF Launch
  <2>2. Cardinality(Jobs') = Cardinality(Jobs) + 1  BY <2>1, JobAdded
  <2>3. JobsCountGenerations'  BY <1>4, <2>2 DEF Launch
  <2>4. QED  BY <1>4, <2>3 DEF Launch
<1>5. QED  BY <1>1, <1>2, <1>3, <1>4 DEF HandlerStep

\* The goroutine; only Leave changes the counter, and it finds itself in it.
LEMMA GenerationKeeps ==
  ASSUME GenerationInv, NEW r \in Requests, GenerationStep(r)
  PROVE  GenerationInv'
<1> USE DEF GenerationInv, RowFollowsGeneration, CleanMeansQuiet, DoneIsSaved, CleanExitSettles,
            JobsCountGenerations, TypeOK, Alive, Handling, Waits, Generating, kernelVars, Jobs
<1> USE DEF Goto, PanelStays, RunStays
<1>1. CASE FindKernel(r)  BY <1>1 DEF FindKernel
<1>2. CASE Submit(r)  BY <1>2 DEF Submit
<1>3. CASE FindOutputs(r)  BY <1>3 DEF FindOutputs
<1>4. CASE Fetch(r)  BY <1>4 DEF Fetch
<1>5. CASE GiveUp(r)  BY <1>5 DEF GiveUp
<1>6. CASE OpenFile(r)  BY <1>6 DEF OpenFile
<1>7. CASE FillFile(r)  BY <1>7 DEF FillFile
<1>8. CASE FinishRun(r)  BY <1>8 DEF FinishRun
<1>9. CASE FailRun(r)  BY <1>9 DEF FailRun
<1>10. CASE Leave(r)
  <2>1. Jobs' = Jobs \ {r} /\ r \in Jobs  BY <1>10 DEF Leave
  <2>2. Cardinality(Jobs') = Cardinality(Jobs) - 1 /\ Cardinality(Jobs') \in Nat
    BY <2>1, JobRemoved, FS_RemoveElement, FS_CardinalityType, JobsFinite
  <2>3. JobsCountGenerations' /\ jobs' \in Nat  BY <1>10, <2>2 DEF Leave
  <2>4. QED  BY <1>10, <2>3 DEF Leave
<1>11. QED
  BY <1>1, <1>2, <1>3, <1>4, <1>5, <1>6, <1>7, <1>8, <1>9, <1>10 DEF GenerationStep

\* The kernel touches nothing the invariant speaks of but its own variables.
LEMMA KernelKeeps ==
  ASSUME GenerationInv, KernelStep
  PROVE  GenerationInv'
<1> USE DEF GenerationInv, RowFollowsGeneration, CleanMeansQuiet, DoneIsSaved, CleanExitSettles,
            JobsCountGenerations, TypeOK, Alive, Handling, Waits, Generating, kernelVars, Jobs
<1> USE DEF OthersStay
<1>1. CASE KernelMoves
  BY <1>1 DEF KernelMoves, View!Boots, View!Answered, View!Found, View!Gone
<1>2. CASE KernelEnds  BY <1>2 DEF KernelEnds, View!Ends
<1>3. CASE \E r \in Requests : PromptEnds(r)  BY <1>3 DEF PromptEnds
<1>4. QED  BY <1>1, <1>2, <1>3 DEF KernelStep

\* The panel: an empty counter means that nobody is left, and a process that
\* ends leaves no goroutine behind.
LEMMA PanelKeeps ==
  ASSUME GenerationInv,
         SigTerm \/ ShutdownReturns \/ WaitReturns \/ Exit \/ Crash \/ Restart
  PROVE  GenerationInv'
<1> USE DEF GenerationInv, RowFollowsGeneration, CleanMeansQuiet, DoneIsSaved, CleanExitSettles,
            JobsCountGenerations, TypeOK, Alive, Handling, Waits, Generating, kernelVars, Jobs
<1> USE GenerationAssumption
<1>1. CASE SigTerm  BY <1>1 DEF SigTerm
<1>2. CASE ShutdownReturns  BY <1>2 DEF ShutdownReturns
<1>3. CASE WaitReturns
  <2>1. Jobs = {}  BY <1>3, JobsFinite, FS_EmptySet DEF WaitReturns
  <2>2. QED  BY <1>3, <2>1 DEF WaitReturns
<1>4. CASE Exit \/ Crash
  <2>1. Jobs' = {}  BY <1>4 DEF Exit, Crash, EndProcess
  <2>2. JobsCountGenerations'  BY <1>4, <2>1, FS_EmptySet DEF Exit, Crash, EndProcess
  <2>3. TypeOK'
    <3>1. MaxRestarts \in Nat /\ restarts \in 0..MaxRestarts /\ restarts < MaxRestarts
      BY <1>4 DEF Exit, Crash
    <3>2. restarts' \in 0..MaxRestarts  BY <1>4, <3>1 DEF Exit, Crash, EndProcess
    <3>3. pc' \in [Requests -> {"idle", "over"}]  BY <1>4 DEF Exit, Crash, EndProcess
    <3>4. panel' \in {"exited", "crashed"} /\ ready' = FALSE /\ seen' = FALSE /\ jobs' \in Nat
      BY <1>4 DEF Exit, Crash, EndProcess
    <3>5. UNCHANGED <<clean, serving, status, media, history>>
      BY <1>4 DEF Exit, Crash, EndProcess
    <3>6. QED  BY <3>2, <3>3, <3>4, <3>5
  <2>4. RowFollowsGeneration' /\ CleanMeansQuiet' /\ DoneIsSaved' /\ CleanExitSettles'
    BY <1>4, <2>1 DEF Exit, Crash, EndProcess
  <2>5. QED  BY <2>2, <2>3, <2>4
<1>5. CASE Restart  BY <1>5 DEF Restart, AbandonRuns
<1>6. QED  BY <1>1, <1>2, <1>3, <1>4, <1>5

LEMMA GenerationInvariant == Spec => []GenerationInv
<1>1. Init => GenerationInv
  <2> SUFFICES ASSUME Init PROVE GenerationInv  OBVIOUS
  <2>1. Jobs = {}  BY DEF Init, Jobs, Generating, Waits
  <2>2. JobsCountGenerations  BY <2>1, FS_EmptySet DEF Init, JobsCountGenerations, Jobs
  <2>3. TypeOK
    <3>1. MaxRestarts \in Nat  BY GenerationAssumption
    <3>2. /\ panel \in {"up"} /\ clean \in BOOLEAN
          /\ ready \in BOOLEAN /\ serving \in BOOLEAN /\ seen \in BOOLEAN
      BY DEF Init
    <3>3. jobs \in Nat /\ restarts \in 0..MaxRestarts  BY <3>1 DEF Init
    <3>4. pc \in [Requests -> {"idle"}] /\ history \in [Requests -> {"unknown"}]  BY DEF Init
    <3>5. status \in [Requests -> {"none"}] /\ media \in [Requests -> {"none"}]  BY DEF Init
    <3>6. QED  BY <3>2, <3>3, <3>4, <3>5 DEF TypeOK
  <2>4. RowFollowsGeneration /\ CleanMeansQuiet /\ DoneIsSaved /\ CleanExitSettles
    BY DEF Init, RowFollowsGeneration, CleanMeansQuiet, DoneIsSaved, CleanExitSettles,
           Alive, Generating, Waits
  <2>5. QED  BY <2>2, <2>3, <2>4 DEF GenerationInv
<1>2. GenerationInv /\ [Next]_vars => GenerationInv'
  <2> SUFFICES ASSUME GenerationInv, [Next]_vars PROVE GenerationInv'  OBVIOUS
  <2>1. CASE UNCHANGED vars
    BY <2>1 DEF vars, kernelVars, GenerationInv, TypeOK, JobsCountGenerations, RowFollowsGeneration,
                CleanMeansQuiet, DoneIsSaved, CleanExitSettles, Alive, Jobs
  <2>2. CASE Next  BY <2>2, HandlerKeeps, GenerationKeeps, KernelKeeps, PanelKeeps DEF Next
  <2>3. QED  BY <2>1, <2>2
<1>3. QED  BY <1>1, <1>2, PTL DEF Spec

-----------------------------------------------------------------------------
(* The theorems *)

\* Type correctness: above all, jobs.Done is never called once too often.
THEOREM GenerationTyped == Spec => []TypeOK
BY GenerationInvariant, PTL DEF GenerationInv

\* App.jobs counts the goroutines of startGeneration exactly, so app.Wait
\* returns when, and only when, the last of them has called Done.
THEOREM JobsExact == Spec => []JobsCountGenerations
BY GenerationInvariant, PTL DEF GenerationInv

\* A row is only marked done by FinishRun after os.WriteFile has succeeded,
\* and nothing marks it done later.
THEOREM DoneSaved == Spec => []DoneIsSaved
BY GenerationInvariant, PTL DEF GenerationInv

\* srv.Shutdown without a timeout, then app.Wait: no run is left running.
THEOREM CleanExits == Spec => []CleanExitSettles
BY GenerationInvariant, PTL DEF GenerationInv

\* FinishRun and FailRun are not conditional on the row's status, and yet no
\* row is settled twice: the goroutine settles its own row once, and
\* AbandonRuns only runs when no goroutine is left.
THEOREM RunsSettledOnce == Spec => SettledOnce
<1>1. GenerationInv /\ [Next]_vars =>
        [\A r \in Requests : status[r] \in {"done", "failed"} => status'[r] = status[r]]_vars
  <2> SUFFICES ASSUME GenerationInv, Next, NEW r \in Requests, status[r] \in {"done", "failed"}
               PROVE  status'[r] = status[r]
    OBVIOUS
  <2> USE DEF GenerationInv, RowFollowsGeneration, TypeOK, Generating, Waits, kernelVars
  <2>1. CASE \E q \in Requests : Arrive(q) \/ HandlerStep(q)
    BY <2>1 DEF Arrive, HandlerStep, Reject, CreateRun, Launch
  <2>2. CASE \E q \in Requests : GenerationStep(q)
    BY <2>2 DEF GenerationStep, RunStays, FindKernel, Submit, FindOutputs, Fetch, GiveUp,
                OpenFile, FillFile, FinishRun, FailRun, Leave
  <2>3. CASE KernelStep
    BY <2>3 DEF KernelStep, OthersStay, KernelMoves, KernelEnds, PromptEnds
  <2>4. CASE SigTerm \/ ShutdownReturns \/ WaitReturns \/ Exit \/ Crash \/ Restart
    BY <2>4 DEF SigTerm, ShutdownReturns, WaitReturns, Exit, Crash, EndProcess, Restart, AbandonRuns
  <2>5. QED  BY <2>1, <2>2, <2>3, <2>4 DEF Next
<1>2. QED  BY <1>1, GenerationInvariant, PTL DEF Spec, SettledOnce

-----------------------------------------------------------------------------
(* The kernel it works with *)

\* Outside of KernelStep nothing but the ends and the starts of the panel
\* touches what it believes of the kernel.
LEMMA GenerationsLeaveKernel ==
  ASSUME NEW r \in Requests, Arrive(r) \/ HandlerStep(r) \/ GenerationStep(r)
  PROVE  UNCHANGED <<panel, ready, serving, seen>>
<1> USE DEF PanelStays, RunStays, kernelVars
<1>1. CASE Arrive(r) \/ HandlerStep(r)
  BY <1>1 DEF Arrive, HandlerStep, Reject, CreateRun, Launch
<1>2. CASE GenerationStep(r)
  BY <1>2 DEF GenerationStep, FindKernel, Submit, FindOutputs, Fetch, GiveUp, OpenFile, FillFile,
              FinishRun, FailRun, Leave
<1>3. QED  BY <1>1, <1>2

\* The generations, the handlers and the panel around them keep to KernelView:
\* what they assume of the kernel is what KernelLifecycle is proved to show.
THEOREM GenerationKeepsView == Spec => KeepsView
<1>1. Init => View!ViewInit  BY DEF Init, View!ViewInit, Alive
<1>2. [Next]_vars => [View!ViewNext]_(View!viewVars)
  <2> SUFFICES ASSUME [Next]_vars PROVE [View!ViewNext]_(View!viewVars)  OBVIOUS
  <2> USE DEF View!viewVars, Alive
  <2>1. CASE UNCHANGED vars  BY <2>1 DEF vars, kernelVars
  <2>2. CASE \E r \in Requests : Arrive(r) \/ HandlerStep(r) \/ GenerationStep(r)
    BY <2>2, GenerationsLeaveKernel
  <2>3. CASE KernelStep
    BY <2>3 DEF KernelStep, KernelMoves, KernelEnds, PromptEnds, OthersStay, View!ViewNext
  <2>4. CASE SigTerm \/ ShutdownReturns \/ WaitReturns
    BY <2>4 DEF SigTerm, ShutdownReturns, WaitReturns, kernelVars
  <2>5. CASE Exit \/ Crash
    <3>1. View!Leave  BY <2>5 DEF Exit, Crash, EndProcess, View!Leave
    <3>2. QED  BY <3>1 DEF View!ViewNext
  <2>6. CASE Restart
    <3>1. View!Return  BY <2>6 DEF Restart, View!Return
    <3>2. QED  BY <3>1 DEF View!ViewNext
  <2>7. QED  BY <2>1, <2>2, <2>3, <2>4, <2>5, <2>6 DEF Next
<1>3. QED  BY <1>1, <1>2, PTL DEF Spec, KeepsView, View!ViewSpec

=============================================================================
