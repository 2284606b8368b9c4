--------------------------- MODULE IdleStopProofs ---------------------------
(***************************************************************************)
(* What is proved of IdleStop, for any number of generations, any limits   *)
(* and any cap: a kernel ends of itself, not while a generation works with *)
(* it, and the panel's own idle stop comes after the runner's.             *)
(***************************************************************************)
EXTENDS IdleStop, TLAPS

\* Who can be where: the supervisor, a start and the requests at the edge.
Places ==
  /\ sup \in {"probe", "decide"} => panel = "ready"
  /\ sup = "quiet" <=> panel = "stopping"
  /\ panel = "ready" => kernel # "boot"
  /\ panel = "down" => activity = 0
  /\ \A j \in Jobs :
       /\ panel = "down" => job[j] \in {"none", "orphan"}
       /\ job[j] = "start" => panel = "starting"
       /\ job[j] \in Proxied \cup {"orphan"} => kernel = "up"

\* No two generations are inside start.
OneStarts == \A i, j \in Jobs : job[i] = "start" /\ job[j] = "start" => i = j

\* The runner's clock is no older than the phase of any generation at work.
IdleFollowsUse ==
  \A j \in Jobs : job[j] \in InUse \cup {"orphan"} /\ kernel = "up" => idle <= age[j]

\* The panel's clock lags by the requests that do not touch it.
ActivityFollowsUse ==
  \A j \in Jobs :
    /\ job[j] \in {"asked", "history"} => activity <= age[j]
    /\ job[j] \in {"submit", "fetch"}  => activity <= RequestTime + age[j]
    /\ job[j] = "poll" => activity <= 2 * RequestTime + age[j]
    /\ job[j] = "orphan" /\ panel # "down" => activity <= RequestTime + age[j]

\* Nothing touches the runner's clock that the panel hears of much later.
ClocksAgree == panel = "ready" /\ kernel = "up" => activity <= idle + 2 * RequestTime

\* A loop that does not hang has seen the limits less than one unit ago.
LoopLooks ==
  /\ kernel = "boot" => uptime <= BootTime
  /\ kernel # "up" => ~wedged
  /\ kernel = "up" /\ ~wedged =>
       /\ uptime <= SessionCap + 1 /\ (looked => uptime <= SessionCap)
       /\ baked > 0 => idle <= baked + 1 /\ (looked => idle <= baked)

IdleInv ==
  /\ TypeOK /\ Places /\ OneStarts /\ IdleFollowsUse /\ ActivityFollowsUse
  /\ ClocksAgree /\ LoopLooks

\* TypeOK in two parts, one for each kind of prover.
Flags == stop \in BOOLEAN /\ looked \in BOOLEAN /\ wedged \in BOOLEAN /\ row \in BOOLEAN

Values ==
  /\ setting \in Settings /\ baked \in Settings /\ cfg \in Settings
  /\ kernel \in {"off", "boot", "up"}
  /\ idle \in Clock /\ uptime \in 0..(SessionCap + 2) /\ activity \in Clock /\ read \in Clock
  /\ panel \in {"down", "stopped", "starting", "ready", "stopping"}
  /\ sup \in {"sleep", "probe", "decide", "quiet"}
  /\ supAge \in 0..(1 + ProbeTime + StopWait)
  /\ job \in [Jobs -> {"none", "start", "asked", "orphan", "broken"} \cup InUse]
  /\ age \in [Jobs -> 0..RequestTime]

-----------------------------------------------------------------------------
(* One lemma per process *)

\* The runner: what ends it cuts the requests it was working on.
LEMMA RunnerKeeps ==
  ASSUME IdleInv, RunnerUp \/ RunnerBreaks \/ RunnerWedges \/ RunnerLooks
  PROVE  IdleInv'
<1> USE IdleAssumption
<1> USE DEF IdleInv, TypeOK, Places, OneStarts, IdleFollowsUse, ActivityFollowsUse, ClocksAgree,
            LoopLooks, Settings, Clock, InUse, Proxied, kernelVars, supVars, jobVars
<1>1. CASE RunnerUp
  <2>1. TypeOK'
    <3>1. Flags'  BY Zenon, <1>1 DEF RunnerUp, Flags
    <3>2. Values'  BY <1>1 DEF RunnerUp, Values
    <3>3. QED  BY <3>1, <3>2 DEF Flags, Values
  <2>2. Places' /\ OneStarts'  BY <1>1 DEF RunnerUp
  <2>3. IdleFollowsUse' /\ ActivityFollowsUse'  BY <1>1 DEF RunnerUp
  <2>4. ClocksAgree' /\ LoopLooks'  BY <1>1 DEF RunnerUp
  <2>5. QED  BY <2>1, <2>2, <2>3, <2>4 DEF IdleInv
<1>2. CASE RunnerBreaks
  <2>1. TypeOK'
    <3>1. Flags'  BY Zenon, <1>2 DEF RunnerBreaks, EndKernel, Cut, Flags
    <3>2. Values'  BY <1>2 DEF RunnerBreaks, EndKernel, Cut, Values
    <3>3. QED  BY <3>1, <3>2 DEF Flags, Values
  <2>2. Places' /\ OneStarts'  BY <1>2 DEF RunnerBreaks, EndKernel, Cut
  <2>3. IdleFollowsUse' /\ ActivityFollowsUse'  BY <1>2 DEF RunnerBreaks, EndKernel, Cut
  <2>4. ClocksAgree' /\ LoopLooks'  BY <1>2 DEF RunnerBreaks, EndKernel, Cut
  <2>5. QED  BY <2>1, <2>2, <2>3, <2>4 DEF IdleInv
<1>3. CASE RunnerWedges
  <2>1. TypeOK'  BY <1>3 DEF RunnerWedges
  <2>2. Places' /\ OneStarts'  BY <1>3 DEF RunnerWedges
  <2>3. IdleFollowsUse' /\ ActivityFollowsUse'  BY <1>3 DEF RunnerWedges
  <2>4. ClocksAgree' /\ LoopLooks'  BY <1>3 DEF RunnerWedges
  <2>5. QED  BY <2>1, <2>2, <2>3, <2>4 DEF IdleInv
<1>4. CASE RunnerLooks
  <2>1. TypeOK'
    <3>1. Flags'  BY Zenon, <1>4 DEF RunnerLooks, EndKernel, Cut, Looking, Asked, IdleOut, CappedOut, Flags
    <3>2. Values'  BY <1>4 DEF RunnerLooks, EndKernel, Cut, Looking, Asked, IdleOut, CappedOut, Values
    <3>3. QED  BY <3>1, <3>2 DEF Flags, Values
  <2>2. Places' /\ OneStarts'  BY <1>4 DEF RunnerLooks, EndKernel, Cut, Looking, Asked, IdleOut, CappedOut
  <2>3. IdleFollowsUse' /\ ActivityFollowsUse'  BY <1>4 DEF RunnerLooks, EndKernel, Cut, Looking, Asked, IdleOut, CappedOut
  <2>4. ClocksAgree' /\ LoopLooks'  BY <1>4 DEF RunnerLooks, EndKernel, Cut, Looking, Asked, IdleOut, CappedOut
  <2>5. QED  BY <2>1, <2>2, <2>3, <2>4 DEF IdleInv
<1>5. QED  BY <1>1, <1>2, <1>3, <1>4

\* A generation finds the kernel ready, or starts it.
LEMMA ArrivalKeeps ==
  ASSUME IdleInv, NEW j \in Jobs, FindReady(j) \/ BeginStart(j) \/ StartAnswered(j) \/ StartFails(j)
  PROVE  IdleInv'
<1> USE IdleAssumption
<1> USE DEF IdleInv, TypeOK, Places, OneStarts, IdleFollowsUse, ActivityFollowsUse, ClocksAgree,
            LoopLooks, Settings, Clock, InUse, Proxied, kernelVars, supVars, jobVars
<1> USE DEF Goes, JobStays
<1>1. CASE FindReady(j)
  <2>1. TypeOK'  BY <1>1 DEF FindReady
  <2>2. Places' /\ OneStarts'  BY <1>1 DEF FindReady
  <2>3. IdleFollowsUse' /\ ActivityFollowsUse'  BY <1>1 DEF FindReady
  <2>4. ClocksAgree' /\ LoopLooks'  BY <1>1 DEF FindReady
  <2>5. QED  BY <2>1, <2>2, <2>3, <2>4 DEF IdleInv
<1>2. CASE BeginStart(j)
  <2>1. TypeOK'  BY <1>2 DEF BeginStart
  <2>2. Places' /\ OneStarts'  BY <1>2 DEF BeginStart
  <2>3. IdleFollowsUse' /\ ActivityFollowsUse'  BY <1>2 DEF BeginStart
  <2>4. ClocksAgree' /\ LoopLooks'  BY <1>2 DEF BeginStart
  <2>5. QED  BY <2>1, <2>2, <2>3, <2>4 DEF IdleInv
<1>3. CASE StartAnswered(j)
  <2>1. TypeOK'  BY <1>3 DEF StartAnswered
  <2>2. Places' /\ OneStarts'  BY <1>3 DEF StartAnswered
  <2>3. IdleFollowsUse' /\ ActivityFollowsUse'  BY <1>3 DEF StartAnswered
  <2>4. ClocksAgree' /\ LoopLooks'  BY <1>3 DEF StartAnswered
  <2>5. QED  BY <2>1, <2>2, <2>3, <2>4 DEF IdleInv
<1>4. CASE StartFails(j)
  <2>1. TypeOK'
    <3>1. Flags'  BY Zenon, <1>4 DEF StartFails, Flags
    <3>2. Values'  BY <1>4 DEF StartFails, Values
    <3>3. QED  BY <3>1, <3>2 DEF Flags, Values
  <2>2. Places' /\ OneStarts'  BY <1>4 DEF StartFails
  <2>3. IdleFollowsUse' /\ ActivityFollowsUse'  BY <1>4 DEF StartFails
  <2>4. ClocksAgree' /\ LoopLooks'  BY <1>4 DEF StartFails
  <2>5. QED  BY <2>1, <2>2, <2>3, <2>4 DEF IdleInv
<1>5. QED  BY <1>1, <1>2, <1>3, <1>4

\* A generation at work.
LEMMA RequestKeeps ==
  ASSUME IdleInv, NEW j \in Jobs, Submit(j) \/ SubmitAnswered(j) \/ Poll(j) \/ HistoryAnswered(j) \/ FetchAnswered(j)
           \/ JobFails(j) \/ OrphanDone(j)
  PROVE  IdleInv'
<1> USE IdleAssumption
<1> USE DEF IdleInv, TypeOK, Places, OneStarts, IdleFollowsUse, ActivityFollowsUse, ClocksAgree,
            LoopLooks, Settings, Clock, InUse, Proxied, kernelVars, supVars, jobVars
<1> USE DEF Goes, JobStays
<1>1. CASE Submit(j)
  <2>1. TypeOK'  BY <1>1 DEF Submit
  <2>2. Places' /\ OneStarts'  BY <1>1 DEF Submit
  <2>3. IdleFollowsUse' /\ ActivityFollowsUse'  BY <1>1 DEF Submit
  <2>4. ClocksAgree' /\ LoopLooks'  BY <1>1 DEF Submit
  <2>5. QED  BY <2>1, <2>2, <2>3, <2>4 DEF IdleInv
<1>2. CASE SubmitAnswered(j)
  <2>1. TypeOK'  BY <1>2 DEF SubmitAnswered
  <2>2. Places' /\ OneStarts'  BY <1>2 DEF SubmitAnswered
  <2>3. IdleFollowsUse' /\ ActivityFollowsUse'  BY <1>2 DEF SubmitAnswered
  <2>4. ClocksAgree' /\ LoopLooks'  BY <1>2 DEF SubmitAnswered
  <2>5. QED  BY <2>1, <2>2, <2>3, <2>4 DEF IdleInv
<1>3. CASE Poll(j)
  <2>1. TypeOK'  BY <1>3 DEF Poll
  <2>2. Places' /\ OneStarts'  BY <1>3 DEF Poll
  <2>3. IdleFollowsUse' /\ ActivityFollowsUse'  BY <1>3 DEF Poll
  <2>4. ClocksAgree' /\ LoopLooks'  BY <1>3 DEF Poll
  <2>5. QED  BY <2>1, <2>2, <2>3, <2>4 DEF IdleInv
<1>4. CASE HistoryAnswered(j)
  <2>1. TypeOK'  BY <1>4 DEF HistoryAnswered
  <2>2. Places' /\ OneStarts'  BY <1>4 DEF HistoryAnswered
  <2>3. IdleFollowsUse' /\ ActivityFollowsUse'  BY <1>4 DEF HistoryAnswered
  <2>4. ClocksAgree' /\ LoopLooks'  BY <1>4 DEF HistoryAnswered
  <2>5. QED  BY <2>1, <2>2, <2>3, <2>4 DEF IdleInv
<1>5. CASE FetchAnswered(j)
  <2>1. TypeOK'  BY <1>5 DEF FetchAnswered
  <2>2. Places' /\ OneStarts'  BY <1>5 DEF FetchAnswered
  <2>3. IdleFollowsUse' /\ ActivityFollowsUse'  BY <1>5 DEF FetchAnswered
  <2>4. ClocksAgree' /\ LoopLooks'  BY <1>5 DEF FetchAnswered
  <2>5. QED  BY <2>1, <2>2, <2>3, <2>4 DEF IdleInv
<1>6. CASE JobFails(j)
  <2>1. TypeOK'  BY <1>6 DEF JobFails
  <2>2. Places' /\ OneStarts'  BY <1>6 DEF JobFails
  <2>3. IdleFollowsUse' /\ ActivityFollowsUse'  BY <1>6 DEF JobFails
  <2>4. ClocksAgree' /\ LoopLooks'  BY <1>6 DEF JobFails
  <2>5. QED  BY <2>1, <2>2, <2>3, <2>4 DEF IdleInv
<1>7. CASE OrphanDone(j)
  <2>1. TypeOK'  BY <1>7 DEF OrphanDone
  <2>2. Places' /\ OneStarts'  BY <1>7 DEF OrphanDone
  <2>3. IdleFollowsUse' /\ ActivityFollowsUse'  BY <1>7 DEF OrphanDone
  <2>4. ClocksAgree' /\ LoopLooks'  BY <1>7 DEF OrphanDone
  <2>5. QED  BY <2>1, <2>2, <2>3, <2>4 DEF IdleInv
<1>8. QED  BY <1>1, <1>2, <1>3, <1>4, <1>5, <1>6, <1>7

\* The supervisor.
LEMMA SuperviseKeeps ==
  ASSUME IdleInv, SuperviseStep \/ BudgetStop
  PROVE  IdleInv'
<1> USE IdleAssumption
<1> USE DEF IdleInv, TypeOK, Places, OneStarts, IdleFollowsUse, ActivityFollowsUse, ClocksAgree,
            LoopLooks, Settings, Clock, InUse, Proxied, kernelVars, supVars, jobVars
<1> USE DEF SupGoes, SupStays
<1>1. CASE Tick
  <2>1. TypeOK'  BY <1>1 DEF Tick
  <2>2. Places' /\ OneStarts'  BY <1>1 DEF Tick
  <2>3. IdleFollowsUse' /\ ActivityFollowsUse'  BY <1>1 DEF Tick
  <2>4. ClocksAgree' /\ LoopLooks'  BY <1>1 DEF Tick
  <2>5. QED  BY <2>1, <2>2, <2>3, <2>4 DEF IdleInv
<1>2. CASE ProbeFails
  <2>1. TypeOK'
    <3>1. Flags'  BY Zenon, <1>2 DEF ProbeFails, Forget, Flags
    <3>2. Values'  BY <1>2 DEF ProbeFails, Forget, Values
    <3>3. QED  BY <3>1, <3>2 DEF Flags, Values
  <2>2. Places' /\ OneStarts'  BY <1>2 DEF ProbeFails, Forget
  <2>3. IdleFollowsUse' /\ ActivityFollowsUse'  BY <1>2 DEF ProbeFails, Forget
  <2>4. ClocksAgree' /\ LoopLooks'  BY <1>2 DEF ProbeFails, Forget
  <2>5. QED  BY <2>1, <2>2, <2>3, <2>4 DEF IdleInv
<1>3. CASE ProbeAnswered
  <2>1. TypeOK'  BY <1>3 DEF ProbeAnswered
  <2>2. Places' /\ OneStarts'  BY <1>3 DEF ProbeAnswered
  <2>3. IdleFollowsUse' /\ ActivityFollowsUse'  BY <1>3 DEF ProbeAnswered
  <2>4. ClocksAgree' /\ LoopLooks'  BY <1>3 DEF ProbeAnswered
  <2>5. QED  BY <2>1, <2>2, <2>3, <2>4 DEF IdleInv
<1>4. CASE IdleStop
  <2>1. TypeOK'
    <3>1. Flags'  BY Zenon, <1>4 DEF IdleStop, EnterStop, Forget, IdlePastLimit, Flags
    <3>2. Values'  BY <1>4 DEF IdleStop, EnterStop, Forget, IdlePastLimit, Values
    <3>3. QED  BY <3>1, <3>2 DEF Flags, Values
  <2>2. Places' /\ OneStarts'  BY <1>4 DEF IdleStop, EnterStop, Forget, IdlePastLimit
  <2>3. IdleFollowsUse' /\ ActivityFollowsUse'  BY <1>4 DEF IdleStop, EnterStop, Forget, IdlePastLimit
  <2>4. ClocksAgree' /\ LoopLooks'  BY <1>4 DEF IdleStop, EnterStop, Forget, IdlePastLimit
  <2>5. QED  BY <2>1, <2>2, <2>3, <2>4 DEF IdleInv
<1>5. CASE BudgetStop
  <2>1. TypeOK'
    <3>1. Flags'  BY Zenon, <1>5 DEF BudgetStop, EnterStop, Forget, Flags
    <3>2. Values'  BY <1>5 DEF BudgetStop, EnterStop, Forget, Values
    <3>3. QED  BY <3>1, <3>2 DEF Flags, Values
  <2>2. Places' /\ OneStarts'  BY <1>5 DEF BudgetStop, EnterStop, Forget
  <2>3. IdleFollowsUse' /\ ActivityFollowsUse'  BY <1>5 DEF BudgetStop, EnterStop, Forget
  <2>4. ClocksAgree' /\ LoopLooks'  BY <1>5 DEF BudgetStop, EnterStop, Forget
  <2>5. QED  BY <2>1, <2>2, <2>3, <2>4 DEF IdleInv
<1>6. CASE KeepRunning
  <2>1. TypeOK'  BY <1>6 DEF KeepRunning, Forget
  <2>2. Places' /\ OneStarts'  BY <1>6 DEF KeepRunning, Forget
  <2>3. IdleFollowsUse' /\ ActivityFollowsUse'  BY <1>6 DEF KeepRunning, Forget
  <2>4. ClocksAgree' /\ LoopLooks'  BY <1>6 DEF KeepRunning, Forget
  <2>5. QED  BY <2>1, <2>2, <2>3, <2>4 DEF IdleInv
<1>7. CASE Settle
  <2>1. TypeOK'
    <3>1. Flags'  BY Zenon, <1>7 DEF Settle, Forget, Flags
    <3>2. Values'  BY <1>7 DEF Settle, Forget, Values
    <3>3. QED  BY <3>1, <3>2 DEF Flags, Values
  <2>2. Places' /\ OneStarts'  BY <1>7 DEF Settle, Forget
  <2>3. IdleFollowsUse' /\ ActivityFollowsUse'  BY <1>7 DEF Settle, Forget
  <2>4. ClocksAgree' /\ LoopLooks'  BY <1>7 DEF Settle, Forget
  <2>5. QED  BY <2>1, <2>2, <2>3, <2>4 DEF IdleInv
<1>8. QED  BY <1>1, <1>2, <1>3, <1>4, <1>5, <1>6, <1>7 DEF SuperviseStep

\* The panel process and the settings.
LEMMA PanelKeeps ==
  ASSUME IdleInv, EndPanel \/ AdoptLive \/ AdoptNothing \/ SaveSettings
  PROVE  IdleInv'
<1> USE IdleAssumption
<1> USE DEF IdleInv, TypeOK, Places, OneStarts, IdleFollowsUse, ActivityFollowsUse, ClocksAgree,
            LoopLooks, Settings, Clock, InUse, Proxied, kernelVars, supVars, jobVars
<1>1. CASE EndPanel
  <2>1. TypeOK'  BY <1>1 DEF EndPanel, SupGoes, Forget
  <2>2. Places' /\ OneStarts'  BY <1>1 DEF EndPanel, SupGoes, Forget
  <2>3. IdleFollowsUse' /\ ActivityFollowsUse'  BY <1>1 DEF EndPanel, SupGoes, Forget
  <2>4. ClocksAgree' /\ LoopLooks'  BY <1>1 DEF EndPanel, SupGoes, Forget
  <2>5. QED  BY <2>1, <2>2, <2>3, <2>4 DEF IdleInv
<1>2. CASE AdoptLive
  <2>1. TypeOK'  BY <1>2 DEF AdoptLive
  <2>2. Places' /\ OneStarts'  BY <1>2 DEF AdoptLive
  <2>3. IdleFollowsUse' /\ ActivityFollowsUse'  BY <1>2 DEF AdoptLive
  <2>4. ClocksAgree' /\ LoopLooks'  BY <1>2 DEF AdoptLive
  <2>5. QED  BY <2>1, <2>2, <2>3, <2>4 DEF IdleInv
<1>3. CASE AdoptNothing
  <2>1. TypeOK'  BY <1>3 DEF AdoptNothing
  <2>2. Places' /\ OneStarts'  BY <1>3 DEF AdoptNothing
  <2>3. IdleFollowsUse' /\ ActivityFollowsUse'  BY <1>3 DEF AdoptNothing
  <2>4. ClocksAgree' /\ LoopLooks'  BY <1>3 DEF AdoptNothing
  <2>5. QED  BY <2>1, <2>2, <2>3, <2>4 DEF IdleInv
<1>4. CASE SaveSettings
  <2>1. TypeOK'  BY <1>4 DEF SaveSettings
  <2>2. Places' /\ OneStarts'  BY <1>4 DEF SaveSettings
  <2>3. IdleFollowsUse' /\ ActivityFollowsUse'  BY <1>4 DEF SaveSettings
  <2>4. ClocksAgree' /\ LoopLooks'  BY <1>4 DEF SaveSettings
  <2>5. QED  BY <2>1, <2>2, <2>3, <2>4 DEF IdleInv
<1>5. QED  BY <1>1, <1>2, <1>3, <1>4

\* Time: every clock that is due has been attended to before.
LEMMA PassKeeps ==
  ASSUME IdleInv, Pass
  PROVE  IdleInv'
<1> USE IdleAssumption
<1> USE DEF IdleInv, TypeOK, Places, OneStarts, IdleFollowsUse, ActivityFollowsUse, ClocksAgree,
            LoopLooks, Settings, Clock, InUse, Proxied, kernelVars, supVars, jobVars
<1>1. CASE Pass
  <2>1. TypeOK'
    <3>1. Flags'  BY Zenon, <1>1 DEF Pass, MayPass, Later, Flags
    <3>2. Values'  BY <1>1 DEF Pass, MayPass, Later, Values
    <3>3. QED  BY <3>1, <3>2 DEF Flags, Values
  <2>2. Places' /\ OneStarts'  BY <1>1 DEF Pass, MayPass, Later
  <2>3. IdleFollowsUse' /\ ActivityFollowsUse'  BY <1>1 DEF Pass, MayPass, Later
  <2>4. ClocksAgree' /\ LoopLooks'  BY <1>1 DEF Pass, MayPass, Later
  <2>5. QED  BY <2>1, <2>2, <2>3, <2>4 DEF IdleInv
<1>2. QED  BY <1>1

-----------------------------------------------------------------------------
(* The theorems *)

LEMMA IdleInvariant == Spec => []IdleInv
<1>1. Init => IdleInv
  <2> SUFFICES ASSUME Init PROVE IdleInv  OBVIOUS
  <2>1. Flags  BY Zenon DEF Init, Flags
  <2>2. Values  BY IdleAssumption DEF Init, Values, Settings, Clock
  <2>3. TypeOK  BY <2>1, <2>2 DEF TypeOK, Flags, Values
  <2>4. Places /\ OneStarts /\ IdleFollowsUse /\ ActivityFollowsUse /\ ClocksAgree /\ LoopLooks
    BY DEF Init, Places, OneStarts, IdleFollowsUse, ActivityFollowsUse, ClocksAgree, LoopLooks,
           InUse, Proxied
  <2>5. QED  BY <2>3, <2>4 DEF IdleInv
<1>2. IdleInv /\ [Next]_vars => IdleInv'
  <2> SUFFICES ASSUME IdleInv, [Next]_vars PROVE IdleInv'  OBVIOUS
  <2>1. CASE RunnerUp \/ RunnerBreaks \/ RunnerWedges \/ RunnerLooks  BY <2>1, RunnerKeeps
  <2>2. ASSUME NEW j \in Jobs, FindReady(j) \/ BeginStart(j) \/ JobStep(j)  PROVE IdleInv'
    BY <2>2, ArrivalKeeps, RequestKeeps DEF JobStep
  <2>3. CASE SuperviseStep \/ BudgetStop  BY <2>3, SuperviseKeeps
  <2>4. CASE EndPanel \/ AdoptLive \/ AdoptNothing \/ SaveSettings  BY <2>4, PanelKeeps
  <2>5. CASE Pass  BY <2>5, PassKeeps
  <2>6. CASE UNCHANGED vars
    BY <2>6 DEF vars, kernelVars, supVars, jobVars, IdleInv, TypeOK, Places, OneStarts,
                IdleFollowsUse, ActivityFollowsUse, ClocksAgree, LoopLooks
  <2>7. QED  BY <2>1, <2>2, <2>3, <2>4, <2>5, <2>6 DEF Next
<1>3. QED  BY <1>1, <1>2, PTL DEF Spec

\* No clock of the panel or of the runner leaves its range.
THEOREM IdleTypeCorrect == Spec => []TypeOK
BY IdleInvariant, PTL DEF IdleInv

\* Every kernel whose loop runs ends after its cap and after its idle limit,
\* whatever the panel, its books and its generations do.
THEOREM KernelEndsByItself == Spec => []EndsByItself
<1>1. IdleInv => EndsByItself  BY DEF IdleInv, LoopLooks, EndsByItself
<1>2. QED  BY <1>1, IdleInvariant, PTL

\* The runner's idle limit never ends a kernel a generation is working with.
THEOREM UsedKernelIsKept == Spec => UsedKernelStays
<1>1. IdleInv /\ [Next]_vars => [IdleOut /\ kernel' = "off" => Using = {}]_vars
  <2> SUFFICES ASSUME IdleInv, IdleOut, NEW j \in Jobs, job[j] \in InUse  PROVE FALSE
    BY Zenon DEF Using
  <2>1. kernel = "up" /\ idle > baked /\ baked \in Limits
    BY DEF IdleOut, Looking, IdleInv, TypeOK, Settings
  <2>2. idle <= age[j]  BY <2>1 DEF IdleInv, IdleFollowsUse
  <2>3. age[j] \in 0..RequestTime  BY DEF IdleInv, TypeOK
  <2>4. idle \in Nat  BY DEF IdleInv, TypeOK, Clock
  <2>5. QED  BY <2>1, <2>2, <2>3, <2>4, IdleAssumption
<1>2. QED  BY <1>1, IdleInvariant, PTL DEF Spec, UsedKernelStays

\* The panel never stops such a kernel for being idle on a time that is still
\* the present one.
THEOREM UsedKernelNotTurnedOff == Spec => UsedKernelNotStopped
<1>1. IdleInv /\ [Next]_vars => [IdleStop /\ activity >= read => Using = {}]_vars
  <2> SUFFICES ASSUME IdleInv, IdleStop, activity >= read, NEW j \in Jobs, job[j] \in InUse
               PROVE  FALSE
    BY Zenon DEF Using
  <2>1. cfg \in Limits /\ read > cfg + Grace
    BY DEF IdleStop, IdlePastLimit, IdleInv, TypeOK, Settings
  <2>2. age[j] \in 0..RequestTime  BY DEF IdleInv, TypeOK
  <2>3. activity <= 2 * RequestTime + age[j]
    BY <2>2, IdleAssumption DEF IdleInv, ActivityFollowsUse, InUse, Proxied, TypeOK, Clock
  <2>4. activity \in Nat /\ read \in Nat  BY DEF IdleInv, TypeOK, Clock
  <2>5. QED  BY <2>1, <2>2, <2>3, <2>4, IdleAssumption
<1>2. QED  BY <1>1, IdleInvariant, PTL DEF Spec, UsedKernelNotStopped

\* While the settings are those of the push, the panel's idle stop finds the
\* runner's own limit passed.
THEOREM BackstopIsLater == Spec => BackstopComesSecond
<1>1. IdleInv /\ [Next]_vars =>
        [IdleStop /\ activity >= read /\ cfg = baked /\ kernel = "up" => idle > baked]_vars
  <2> SUFFICES ASSUME IdleInv, IdleStop, activity >= read, cfg = baked, kernel = "up"
               PROVE  idle > baked
    OBVIOUS
  <2>1. cfg \in Limits /\ read > cfg + Grace /\ sup = "decide"
    BY DEF IdleStop, IdlePastLimit, IdleInv, TypeOK, Settings
  <2>2. activity <= idle + 2 * RequestTime
    BY <2>1 DEF IdleInv, Places, ClocksAgree
  <2>3. activity \in Nat /\ read \in Nat /\ idle \in Nat  BY DEF IdleInv, TypeOK, Clock
  <2>4. QED  BY <2>1, <2>2, <2>3, IdleAssumption
<1>2. QED  BY <1>1, IdleInvariant, PTL DEF Spec, BackstopComesSecond

-----------------------------------------------------------------------------
(* What this panel believes of the kernel *)

\* The generations and the runner change what the panel believes of the kernel
\* only by an answer, by a kernel that comes up or by one that ends.
LEMMA JobsKeepView ==
  ASSUME IdleInv,
         \/ RunnerUp \/ RunnerBreaks \/ RunnerWedges \/ RunnerLooks
         \/ \E j \in Jobs : FindReady(j) \/ BeginStart(j) \/ JobStep(j)
  PROVE  [View!ViewNext]_(View!viewVars)
<1> USE DEF View!viewVars, View!ViewNext, JobStays, kernelVars
<1>1. ASSUME EndKernel PROVE [View!ViewNext]_(View!viewVars)
  BY <1>1 DEF EndKernel, View!Ends
<1>2. CASE RunnerUp  BY <1>2 DEF RunnerUp, View!Boots
<1>3. CASE RunnerWedges  BY <1>3 DEF RunnerWedges
<1>4. CASE RunnerBreaks \/ RunnerLooks  BY <1>1, <1>4 DEF RunnerBreaks, RunnerLooks
<1>5. ASSUME NEW j \in Jobs, FindReady(j) PROVE UNCHANGED <<panel, kernel>>
  BY <1>5 DEF FindReady
<1>6. ASSUME NEW j \in Jobs, BeginStart(j) PROVE [View!ViewNext]_(View!viewVars)
  BY <1>6 DEF BeginStart
<1>7. ASSUME NEW j \in Jobs, StartAnswered(j) PROVE [View!ViewNext]_(View!viewVars)
  <2>1. panel' = "ready" /\ kernel = "up" /\ kernel' = kernel  BY <1>7 DEF StartAnswered
  <2>2. panel # "down"  BY <1>7 DEF StartAnswered, IdleInv, Places
  <2>3. View!Found  BY <2>1, <2>2 DEF View!Found
  <2>4. QED  BY <2>3
<1>8. ASSUME NEW j \in Jobs, StartFails(j) PROVE [View!ViewNext]_(View!viewVars)
  <2>1. panel' = "stopped" /\ kernel' = kernel  BY <1>8 DEF StartFails
  <2>2. panel # "down"  BY <1>8 DEF StartFails, IdleInv, Places
  <2>3. View!Gone \/ UNCHANGED View!viewVars  BY <2>1, <2>2 DEF View!Gone
  <2>4. QED  BY <2>3
<1>9. ASSUME NEW j \in Jobs,
             \/ Submit(j) \/ SubmitAnswered(j) \/ Poll(j) \/ HistoryAnswered(j)
             \/ FetchAnswered(j) \/ JobFails(j) \/ OrphanDone(j)
      PROVE  UNCHANGED <<panel, kernel>>
  BY <1>9 DEF Submit, SubmitAnswered, Poll, HistoryAnswered, FetchAnswered, JobFails, OrphanDone
<1>10. QED  BY <1>2, <1>3, <1>4, <1>5, <1>6, <1>7, <1>8, <1>9 DEF JobStep

\* The panel whose idle stop is followed here takes a kernel for ready on the
\* same terms as the panel of KernelLifecycle.
THEOREM IdleStopKeepsView == Spec => KeepsView
<1>1. Init => View!ViewInit  BY DEF Init, View!ViewInit
<1>2. IdleInv /\ [Next]_vars => [View!ViewNext]_(View!viewVars)
  <2> SUFFICES ASSUME IdleInv, [Next]_vars PROVE [View!ViewNext]_(View!viewVars)  OBVIOUS
  <2>1. CASE UNCHANGED vars  BY <2>1 DEF vars, kernelVars, View!viewVars
  <2>2. CASE SuperviseStep \/ BudgetStop
    <3>1. UNCHANGED kernel /\ (panel' = panel \/ panel' \in {"stopped", "stopping"})
          /\ panel # "down"
      BY <2>2 DEF SuperviseStep, Tick, ProbeFails, ProbeAnswered, IdleStop, BudgetStop,
                  KeepRunning, Settle, EnterStop, IdlePastLimit, SupStays, IdleInv, Places
    <3>2. QED  BY <3>1 DEF View!viewVars, View!ViewNext, View!Gone
  <2>3. CASE EndPanel
    <3>1. View!Leave  BY <2>3 DEF EndPanel, kernelVars, View!Leave
    <3>2. QED  BY <3>1 DEF View!ViewNext
  <2>4. CASE AdoptLive \/ AdoptNothing
    <3>1. View!Return  BY <2>4 DEF AdoptLive, AdoptNothing, kernelVars, View!Return
    <3>2. QED  BY <3>1 DEF View!ViewNext
  <2>5. CASE SaveSettings \/ Pass
    BY <2>5 DEF SaveSettings, Pass, kernelVars, View!viewVars
  <2>6. QED  BY <2>1, <2>2, <2>3, <2>4, <2>5, JobsKeepView DEF Next
<1>3. QED  BY <1>1, <1>2, IdleInvariant, PTL DEF Spec, KeepsView, View!ViewSpec

=============================================================================
