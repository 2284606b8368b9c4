------------------------------ MODULE IdleStop ------------------------------
(***************************************************************************)
(* What ends a kernel nobody uses. Two clocks run: the one of the runner   *)
(* script (notebook.go), put back by every request its edge proxies and    *)
(* read by the loop that ends the session, and the one of the panel        *)
(* (Kernel.activity), read by Supervise, which asks a kernel it believes   *)
(* idle to end. The limit of the first is baked into the notebook when it  *)
(* is pushed; the second follows the settings.                             *)
(*                                                                         *)
(* Time is counted in units of one tick of the supervisor (15 s). Pass     *)
(* ages every clock by one unit, and is held back while something with a   *)
(* deadline is due: the runner's loop (5 s), the ticker, a probe (20 s), a *)
(* request. One kernel is followed, from its push to its end; the button   *)
(* is left to KernelLifecycle.                                             *)
(***************************************************************************)
EXTENDS Naturals, FiniteSets

CONSTANTS
  Jobs,         \* generations
  Limits,       \* idle limits an operator may set
  Grace,        \* what the panel adds to the limit: 30 s
  SessionCap,   \* the hard cap the runner puts on its own session
  BootTime,     \* the runner gives ComfyUI up after this long
  RequestTime,  \* bound: one request through the tunnel, one pause between two
  ProbeTime,    \* the timeout of the supervisor's probe: 20 s
  StopWait,     \* how long Stop waits for the edge to go quiet: 2 min
  Top           \* bound: the clocks stop here

ASSUME IdleAssumption ==
  /\ Limits \subseteq Nat \ {0}
  /\ Grace \in Nat /\ SessionCap \in Nat /\ BootTime \in Nat /\ StopWait \in Nat
  /\ ProbeTime \in Nat /\ RequestTime \in Nat \ {0} /\ Top \in Nat
  /\ BootTime <= SessionCap
  /\ 2 * RequestTime <= Grace
  /\ \A l \in Limits : RequestTime <= l /\ l + Grace < Top

VARIABLES
  setting,   \* the settings: the idle limit, 0 when keep-alive is on
  kernel,    \* Kaggle: "off", "boot" once the notebook is pushed, "up"
  baked,     \* IDLE_SECONDS
  stop,      \* state["stop"]: the panel has asked
  idle,      \* idle_for()
  uptime,    \* time.time() - BOOT
  looked,    \* the loop has looked at its limits since time last passed
  wedged,    \* the loop no longer gets to its limits
  panel,     \* "down", or Kernel.state; failed counts as "stopped"
  row,       \* the session of this kernel is open: it is billed
  activity,  \* time since Kernel.activity, counted while the kernel is ready
  sup,       \* where Supervise is
  supAge,    \* for how long it has been there
  cfg,       \* Supervise's local cfg
  read,      \* Supervise's local idle
  job,       \* where each generation is
  age        \* for how long it has been there

kernelVars == <<kernel, baked, stop, idle, uptime, looked, wedged>>
supVars    == <<sup, supAge, cfg, read>>
jobVars    == <<job, age>>
vars == <<setting, kernelVars, panel, row, activity, supVars, jobVars>>

Settings == Limits \cup {0}
Clock    == 0..Top

\* The edge is working on a request of the job.
Proxied == {"submit", "history", "fetch"}
\* The job has reached the kernel and is not done with it.
InUse   == Proxied \cup {"poll"}
Using   == {j \in Jobs : job[j] \in InUse}

\* Every clock stays within its bounds.
TypeOK ==
  /\ setting \in Settings
  /\ kernel \in {"off", "boot", "up"} /\ baked \in Settings
  /\ stop \in BOOLEAN /\ idle \in Clock /\ uptime \in 0..(SessionCap + 2)
  /\ looked \in BOOLEAN /\ wedged \in BOOLEAN
  /\ panel \in {"down", "stopped", "starting", "ready", "stopping"}
  /\ row \in BOOLEAN /\ activity \in Clock
  /\ sup \in {"sleep", "probe", "decide", "quiet"}
  /\ supAge \in 0..(1 + ProbeTime + StopWait)
  /\ cfg \in Settings /\ read \in Clock
  /\ job \in [Jobs -> {"none", "start", "asked", "orphan", "broken"} \cup InUse]
  /\ age \in [Jobs -> 0..RequestTime]

Init ==
  /\ setting \in Settings
  /\ kernel = "off" /\ baked = 0 /\ stop = FALSE /\ idle = 0 /\ uptime = 0
  /\ looked = FALSE /\ wedged = FALSE
  /\ panel = "stopped" /\ row = FALSE /\ activity = 0
  /\ sup = "sleep" /\ supAge = 0 /\ cfg = 0 /\ read = 0
  /\ job = [j \in Jobs |-> "none"] /\ age = [j \in Jobs |-> 0]

-----------------------------------------------------------------------------
(* The runner *)

\* What becomes of a request when the edge goes away.
Cut(phase) == CASE phase \in Proxied -> "broken"
                [] phase = "orphan"  -> "none"
                [] OTHER             -> phase

EndKernel ==
  /\ kernel' = "off" /\ stop' = FALSE /\ idle' = 0 /\ uptime' = 0 /\ baked' = 0
  /\ looked' = FALSE /\ wedged' = FALSE
  /\ job' = [j \in Jobs |-> Cut(job[j])]
  /\ UNCHANGED <<setting, panel, row, activity, supVars, age>>

\* ComfyUI answers on its port, the edge and the tunnel are up: touch().
RunnerUp ==
  /\ kernel = "boot"
  /\ kernel' = "up" /\ idle' = 0 /\ looked' = FALSE
  /\ UNCHANGED <<baked, stop, uptime, wedged, setting, panel, row, activity, supVars,
                 jobVars>>

\* The push leads to nothing, ComfyUI or cloudflared exits, the VM is lost.
RunnerBreaks == kernel # "off" /\ EndKernel

\* The loop hangs, while the edge, in a thread of its own, goes on answering.
RunnerWedges ==
  /\ kernel = "up" /\ wedged' = TRUE
  /\ UNCHANGED <<kernel, baked, stop, idle, uptime, looked, setting, panel, row,
                 activity, supVars, jobVars>>

Looking == kernel = "up" /\ ~looked /\ ~wedged

\* Mutations: the cap only holds a kernel that has no idle limit; both limits
\* have to be passed.
CapUnlimitedOnly == Looking /\ ~stop /\ baked = 0 /\ uptime > SessionCap
IdleAndCapped    == Looking /\ ~stop /\ baked > 0 /\ idle > baked /\ uptime > SessionCap

\* The three ways out of the loop.
Asked     == Looking /\ stop
IdleOut   == Looking /\ ~stop /\ baked > 0 /\ idle > baked
CappedOut == Looking /\ ~stop /\ uptime > SessionCap

\* One pass of the loop: it breaks, or sleeps again.
RunnerLooks ==
  \/ (Asked \/ IdleOut \/ CappedOut) /\ EndKernel
  \/ /\ Looking /\ ~(Asked \/ IdleOut \/ CappedOut)
     /\ looked' = TRUE
     /\ UNCHANGED <<kernel, baked, stop, idle, uptime, wedged, setting, panel, row,
                    activity, supVars, jobVars>>

-----------------------------------------------------------------------------
(* A generation, as far as it keeps the kernel busy *)

Goes(j, phase) == /\ job' = [job EXCEPT ![j] = phase]
                  /\ age' = [age EXCEPT ![j] = 0]

JobStays == UNCHANGED <<setting, kernel, baked, stop, uptime, looked, wedged, supVars>>

\* EnsureReady finds a kernel that is ready, and touches the panel's clock.
FindReady(j) ==
  /\ job[j] = "none" /\ panel = "ready"
  /\ activity' = 0 /\ Goes(j, "asked")
  /\ UNCHANGED <<idle, panel, row>> /\ JobStays

\* EnsureReady starts the kernel: the limit of the moment goes into the script.
\* Bound: one kernel at a time.
BeginStart(j) ==
  /\ job[j] = "none" /\ panel = "stopped" /\ kernel = "off"
  /\ panel' = "starting" /\ activity' = 0 /\ Goes(j, "start")
  /\ kernel' = "boot" /\ baked' = setting /\ uptime' = 0
  /\ row' \in BOOLEAN
  /\ UNCHANGED <<stop, idle, looked, wedged, setting, supVars>>

StartAnswered(j) ==
  /\ job[j] = "start" /\ kernel = "up" /\ row
  /\ panel' = "ready" /\ activity' = 0 /\ Goes(j, "asked")
  /\ UNCHANGED <<idle, row>> /\ JobStays

\* Mutation: a state nobody else expects.
StartFailsAloud(j) ==
  /\ job[j] = "start"
  /\ panel' = "failed" /\ row' = FALSE /\ Goes(j, "none")
  /\ UNCHANGED <<idle, activity>> /\ JobStays

\* No answer within the deadline, or no row to bill by: the row is closed and
\* whatever was pushed is left to itself.
StartFails(j) ==
  /\ job[j] = "start"
  /\ panel' = "stopped" /\ row' = FALSE /\ Goes(j, "none")
  /\ UNCHANGED <<idle, activity>> /\ JobStays

\* Mutation: only the end of a request is taken for use.
SubmitUntouched(j) ==
  /\ job[j] = "asked" /\ kernel = "up"
  /\ Goes(j, "submit")
  /\ UNCHANGED <<idle, activity, panel, row>> /\ JobStays

\* Submit's request reaches the edge: touch().
Submit(j) ==
  /\ job[j] = "asked" /\ kernel = "up"
  /\ idle' = 0 /\ Goes(j, "submit")
  /\ UNCHANGED <<activity, panel, row>> /\ JobStays

SubmitAnswered(j) ==
  /\ job[j] = "submit"
  /\ idle' = 0 /\ Goes(j, "poll")
  /\ UNCHANGED <<activity, panel, row>> /\ JobStays

\* Mutation: nobody passes OnPing.
PollSilently(j) ==
  /\ job[j] = "poll" /\ kernel = "up"
  /\ idle' = 0 /\ Goes(j, "history")
  /\ UNCHANGED <<activity, panel, row>> /\ JobStays

\* Wait: OnPing touches the panel's clock, and the history is asked for. It
\* may be another kernel by now, one that never heard of the prompt.
Poll(j) ==
  /\ job[j] = "poll" /\ kernel = "up"
  /\ activity' = 0 /\ idle' = 0 /\ Goes(j, "history")
  /\ UNCHANGED <<panel, row>> /\ JobStays

\* Still queued or running, or there are files and the first one is fetched.
HistoryAnswered(j) ==
  /\ job[j] = "history"
  /\ idle' = 0 /\ (Goes(j, "poll") \/ Goes(j, "fetch"))
  /\ UNCHANGED <<activity, panel, row>> /\ JobStays

FetchAnswered(j) ==
  /\ job[j] = "fetch"
  /\ idle' = 0 /\ activity' = 0 /\ Goes(j, "none")
  /\ UNCHANGED <<panel, row>> /\ JobStays

\* An error ends the generation; the edge goes on with what it was asked.
JobFails(j) ==
  /\ job[j] \in InUse \cup {"asked", "broken"}
  /\ job' = [job EXCEPT ![j] = IF job[j] \in Proxied THEN "orphan" ELSE "none"]
  /\ UNCHANGED <<age, idle, activity, panel, row>> /\ JobStays

\* The edge is done with a request nobody waits for: the finally of _proxy.
OrphanDone(j) ==
  /\ job[j] = "orphan"
  /\ idle' = 0 /\ Goes(j, "none")
  /\ UNCHANGED <<activity, panel, row>> /\ JobStays

\* What a job does of itself once it has begun.
JobStep(j) ==
  \/ StartAnswered(j) \/ StartFails(j)
  \/ Submit(j) \/ SubmitAnswered(j) \/ Poll(j) \/ HistoryAnswered(j)
  \/ FetchAnswered(j) \/ JobFails(j) \/ OrphanDone(j)

-----------------------------------------------------------------------------
(* Supervise *)

SupGoes(where) == sup' = where /\ supAge' = 0

\* Its locals go out of scope.
Forget == cfg' = 0 /\ read' = 0

SupStays ==
  UNCHANGED <<setting, kernel, baked, idle, uptime, looked, wedged, activity, jobVars>>

\* The ticker: the settings are read, a kernel that is not ready is left alone.
Tick ==
  /\ sup = "sleep" /\ supAge >= 1 /\ panel # "down"
  /\ IF panel = "ready" THEN SupGoes("probe") /\ cfg' = setting
                       ELSE SupGoes("sleep") /\ cfg' = 0
  /\ UNCHANGED <<read, stop, panel, row>> /\ SupStays

\* The probe fails: the session is closed, whatever the kernel does.
ProbeFails ==
  /\ sup = "probe"
  /\ panel' = "stopped" /\ row' = FALSE /\ SupGoes("sleep") /\ Forget
  /\ UNCHANGED stop /\ SupStays

\* The probe is answered, and the idle time is read.
ProbeAnswered ==
  /\ sup = "probe" /\ kernel = "up"
  /\ read' = activity /\ SupGoes("decide")
  /\ UNCHANGED <<cfg, stop, panel, row>> /\ SupStays

\* Stop: the kernel is asked to end, if the request gets through.
EnterStop ==
  /\ panel' = "stopping" /\ SupGoes("quiet") /\ Forget
  /\ stop' \in IF kernel = "up" THEN {stop, TRUE} ELSE {stop}
  /\ UNCHANGED row /\ SupStays

\* Mutations: the settings of the push decide; nothing is added to the limit.
IdlePastBaked    == sup = "decide" /\ baked > 0 /\ read > baked + Grace
IdleWithoutGrace == sup = "decide" /\ cfg > 0 /\ read > cfg

IdlePastLimit == sup = "decide" /\ cfg > 0 /\ read > cfg + Grace

\* The budget is spent, or the kernel has been idle for too long ...
BudgetStop == sup = "decide" /\ EnterStop
IdleStop   == IdlePastLimit /\ EnterStop

\* ... or it may go on.
KeepRunning ==
  /\ sup = "decide" /\ ~IdlePastLimit
  /\ SupGoes("sleep") /\ Forget
  /\ UNCHANGED <<stop, panel, row>> /\ SupStays

\* A probe of Stop fails or two minutes are over: the books are closed.
Settle ==
  /\ sup = "quiet"
  /\ panel' = "stopped" /\ row' = FALSE /\ SupGoes("sleep") /\ Forget
  /\ UNCHANGED stop /\ SupStays

SuperviseStep == Tick \/ ProbeFails \/ ProbeAnswered \/ IdleStop \/ KeepRunning \/ Settle

-----------------------------------------------------------------------------
(* The panel process, the settings, time *)

\* A crash or a restart: requests at the edge go on without the panel.
EndPanel ==
  /\ panel # "down" /\ panel' = "down"
  /\ SupGoes("sleep") /\ Forget /\ activity' = 0
  /\ job' = [j \in Jobs |-> IF job[j] \in Proxied \cup {"orphan"} THEN "orphan" ELSE "none"]
  /\ age' = [j \in Jobs |-> IF job[j] \in Proxied \cup {"orphan"} THEN age[j] ELSE 0]
  /\ UNCHANGED <<setting, kernelVars, row>>

\* Adopt: the clock starts where the runner's is.
AdoptLive ==
  /\ panel = "down" /\ row /\ kernel = "up"
  /\ panel' = "ready" /\ activity' = idle
  /\ UNCHANGED <<setting, kernelVars, row, supVars, jobVars>>

\* Adopt: no open row, or the one probe of it fails.
AdoptNothing ==
  /\ panel = "down"
  /\ panel' = "stopped" /\ row' = FALSE
  /\ UNCHANGED <<setting, kernelVars, activity, supVars, jobVars>>

\* apiSaveSettings: a running kernel keeps the limit it was pushed with.
SaveSettings ==
  /\ panel # "down"
  /\ setting' \in Settings \ {setting}
  /\ UNCHANGED <<kernelVars, panel, row, activity, supVars, jobVars>>

Later(c) == IF c < Top THEN c + 1 ELSE Top

\* Nothing is due.
MayPass ==
  /\ kernel = "boot" => uptime < BootTime
  /\ kernel = "up" => looked \/ wedged
  /\ \A j \in Jobs : job[j] \notin {"none", "start"} => age[j] < RequestTime
  /\ panel # "down" => supAge < CASE sup = "sleep"  -> 1
                                  [] sup = "probe"  -> ProbeTime
                                  [] sup = "decide" -> 0
                                  [] sup = "quiet"  -> StopWait

Pass ==
  /\ MayPass
  /\ uptime' = IF kernel = "off" \/ uptime = SessionCap + 2 THEN uptime ELSE uptime + 1
  /\ idle' = IF kernel = "up" THEN Later(idle) ELSE idle
  /\ looked' = FALSE
  /\ activity' = IF panel = "ready" THEN Later(activity) ELSE activity
  /\ supAge' = IF panel = "down" THEN 0 ELSE supAge + 1
  /\ age' = [j \in Jobs |-> IF job[j] \in {"none", "start"} THEN 0 ELSE age[j] + 1]
  /\ UNCHANGED <<setting, kernel, baked, stop, wedged, panel, row, sup, cfg, read, job>>

Next ==
  \/ RunnerUp \/ RunnerBreaks \/ RunnerWedges \/ RunnerLooks
  \/ \E j \in Jobs : FindReady(j) \/ BeginStart(j) \/ JobStep(j)
  \/ SuperviseStep \/ BudgetStop
  \/ EndPanel \/ AdoptLive \/ AdoptNothing \/ SaveSettings
  \/ Pass

\* Loops and tickers run, a request is answered or fails in its time, and
\* time goes on.
Fairness ==
  /\ WF_vars(RunnerLooks) /\ WF_vars(RunnerUp \/ (kernel = "boot" /\ RunnerBreaks))
  /\ \A j \in Jobs : WF_vars(JobStep(j))
  /\ WF_vars(SuperviseStep)
  /\ WF_vars(Pass)

Spec == Init /\ [][Next]_vars

FairSpec == Spec /\ Fairness

-----------------------------------------------------------------------------

\* A kernel ends of itself, whether or not the panel watches it, bills it or
\* is even running: after its cap, and after its idle limit if it has one. It
\* is all that ends a kernel whose books were closed too early, and nothing
\* ends one whose loop hangs.
EndsByItself ==
  kernel = "up" /\ ~wedged => /\ uptime <= SessionCap + 1
                              /\ baked > 0 => idle <= baked + 1

\* What this panel believes of the kernel is what KernelLifecycle lets it.
View == INSTANCE KernelView WITH up <- panel # "down", ready <- panel = "ready",
                                 serving <- kernel = "up", seen <- FALSE
KeepsView == View!ViewSpec

\* A kernel a generation is working with does not end for being idle, however
\* long the generation takes: every poll puts the clock of the runner back.
UsedKernelStays == [][IdleOut /\ kernel' = "off" => Using = {}]_vars

\* Neither does the panel stop such a kernel for being idle, unless somebody
\* found it ready between the moment the idle time was read and the decision.
UsedKernelNotStopped == [][IdleStop /\ activity >= read => Using = {}]_vars

\* As long as the settings are those of the push, the idle stop of the panel
\* is a backstop: by then the runner's own limit has run out.
BackstopComesSecond ==
  [][IdleStop /\ activity >= read /\ cfg = baked /\ kernel = "up" => idle > baked]_vars

\* A kernel the panel has seen idle past the limit of the present settings is
\* stopped or used again: also one that was pushed while keep-alive was on and
\* has no limit of its own, one that was adopted after a restart, and one whose
\* loop hangs. (That one is only asked: its books are closed, but it runs on.)
IdleIsNoticed ==
  (panel = "ready" /\ setting > 0 /\ activity > setting + Grace) ~>
    ~(panel = "ready" /\ setting > 0 /\ activity > setting + Grace)

=============================================================================
