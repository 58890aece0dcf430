----------------------------- MODULE RefreshLoop -----------------------------
(***************************************************************************)
(* The periodic refresh of the renderer (src/src/rpc/rpc.ts) over the      *)
(* synchronization task: the interval, its overlapping ticks with their    *)
(* poll_sync and run_sync, and the flows that stop the interval and should *)
(* start it again: a send, a rescan, opening a wallet (Routes.tsx,         *)
(* LoadingScreen.tsx) and deleting one (AddNewWallet.tsx).                 *)
(*                                                                         *)
(* A tick is not awaited by the next one, clearInterval does not recall    *)
(* the ticks that already run, and every native call is an IPC message: a  *)
(* tick decides on an answer that may be old when run_sync arrives.        *)
(***************************************************************************)
EXTENDS SyncTask, Naturals, FiniteSets

CONSTANTS
    Ticks,         \* ticks that can be under way at once
    MaxConfigures  \* bound: configure calls under way or due after a flow

ASSUME BoundAssumption == MaxConfigures \in Nat

VARIABLES
    timer,        \* updateTimerID is set
    tick,         \* what each fetchSyncPoll asks for: "none", "poll" or "run"
    configuring,  \* configure calls that have not set the interval yet
    flows,        \* the flows under way: "send", "rescan", "load"
    removal,      \* doDelete, by the call it makes next
    opened        \* a wallet was opened, and neither left nor being deleted

loopVars == <<timer, tick, configuring, flows, removal, opened>>
allVars == <<syncVars, loopVars>>

Removals == {"none", "stop", "deinitialize", "delete", "await"}

LoopTypeOK ==
    /\ SyncTypeOK
    /\ timer \in BOOLEAN
    /\ tick \in [Ticks -> {"none", "poll", "run"}]
    /\ configuring \in 0 .. MaxConfigures
    /\ flows \in SUBSET {"send", "rescan", "load"}
    /\ removal \in Removals
    /\ opened \in BOOLEAN

LoopInit ==
    /\ SyncInit
    /\ timer = FALSE
    /\ tick = [k \in Ticks |-> "none"]
    /\ configuring = 0
    /\ flows = {}
    /\ removal = "none"
    /\ opened = FALSE

-----------------------------------------------------------------------------
(* The interval (runTaskPromises; of its tasks, fetchSyncPoll).            *)

TickFires(k) ==
    /\ timer
    /\ tick[k] = "none"
    /\ tick' = [tick EXCEPT ![k] = "poll"]
    /\ UNCHANGED <<syncVars, timer, configuring, flows, removal, opened>>

(* An ended synchronization: its result or its error is shown.             *)
PollReports(k) ==
    /\ tick[k] = "poll"
    /\ PollConsumes
    /\ tick' = [tick EXCEPT ![k] = "none"]
    /\ UNCHANGED <<timer, configuring, flows, removal, opened>>

(* "Not launched", and "not complete" too: refreshSync.                    *)
PollLaunches(k) ==
    /\ tick[k] = "poll"
    /\ syncState \in {"idle", "running"}
    /\ tick' = [tick EXCEPT ![k] = "run"]
    /\ UNCHANGED <<syncVars, timer, configuring, flows, removal, opened>>

(* run_sync, whatever became of the answer that led to it.                 *)
RefreshSync(k) ==
    /\ tick[k] = "run"
    /\ \/ \E t \in Tasks : SyncLaunched(t)
       \/ LaunchThrows
       \/ syncState = "running" /\ UNCHANGED syncVars
    /\ tick' = [tick EXCEPT ![k] = "none"]
    /\ UNCHANGED <<timer, configuring, flows, removal, opened>>

TickStep(k) == PollReports(k) \/ PollLaunches(k) \/ RefreshSync(k)

-----------------------------------------------------------------------------
(* Flows.                                                                  *)

(* configure sets the interval unless one is set.                          *)
ConfigureEnds ==
    /\ configuring > 0
    /\ configuring' = configuring - 1
    /\ timer' = TRUE
    /\ UNCHANGED <<syncVars, tick, flows, removal, opened>>

(* A flow begins with clearTimers.                                         *)
FlowBegins(flow) ==
    /\ flow \notin flows
    /\ configuring + Cardinality(flows) < MaxConfigures
    /\ flows' = flows \cup {flow}
    /\ timer' = FALSE
    /\ UNCHANGED <<tick, configuring>>

FlowEnds(flow, configures) ==
    /\ flow \in flows
    /\ flows' = flows \ {flow}
    /\ configuring' = configuring + configures
    /\ UNCHANGED <<timer, tick>>

SendBegins == FlowBegins("send") /\ opened /\ UNCHANGED <<syncVars, removal, opened>>

(* Mutant: a send that fails throws before it resumes the refresh.         *)
SendThrows ==
    /\ \E configures \in {0, 1} : FlowEnds("send", configures)
    /\ UNCHANGED <<syncVars, removal, opened>>

(* sendTransaction, whether it sent or failed.                             *)
SendEnds == FlowEnds("send", 1) /\ UNCHANGED <<syncVars, removal, opened>>

RescanBegins == FlowBegins("rescan") /\ opened /\ UNCHANGED <<syncVars, removal, opened>>

(* refreshSync(true): the adapter rejects run_rescan, which is caught      *)
(* before configure.                                                       *)
RescanRejected == FlowEnds("rescan", 0) /\ UNCHANGED <<syncVars, removal, opened>>

(* navigateToLoadingScreenChangingWallet, and the application's start.     *)
LoadBegins ==
    /\ FlowBegins("load")
    /\ opened' = FALSE
    /\ UNCHANGED <<syncVars, removal>>

LoadEnds ==
    /\ FlowEnds("load", 1)
    /\ RuntimeStored
    /\ opened' = TRUE
    /\ UNCHANGED removal

(* There is no wallet, or it does not open.                                *)
LoadFails == FlowEnds("load", 0) /\ UNCHANGED <<syncVars, removal, opened>>

-----------------------------------------------------------------------------
(* doDelete                                                                *)

Removes(from, to) ==
    /\ removal = from
    /\ removal' = to
    /\ UNCHANGED <<tick, configuring, flows>>

RemovalBegins ==
    /\ opened
    /\ Removes("none", "stop")
    /\ timer' = FALSE
    /\ opened' = FALSE
    /\ UNCHANGED syncVars

(* The wallet file is missing, or a call before delete_wallet rejects.     *)
RemovalGivesUp ==
    /\ \E from \in {"stop", "delete"} : Removes(from, "none")
    /\ UNCHANGED <<syncVars, timer, opened>>

(* A wallet that did not open is not stopped.                              *)
RemovalStops ==
    /\ Removes("stop", "deinitialize")
    /\ StopRequested \/ UNCHANGED syncVars
    /\ UNCHANGED <<timer, opened>>

(* RPC.deinitialize catches a rejection.                                   *)
RemovalDeinitializes ==
    /\ Removes("deinitialize", "delete")
    /\ Deinitialized \/ UNCHANGED syncVars
    /\ UNCHANGED <<timer, opened>>

RemovalDeletes ==
    /\ Removes("delete", "await")
    /\ DeleteStops
    /\ UNCHANGED <<timer, opened>>

(* Deleted or refused; another wallet is then opened by a load.            *)
RemovalEnds ==
    /\ DeleteFails \/ DeleteEnds
    /\ Removes("await", "none")
    /\ UNCHANGED <<timer, opened>>

RemovalStep ==
    RemovalGivesUp \/ RemovalStops \/ RemovalDeinitializes \/ RemovalDeletes \/ RemovalEnds

-----------------------------------------------------------------------------
SyncStep == \E t \in Tasks : WorkerStep(t) \/ Settles(t)

LoopNext ==
    \/ (SyncStep \/ DeleteCloses) /\ UNCHANGED loopVars
    \/ \E k \in Ticks : TickFires(k) \/ TickStep(k)
    \/ ConfigureEnds
    \/ SendBegins \/ SendEnds
    \/ RescanBegins \/ RescanRejected
    \/ LoadBegins \/ LoadEnds \/ LoadFails
    \/ RemovalBegins \/ RemovalStep

LoopSpec == LoopInit /\ [][LoopNext]_allVars

(* The interval fires while it is set; every answer is delivered; a worker *)
(* thread gets WCASH_RUNTIME and the wallet core ends; a send and the      *)
(* fetches of configure end. Nothing is assumed of the user.               *)
LoopFairness ==
    /\ WF_allVars(\E k \in Ticks : TickFires(k))
    /\ \A k \in Ticks : WF_allVars(TickStep(k))
    /\ \A t \in Tasks :
        WF_allVars((WorkerStep(t) \/ Settles(t)) /\ UNCHANGED loopVars)
    /\ WF_allVars(ConfigureEnds)
    /\ WF_allVars(SendEnds)

LoopFairSpec == LoopSpec /\ LoopFairness

-----------------------------------------------------------------------------
(* As long as the interval is set, the wallet is synchronized again and    *)
(* again, whatever failed, was stopped, deinitialized or deleted before:   *)
(* the way new blocks are found ("starts a fresh sync", poll_sync).        *)
SyncsGoOn ==
    <>[]timer => []<>(\E t \in Tasks : task[t] = "waiting")

(* A send stops the refresh and starts it again, also when it fails and    *)
(* whatever else stops or starts the interval meanwhile.                   *)
SendResumes == "send" \in flows ~> timer

(* "Every 5 seconds the App update part of the data" (rpc.ts): an opened   *)
(* wallet is refreshed, except while a flow that pauses it is under way.   *)
RefreshRuns == opened /\ flows = {} => timer \/ configuring > 0

(* What makes the type inductive: the configure call of a flow that ends   *)
(* was counted when the flow began.                                        *)
CountsFit == configuring + Cardinality(flows) <= MaxConfigures

LoopInv == LoopTypeOK /\ CountsFit
===============================================================================
