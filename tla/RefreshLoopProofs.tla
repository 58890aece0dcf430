-------------------------- MODULE RefreshLoopProofs --------------------------
(***************************************************************************)
(* Safety of SyncTask and RefreshLoop, for any number of outstanding       *)
(* synchronizations, overlapping ticks and configure calls.                *)
(*                                                                         *)
(* SyncInv is inductive for SyncTask alone, whatever calls the adapter.    *)
(* The refresh loop takes only steps of SyncTask, so it inherits it, and   *)
(* LoopInv adds the count of the configure calls that are due.             *)
(***************************************************************************)
EXTENDS RefreshLoop, FiniteSetTheorems, TLAPS

USE TasksAssumption

(* Nothing is reserved when the process starts.                            *)
LEMMA SyncInitInv == SyncInit => SyncInv
BY DEF SyncInit, SyncInv, SyncTypeOK, ReservationIsActive, RunningWillComplete,
       ClosedIsNotSynced, Unlocked, Stages, Worked, SyncPhases

(* A worker's steps: the reservation is dropped after the work, and only   *)
(* with WCASH_RUNTIME open does a synchronization begin.                   *)
LEMMA WorkerStepInv ==
    ASSUME SyncInv, NEW t \in Tasks, WorkerStep(t)
    PROVE  SyncInv'
<1> USE DEF SyncInv, SyncTypeOK, ReservationIsActive, RunningWillComplete,
            ClosedIsNotSynced, Outstanding, Unlocked, Stages, Worked
<1>1. CASE SyncBegins(t)
  BY <1>1 DEF SyncBegins
<1>2. CASE SyncRefused(t)
  BY <1>2 DEF SyncRefused
<1>3. CASE SyncEnds(t)
  BY <1>3 DEF SyncEnds
<1>4. CASE SyncPanics(t)
  BY <1>4 DEF SyncPanics
<1>5. CASE SyncDrops(t)
  BY <1>5 DEF SyncDrops
<1> QED
  BY <1>1, <1>2, <1>3, <1>4, <1>5 DEF WorkerStep

(* A completion leaves the phase settled, so nothing waits for it.         *)
LEMMA SettlesInv ==
    ASSUME SyncInv, NEW t \in Tasks, Settles(t)
    PROVE  SyncInv'
<1>1. syncState' \in {"complete", "failed"}
  BY DEF Settles
<1>2. SyncTypeOK'
  BY <1>1 DEF SyncInv, SyncTypeOK, Settles, Stages, SyncPhases
<1>3. ReservationIsActive'
  BY DEF SyncInv, SyncTypeOK, ReservationIsActive, Settles, Worked, Due
<1>4. RunningWillComplete'
  BY <1>1 DEF RunningWillComplete
<1>5. ClosedIsNotSynced'
  BY DEF SyncInv, SyncTypeOK, ClosedIsNotSynced, Unlocked, Settles
<1> QED
  BY <1>2, <1>3, <1>4, <1>5 DEF SyncInv

(* A launch is reserved before the adapter says it runs.                   *)
LEMMA SyncLaunchedInv ==
    ASSUME SyncInv, NEW t \in Tasks, SyncLaunched(t)
    PROVE  SyncInv'
<1> USE DEF SyncInv, SyncTypeOK, SyncLaunched, Reserves
<1>1. SyncTypeOK'
  BY DEF Stages, SyncPhases
<1>2. ReservationIsActive'
  BY DEF ReservationIsActive, Worked
<1>3. RunningWillComplete'
  BY DEF RunningWillComplete, Outstanding
<1>4. ClosedIsNotSynced'
  BY DEF ClosedIsNotSynced, Unlocked
<1> QED
  BY <1>1, <1>2, <1>3, <1>4

(* The adapter's other calls leave the reservation alone.                  *)
LEMMA CallsInv ==
    ASSUME SyncInv, LaunchThrows \/ PollConsumes \/ StopRequested \/ Deinitialized
    PROVE  SyncInv'
<1> USE DEF SyncInv, SyncTypeOK, ReservationIsActive, RunningWillComplete,
            ClosedIsNotSynced, Outstanding, Unlocked, SyncPhases
<1>1. CASE LaunchThrows
  BY <1>1 DEF LaunchThrows
<1>2. CASE PollConsumes
  BY <1>2 DEF PollConsumes
<1>3. CASE StopRequested
  BY <1>3 DEF StopRequested, CancelActive
<1>4. CASE Deinitialized
  BY <1>4 DEF Deinitialized
<1> QED
  BY <1>1, <1>2, <1>3, <1>4

(* Opening and deleting a wallet take WCASH_RUNTIME.                       *)
LEMMA WalletInv ==
    ASSUME SyncInv, RuntimeStored \/ DeleteStops \/ DeleteProceeds
    PROVE  SyncInv'
<1> USE DEF SyncInv, SyncTypeOK, ReservationIsActive, RunningWillComplete,
            ClosedIsNotSynced, Outstanding, Unlocked, SyncPhases
<1>1. CASE RuntimeStored
  BY <1>1 DEF RuntimeStored
<1>2. CASE DeleteStops
  BY <1>2 DEF DeleteStops, CancelActive
<1>3. CASE DeleteCloses
  BY <1>3 DEF DeleteCloses
<1>4. CASE DeleteFails
  BY <1>4 DEF DeleteFails
<1>5. CASE DeleteEnds
  BY <1>5 DEF DeleteEnds
<1> QED
  BY <1>1, <1>2, <1>3, <1>4, <1>5 DEF DeleteProceeds

(* Every step of the synchronization task preserves SyncInv.               *)
LEMMA SyncNextInv == SyncInv /\ [SyncNext]_syncVars => SyncInv'
<1> SUFFICES ASSUME SyncInv, [SyncNext]_syncVars PROVE SyncInv'
  OBVIOUS
<1>1. CASE UNCHANGED syncVars
  BY <1>1 DEF syncVars, SyncInv, SyncTypeOK, ReservationIsActive, RunningWillComplete,
              ClosedIsNotSynced, Outstanding, Unlocked
<1>2. CASE SyncNext
  BY <1>2, WorkerStepInv, SettlesInv, SyncLaunchedInv, CallsInv, WalletInv DEF SyncNext
<1> QED
  BY <1>1, <1>2

(* The inductive invariant of the synchronization task, whatever order the *)
(* adapter's methods are called in (runSync, poll_sync, deleteWallet ...). *)
THEOREM SyncInvariant == SyncSpec => []SyncInv
<1> QED
  BY SyncInitInv, SyncNextInv, PTL DEF SyncSpec

-----------------------------------------------------------------------------
(* A step of the loop is a step of the synchronization task or leaves it   *)
(* alone.                                                                  *)
LEMMA LoopStepIsSyncStep == [LoopNext]_allVars => [SyncNext]_syncVars
<1> SUFFICES ASSUME [LoopNext]_allVars PROVE [SyncNext]_syncVars
  OBVIOUS
<1>1. CASE UNCHANGED allVars
  BY <1>1 DEF allVars
<1>2. CASE (SyncStep \/ DeleteCloses) /\ UNCHANGED loopVars
  BY <1>2 DEF SyncStep, SyncNext, DeleteProceeds
<1>3. ASSUME NEW k \in Ticks, TickFires(k) \/ TickStep(k) PROVE [SyncNext]_syncVars
  <2>1. CASE TickFires(k)
    BY <2>1 DEF TickFires
  <2>2. CASE PollReports(k)
    BY <2>2 DEF PollReports, SyncNext
  <2>3. CASE PollLaunches(k)
    BY <2>3 DEF PollLaunches
  <2>4. CASE RefreshSync(k)
    BY <2>4 DEF RefreshSync, SyncNext
  <2> QED
    BY <1>3, <2>1, <2>2, <2>3, <2>4 DEF TickStep
<1>4. CASE ConfigureEnds \/ SendBegins \/ SendEnds \/ RescanBegins \/ RescanRejected
  BY <1>4 DEF ConfigureEnds, SendBegins, SendEnds, RescanBegins, RescanRejected
<1>5. CASE LoadBegins \/ LoadEnds \/ LoadFails
  BY <1>5 DEF LoadBegins, LoadEnds, LoadFails, SyncNext
<1>6. CASE RemovalBegins \/ RemovalStep
  <2>1. CASE RemovalBegins \/ RemovalGivesUp
    BY <2>1 DEF RemovalBegins, RemovalGivesUp
  <2>2. CASE RemovalStops \/ RemovalDeinitializes \/ RemovalDeletes
    BY <2>2 DEF RemovalStops, RemovalDeinitializes, RemovalDeletes, SyncNext
  <2>3. CASE RemovalEnds
    BY <2>3 DEF RemovalEnds, SyncNext, DeleteProceeds
  <2> QED
    BY <1>6, <2>1, <2>2, <2>3 DEF RemovalStep
<1> QED
  BY <1>1, <1>2, <1>3, <1>4, <1>5, <1>6 DEF LoopNext

(* The refresh loop uses the synchronization task as SyncTask allows.      *)
THEOREM LoopImplementsSync == LoopSpec => SyncSpec
<1>1. LoopInit => SyncInit
  BY DEF LoopInit
<1> QED
  BY <1>1, LoopStepIsSyncStep, PTL DEF LoopSpec, SyncSpec

(* stop_sync and wcash_delete reach the synchronization that runs, however *)
(* ticks, flows and deletions interleave.                                  *)
THEOREM StopReaches == LoopSpec => []StopReachesSync
<1>1. SyncInv => StopReachesSync
  BY DEF SyncInv, ReservationIsActive, StopReachesSync
<1> QED
  BY <1>1, LoopImplementsSync, SyncInvariant, PTL

(* The adapter never answers "not complete" with nothing to complete.      *)
THEOREM RunningCompletes == LoopSpec => []RunningWillComplete
<1>1. SyncInv => RunningWillComplete
  BY DEF SyncInv
<1> QED
  BY <1>1, LoopImplementsSync, SyncInvariant, PTL

(* wcash_delete removes files no synchronization uses.                     *)
THEOREM ClosedNotSynced == LoopSpec => []ClosedIsNotSynced
<1>1. SyncInv => ClosedIsNotSynced
  BY DEF SyncInv
<1> QED
  BY <1>1, LoopImplementsSync, SyncInvariant, PTL

-----------------------------------------------------------------------------
(* The configure calls and the flows                                       *)

(* The flows under way, counted.                                           *)
LEMMA FlowsCounted ==
    ASSUME flows \in SUBSET {"send", "rescan", "load"}
    PROVE  IsFiniteSet(flows) /\ Cardinality(flows) \in Nat
<1>1. IsFiniteSet({}) /\ IsFiniteSet({"send"}) /\ IsFiniteSet({"send", "rescan"})
  BY FS_EmptySet, FS_Singleton, FS_AddElement
<1>2. IsFiniteSet({"send", "rescan", "load"})
  <2>1. {"send", "rescan", "load"} = {"send", "rescan"} \cup {"load"}
    OBVIOUS
  <2> QED
    BY <1>1, <2>1, FS_AddElement
<1>3. IsFiniteSet(flows)
  BY <1>2, FS_Subset
<1> QED
  BY <1>3, FS_CardinalityType

(* A flow that begins takes one place of the bound,                        *)
LEMMA FlowBeginsFits ==
    ASSUME LoopInv, NEW flow \in {"send", "rescan", "load"}, FlowBegins(flow)
    PROVE  /\ flows' \in SUBSET {"send", "rescan", "load"}
           /\ timer' \in BOOLEAN
           /\ UNCHANGED <<configuring, tick>>
           /\ CountsFit'
<1>1. IsFiniteSet(flows) /\ Cardinality(flows) \in Nat
  BY FlowsCounted DEF LoopInv, LoopTypeOK
<1>2. flow \notin flows /\ flows' = flows \cup {flow}
  BY DEF FlowBegins
<1>3. Cardinality(flows') = Cardinality(flows) + 1
  BY <1>1, <1>2, FS_AddElement
<1>4. configuring \in Nat /\ MaxConfigures \in Nat
  BY BoundAssumption DEF LoopInv, LoopTypeOK
<1>5. CountsFit'
  BY <1>1, <1>3, <1>4 DEF FlowBegins, CountsFit
<1> QED
  BY <1>2, <1>5 DEF FlowBegins, LoopInv, LoopTypeOK

(* and gives it to the configure it ends with, if it does.                 *)
LEMMA FlowEndsFits ==
    ASSUME LoopInv, NEW flow, NEW configures \in {0, 1}, FlowEnds(flow, configures)
    PROVE  /\ flows' \in SUBSET {"send", "rescan", "load"}
           /\ configuring' \in 0 .. MaxConfigures
           /\ UNCHANGED <<timer, tick>>
           /\ CountsFit'
<1>1. IsFiniteSet(flows) /\ Cardinality(flows) \in Nat
  BY FlowsCounted DEF LoopInv, LoopTypeOK
<1>2. flow \in flows /\ flows' = flows \ {flow} /\ configuring' = configuring + configures
  BY DEF FlowEnds
<1>3. Cardinality(flows') = Cardinality(flows) - 1
  BY <1>1, <1>2, FS_RemoveElement
<1>4. flows' \in SUBSET {"send", "rescan", "load"}
  BY <1>2 DEF LoopInv, LoopTypeOK
<1>5. Cardinality(flows') \in Nat
  BY <1>1, <1>2, FS_RemoveElement, FS_CardinalityType
<1>6. configuring \in Nat /\ MaxConfigures \in Nat
  BY BoundAssumption DEF LoopInv, LoopTypeOK
<1>7. configuring' \in 0 .. MaxConfigures /\ CountsFit'
  BY <1>1, <1>2, <1>3, <1>5, <1>6 DEF LoopInv, CountsFit
<1> QED
  BY <1>4, <1>7 DEF FlowEnds

(* Nothing is due when the application starts.                             *)
LEMMA LoopInitInv == LoopInit => LoopInv
<1> SUFFICES ASSUME LoopInit PROVE LoopInv
  OBVIOUS
<1>1. SyncTypeOK
  BY SyncInitInv DEF LoopInit, SyncInv
<1>2. flows = {} /\ Cardinality({}) = 0 /\ configuring = 0 /\ MaxConfigures \in Nat
  BY BoundAssumption, FS_EmptySet DEF LoopInit
<1>3. CountsFit
  BY <1>2 DEF CountsFit
<1>4. LoopTypeOK
  <2>1. configuring \in 0 .. MaxConfigures
    BY <1>2
  <2>2. tick \in [Ticks -> {"none", "poll", "run"}]
    BY DEF LoopInit
  <2> QED
    BY <1>1, <1>2, <2>1, <2>2 DEF LoopInit, LoopTypeOK, Removals
<1> QED
  BY <1>3, <1>4 DEF LoopInv

(* Every step of the loop preserves the count.                             *)
LEMMA LoopNextInv == LoopInv /\ SyncTypeOK' /\ [LoopNext]_allVars => LoopInv'
<1> SUFFICES ASSUME LoopInv, SyncTypeOK', [LoopNext]_allVars PROVE LoopInv'
  OBVIOUS
<1>1. CASE UNCHANGED loopVars
  BY <1>1 DEF loopVars, LoopInv, LoopTypeOK, CountsFit
<1>2. ASSUME NEW k \in Ticks, TickFires(k) \/ TickStep(k) PROVE LoopInv'
  <2>1. tick' \in [Ticks -> {"none", "poll", "run"}]
    BY <1>2 DEF LoopInv, LoopTypeOK, TickFires, TickStep, PollReports, PollLaunches, RefreshSync
  <2>2. UNCHANGED <<timer, configuring, flows, removal, opened>>
    BY <1>2 DEF TickFires, TickStep, PollReports, PollLaunches, RefreshSync
  <2> QED
    BY <2>1, <2>2 DEF LoopInv, LoopTypeOK, CountsFit
<1>3. CASE ConfigureEnds
  <2>1. Cardinality(flows) \in Nat /\ configuring \in Nat /\ MaxConfigures \in Nat
    BY FlowsCounted, BoundAssumption DEF LoopInv, LoopTypeOK
  <2>2. configuring' \in 0 .. MaxConfigures /\ CountsFit'
    BY <1>3, <2>1 DEF ConfigureEnds, LoopInv, LoopTypeOK, CountsFit
  <2> QED
    BY <1>3, <2>2 DEF ConfigureEnds, LoopInv, LoopTypeOK
<1>4. CASE SendBegins \/ RescanBegins \/ LoadBegins
  <2>1. PICK flow \in {"send", "rescan", "load"} : FlowBegins(flow)
    BY <1>4 DEF SendBegins, RescanBegins, LoadBegins
  <2>2. removal' = removal /\ opened' \in BOOLEAN
    BY <1>4 DEF SendBegins, RescanBegins, LoadBegins, LoopInv, LoopTypeOK
  <2> QED
    BY <2>1, <2>2, FlowBeginsFits DEF LoopInv, LoopTypeOK
<1>5. CASE SendEnds \/ RescanRejected \/ LoadEnds \/ LoadFails
  <2>1. PICK flow \in {"send", "rescan", "load"}, configures \in {0, 1} :
            FlowEnds(flow, configures)
    BY <1>5 DEF SendEnds, RescanRejected, LoadEnds, LoadFails
  <2>2. removal' = removal /\ opened' \in BOOLEAN
    BY <1>5 DEF SendEnds, RescanRejected, LoadEnds, LoadFails, LoopInv, LoopTypeOK
  <2> QED
    BY <2>1, <2>2, FlowEndsFits DEF LoopInv, LoopTypeOK
<1>6. CASE RemovalBegins \/ RemovalStep
  <2>1. /\ UNCHANGED <<tick, configuring, flows>>
        /\ timer' \in BOOLEAN /\ opened' \in BOOLEAN /\ removal' \in Removals
    BY <1>6 DEF RemovalBegins, RemovalStep, RemovalGivesUp, RemovalStops, RemovalDeinitializes,
       RemovalDeletes, RemovalEnds, Removes, Removals, LoopInv, LoopTypeOK
  <2> QED
    BY <2>1 DEF LoopInv, LoopTypeOK, CountsFit
<1> QED
  BY <1>1, <1>2, <1>3, <1>4, <1>5, <1>6 DEF LoopNext, allVars

(* The configure calls that are due stay within the flows that began, and  *)
(* every variable of the loop keeps its type.                              *)
THEOREM LoopTypeCorrect == LoopSpec => []LoopTypeOK
<1>1. SyncInv => SyncTypeOK
  BY DEF SyncInv
<1>2. LoopInv => LoopTypeOK
  BY DEF LoopInv
<1> QED
  BY <1>1, <1>2, LoopImplementsSync, SyncInvariant, LoopInitInv, LoopNextInv, PTL DEF LoopSpec
===============================================================================
