------------------------------- MODULE SyncTask -------------------------------
(***************************************************************************)
(* The synchronization task: the native reservation (ACTIVE_SYNC, sync,    *)
(* stop_sync and the part of delete_wallet that concerns them, in          *)
(* native/src/wcash.rs) under the adapter's syncState                      *)
(* (public/wcashZingoNativeAdapter.js).                                    *)
(*                                                                         *)
(* wcash_sync reserves on the event loop's thread; its task runs on a      *)
(* worker thread, holds WCASH_RUNTIME while the wallet core synchronizes,  *)
(* and its completion is a continuation of the event loop. The adapter     *)
(* knows only the phase it last wrote, which deinitialize and deleteWallet *)
(* overwrite while a task may still run.                                   *)
(***************************************************************************)

CONSTANTS
    Tasks,   \* synchronizations that can be outstanding at once
    None

(* Where a native synchronization is. Its generation is its name: u64      *)
(* generations are compared for equality only, so one may be named again   *)
(* once its completion has run.                                            *)
Stages ==
    {"none",
     "waiting",      \* reserved; the worker has not locked WCASH_RUNTIME
     "syncing",      \* in the wallet core, WCASH_RUNTIME locked
     "succeeded",    \* unlocked, the reservation not dropped yet
     "failed",
     "resolves",     \* dropped; the completion is due on the event loop
     "rejects"}

Worked == {"succeeded", "failed"}
Due == {"resolves", "rejects"}

SyncPhases == {"idle", "running", "complete", "failed"}

ASSUME TasksAssumption == None \notin Tasks

VARIABLES
    active,     \* ActiveSyncRegistry.active
    cancelled,  \* the tasks whose WalletSyncCancellation is cancelled
    task,       \* how far each native synchronization has got
    runtime,    \* WCASH_RUNTIME: "open", "closed" or "poisoned"
    syncState,  \* the adapter's syncState.phase
    deletion    \* deleteWallet: "none", "unlocking" WCASH_RUNTIME or "closed"

syncVars == <<active, cancelled, task, runtime, syncState, deletion>>

SyncTypeOK ==
    /\ active \in Tasks \cup {None}
    /\ cancelled \in SUBSET Tasks
    /\ task \in [Tasks -> Stages]
    /\ runtime \in {"open", "closed", "poisoned"}
    /\ syncState \in SyncPhases
    /\ deletion \in {"none", "unlocking", "closed"}

SyncInit ==
    /\ active = None
    /\ cancelled = {}
    /\ task = [t \in Tasks |-> "none"]
    /\ runtime = "closed"
    /\ syncState = "idle"
    /\ deletion = "none"

Outstanding(t) == task[t] # "none"

(* WCASH_RUNTIME is not locked. Other calls hold it for a moment only.     *)
Unlocked == \A t \in Tasks : task[t] # "syncing"

-----------------------------------------------------------------------------
(* Native: the registry of the active synchronization.                     *)

(* Mutant: a stop does not ask whether a synchronization is active.        *)
CancelUnchecked == cancelled' = cancelled \cup {active}

(* cancel_active_sync                                                      *)
CancelActive ==
    cancelled' = IF active = None THEN cancelled ELSE cancelled \cup {active}

(* Mutant: a synchronization that is cancelled counts as ended.            *)
ReservesBesideCancelled(t) ==
    /\ active = None \/ active \in cancelled
    /\ task[t] = "none"
    /\ active' = t
    /\ cancelled' = cancelled \ {t}
    /\ task' = [task EXCEPT ![t] = "waiting"]

(* reserve_active_sync, with a new cancellation token.                     *)
Reserves(t) ==
    /\ active = None
    /\ task[t] = "none"
    /\ active' = t
    /\ cancelled' = cancelled \ {t}
    /\ task' = [task EXCEPT ![t] = "waiting"]

SyncBegins(t) ==
    /\ task[t] = "waiting"
    /\ Unlocked
    /\ runtime = "open"
    /\ task' = [task EXCEPT ![t] = "syncing"]
    /\ UNCHANGED <<active, cancelled, runtime, syncState, deletion>>

(* The wallet is not open, or the lock is poisoned.                        *)
SyncRefused(t) ==
    /\ task[t] = "waiting"
    /\ Unlocked
    /\ runtime # "open"
    /\ task' = [task EXCEPT ![t] = "failed"]
    /\ UNCHANGED <<active, cancelled, runtime, syncState, deletion>>

(* The wallet core reached the tip, failed or noticed the cancellation.    *)
SyncEnds(t) ==
    /\ task[t] = "syncing"
    /\ \E end \in Worked : task' = [task EXCEPT ![t] = end]
    /\ UNCHANGED <<active, cancelled, runtime, syncState, deletion>>

(* with_panic_guard turns the panic into an error; WCASH_RUNTIME, which it *)
(* unwound, stays poisoned.                                                *)
SyncPanics(t) ==
    /\ task[t] = "syncing"
    /\ task' = [task EXCEPT ![t] = "failed"]
    /\ runtime' = "poisoned"
    /\ UNCHANGED <<active, cancelled, syncState, deletion>>

(* Drop for ActiveSyncReservation: only the owner clears the registry.     *)
SyncDrops(t) ==
    /\ task[t] \in Worked
    /\ task' = [task EXCEPT ![t] = IF @ = "succeeded" THEN "resolves" ELSE "rejects"]
    /\ active' = IF active = t THEN None ELSE active
    /\ UNCHANGED <<cancelled, runtime, syncState, deletion>>

WorkerStep(t) ==
    SyncBegins(t) \/ SyncRefused(t) \/ SyncEnds(t) \/ SyncPanics(t) \/ SyncDrops(t)

(* store_runtime of wcash_open, wcash_create and wcash_restore. A poisoned *)
(* lock refuses it.                                                        *)
RuntimeStored ==
    /\ Unlocked
    /\ runtime # "poisoned"
    /\ runtime' = "open"
    /\ UNCHANGED <<active, cancelled, task, syncState, deletion>>

-----------------------------------------------------------------------------
(* The adapter.                                                            *)

(* Mutant: nothing handles the rejection of wcash_sync.                    *)
SettlesResolvedOnly(t) ==
    /\ task[t] \in Due
    /\ task' = [task EXCEPT ![t] = "none"]
    /\ syncState' = IF task[t] = "resolves" THEN "complete" ELSE syncState
    /\ UNCHANGED <<active, cancelled, runtime, deletion>>

(* The completion of wcash_sync, whatever the phase was set to meanwhile.  *)
(* A result that does not parse is a failure.                              *)
Settles(t) ==
    /\ task[t] \in Due
    /\ task' = [task EXCEPT ![t] = "none"]
    /\ syncState' \in {"failed"} \cup {s \in {"complete"} : task[t] = "resolves"}
    /\ UNCHANGED <<active, cancelled, runtime, deletion>>

(* run_sync. "Already running" is an answer that changes nothing.          *)
SyncLaunched(t) ==
    /\ syncState # "running"
    /\ Reserves(t)
    /\ syncState' = "running"
    /\ UNCHANGED <<runtime, deletion>>

(* wcash_sync throws: an earlier synchronization is still reserved.        *)
LaunchThrows ==
    /\ syncState # "running"
    /\ active # None
    /\ syncState' = "failed"
    /\ UNCHANGED <<active, cancelled, task, runtime, deletion>>

(* Mutant: a poll reports a failure again and again.                       *)
PollKeepsFailed ==
    /\ syncState \in {"complete", "failed"}
    /\ syncState' = IF syncState = "complete" THEN "idle" ELSE "failed"
    /\ UNCHANGED <<active, cancelled, task, runtime, deletion>>

(* poll_sync consumes an ended synchronization.                            *)
PollConsumes ==
    /\ syncState \in {"complete", "failed"}
    /\ syncState' = "idle"
    /\ UNCHANGED <<active, cancelled, task, runtime, deletion>>

(* stop_sync                                                               *)
StopRequested ==
    /\ CancelActive
    /\ UNCHANGED <<active, task, runtime, syncState, deletion>>

(* deinitialize, once the preview is discarded. Nothing is stopped.        *)
Deinitialized ==
    /\ syncState' = "idle"
    /\ UNCHANGED <<active, cancelled, task, runtime, deletion>>

-----------------------------------------------------------------------------
(* deleteWallet and wcash_delete.                                          *)

DeleteStops ==
    /\ deletion = "none"
    /\ CancelActive
    /\ deletion' = "unlocking"
    /\ UNCHANGED <<active, task, runtime, syncState>>

(* Mutant: the runtime is closed without waiting for its lock.             *)
DeleteClosesUnlocked ==
    /\ deletion = "unlocking"
    /\ runtime # "poisoned"
    /\ runtime' = "closed"
    /\ deletion' = "closed"
    /\ UNCHANGED <<active, cancelled, task, syncState>>

DeleteCloses ==
    /\ deletion = "unlocking"
    /\ Unlocked
    /\ runtime # "poisoned"
    /\ runtime' = "closed"
    /\ deletion' = "closed"
    /\ UNCHANGED <<active, cancelled, task, syncState>>

(* A signed proposal or a poisoned lock, and later the files, the database *)
(* that is still there or the credential: the adapter rejects.             *)
DeleteFails ==
    /\ deletion # "none"
    /\ deletion' = "none"
    /\ UNCHANGED <<active, cancelled, task, runtime, syncState>>

DeleteEnds ==
    /\ deletion = "closed"
    /\ deletion' = "none"
    /\ syncState' = "idle"
    /\ UNCHANGED <<active, cancelled, task, runtime>>

DeleteProceeds == DeleteCloses \/ DeleteFails \/ DeleteEnds

-----------------------------------------------------------------------------
SyncNext ==
    \/ \E t \in Tasks : WorkerStep(t) \/ Settles(t) \/ SyncLaunched(t)
    \/ LaunchThrows \/ PollConsumes \/ StopRequested \/ Deinitialized
    \/ RuntimeStored
    \/ DeleteStops \/ DeleteProceeds

SyncSpec == SyncInit /\ [][SyncNext]_syncVars

-----------------------------------------------------------------------------
(* A stop reaches what runs: a synchronization whose worker has not ended  *)
(* is the one the registry names, so stop_sync and wcash_delete cancel it, *)
(* and there are never two.                                                *)
StopReachesSync ==
    \A t \in Tasks : task[t] \in {"waiting", "syncing"} => active = t

(* The adapter never waits for nothing: while it answers "not complete"    *)
(* and "already running", a completion is outstanding that will change its *)
(* phase. Without one the wallet would not synchronize again.              *)
RunningWillComplete ==
    syncState = "running" => \E t \in Tasks : Outstanding(t)

(* While the files of a deleted wallet are removed, and until a wallet is  *)
(* opened again, no synchronization writes to them.                        *)
ClosedIsNotSynced ==
    runtime = "closed" => Unlocked

(* What makes these inductive: the registry names exactly the reservation  *)
(* that was not dropped.                                                   *)
ReservationIsActive ==
    \A t \in Tasks : task[t] \in {"waiting", "syncing"} \cup Worked <=> active = t

SyncInv ==
    /\ SyncTypeOK
    /\ ReservationIsActive
    /\ RunningWillComplete
    /\ ClosedIsNotSynced
===============================================================================
