------------------------ MODULE ProposalRegistryProofs ------------------------
(***************************************************************************)
(* Safety of ProposalRegistry, for any callers, fees and bounds.           *)
(*                                                                         *)
(* IInv is inductive: one lemma for each action, or for each group of      *)
(* actions that treats the registry alike, and NextInv puts them together. *)
(* The invariants, the action property CalculatedAwaitsVerdict and the     *)
(* refinement of ProposalLifecycle follow from it.                         *)
(***************************************************************************)
EXTENDS ProposalRegistry, TLAPS

USE ConstantsAssumption

(* The ways a task moves keep its record well formed.                      *)
LEMMA SettleTyped ==
    ASSUME TypeOK, NEW c \in Callers, NEW result \in Results, Settle(c, result)
    PROVE  task' \in [Callers -> Tasks] /\ mutex' = None
BY DEF TypeOK, Settle, Tasks, Phases

(* So does a task that takes or keeps the mutex.                           *)
LEMMA GoOnTyped ==
    ASSUME TypeOK, NEW c \in Callers, NEW phase \in Phases, GoOn(c, phase)
    PROVE  task' \in [Callers -> Tasks] /\ mutex' = c
BY DEF TypeOK, GoOn, Tasks

(* An answer without an identifier or a fee is a result.                   *)
LEMMA AnswerTyped ==
    ASSUME NEW outcome \in Outcomes
    PROVE  Answer(outcome) \in Results
BY DEF Answer, Results

(* A generation of this process is a global identifier.                    *)
LEMMA IdTyped ==
    ASSUME TypeOK, NEW generation \in 1 .. MaxGeneration
    PROVE  Id(generation) \in Ids
BY DEF TypeOK, Id, Ids

-----------------------------------------------------------------------------
(* A first start of the process satisfies the invariant.                   *)
LEMMA InitInv == Init => IInv
<1> SUFFICES ASSUME Init PROVE IInv
  OBVIOUS
<1>1. NoTask \in Tasks
  BY DEF NoTask, Tasks, Phases
<1>2. TypeOK
  <2>1. task \in [Callers -> Tasks]
    BY <1>1 DEF Init
  <2>2. epoch \in 1 .. MaxEpoch /\ nextGeneration \in 0 .. MaxGeneration
    BY DEF Init
  <2>3. pending \in SUBSET [id : Ids, fee : Fees]
    BY DEF Init
  <2>4. sent \in SUBSET [id : Ids, fee : Fees, reviewed : Fees]
    BY DEF Init
  <2>5. verdicts \in SUBSET [id : Ids, answer : Verdicts]
    BY DEF Init
  <2> QED
    BY <2>1, <2>2, <2>3, <2>4, <2>5 DEF Init, TypeOK
<1>3. WaitsForRequest
  BY DEF Init, WaitsForRequest, NoTask
<1> QED
  BY <1>2, <1>3 DEF Init, IInv, HolderFits, IdentifiersGiven, LocksMatchProposal,
     OnlyReviewedFeeSent, AtMostOneVerdict, Staged

(* What a step does not change of the proposal, its lock and the node.     *)
Kept == UNCHANGED <<nextGeneration, active, epoch, locks, sent, verdicts>>

RegistryFits ==
    IdentifiersGiven /\ LocksMatchProposal /\ OnlyReviewedFeeSent /\ AtMostOneVerdict

(* A step that changes none of them keeps what is said of the registry.    *)
LEMMA KeptFits == RegistryFits /\ Kept => RegistryFits'
BY DEF RegistryFits, Kept, IdentifiersGiven, LocksMatchProposal, OnlyReviewedFeeSent,
   AtMostOneVerdict, Staged, Id

(* A task that settles gives the mutex back and waits for nothing.         *)
LEMMA SettleFits ==
    ASSUME IInv, NEW c \in Callers, NEW result \in Results, Settle(c, result)
    PROVE  WaitsForRequest' /\ HolderFits'
<1>1. WaitsForRequest'
  BY DEF IInv, TypeOK, WaitsForRequest, Settle
<1>2. HolderFits'
  BY DEF Settle, HolderFits
<1> QED
  BY <1>1, <1>2

(* A task that goes on with the mutex no longer waits for it.              *)
LEMMA GoOnWaits ==
    ASSUME IInv, NEW c \in Callers, NEW phase \in Phases \ {"waiting"}, GoOn(c, phase)
    PROVE  WaitsForRequest'
BY DEF IInv, TypeOK, WaitsForRequest, GoOn

(* A step beside the registry: a task moves into a phase that says nothing *)
(* of the registry, whether or not it is the holder's.                     *)
LEMMA BesideFits ==
    ASSUME IInv, NEW c \in Callers, Kept, mutex' = mutex,
           \A d \in Callers \ {c} : task'[d] = task[d],
           task'[c].phase \in {"idle", "waiting", "store", "settled"}
    PROVE  HolderFits'
<1>1. CASE mutex = c
  BY <1>1 DEF HolderFits
<1>2. CASE mutex # c
  <2> SUFFICES ASSUME mutex # None PROVE HolderFits'
    BY DEF HolderFits
  <2>1. mutex \in Callers /\ task'[mutex] = task[mutex]
    BY <1>2 DEF IInv, TypeOK
  <2> QED
    BY <2>1 DEF IInv, HolderFits, Kept, Staged, Calculated, Id
<1> QED
  BY <1>1, <1>2

-----------------------------------------------------------------------------
(* One lemma for each group of actions that treats the registry alike.     *)

(* A task that fails and leaves the registry as it was.                    *)
LEMMA RefusalInv ==
    ASSUME IInv, NEW c \in Callers, Settle(c, Answer("error")), Kept,
           UNCHANGED <<runtime, database, pending>>, poisoned' \in BOOLEAN
    PROVE  IInv'
<1>1. Answer("error") \in Results
  BY AnswerTyped DEF Outcomes
<1>2. TypeOK'
  BY <1>1, SettleTyped DEF IInv, TypeOK, Kept
<1>3. WaitsForRequest' /\ HolderFits'
  BY <1>1, SettleFits
<1>4. RegistryFits'
  BY KeptFits DEF IInv, RegistryFits
<1> QED
  BY <1>2, <1>3, <1>4 DEF IInv, RegistryFits

(* Every refusal and every error path of that kind, panics included.       *)
LEMMA RefusalsInv ==
    ASSUME IInv, NEW c \in Callers,
           \/ ProposeRefused(c) \/ ProposeFails(c) \/ ConfirmRefused(c) \/ CalculateFails(c)
           \/ AttestFails(c) \/ BroadcastRefused(c) \/ CancelFails(c) \/ DeleteRefused(c)
           \/ DeleteFails(c) \/ Panics(c)
    PROVE  IInv'
<1> USE RefusalInv DEF IInv, TypeOK, Kept, disk, node
<1>1. CASE ProposeRefused(c)
  BY <1>1 DEF ProposeRefused
<1>2. CASE ProposeFails(c)
  BY <1>2 DEF ProposeFails
<1>3. CASE ConfirmRefused(c)
  BY <1>3 DEF ConfirmRefused
<1>4. CASE CalculateFails(c)
  BY <1>4 DEF CalculateFails
<1>5. CASE AttestFails(c)
  BY <1>5 DEF AttestFails
<1>6. CASE BroadcastRefused(c)
  BY <1>6 DEF BroadcastRefused
<1>7. CASE CancelFails(c)
  BY <1>7 DEF CancelFails, NotReplaced
<1>8. CASE DeleteRefused(c)
  BY <1>8 DEF DeleteRefused, NotReplaced
<1>9. CASE DeleteFails(c)
  BY <1>9 DEF DeleteFails
<1>10. CASE Panics(c)
  BY <1>10 DEF Panics
<1> QED
  BY <1>1, <1>2, <1>3, <1>4, <1>5, <1>6, <1>7, <1>8, <1>9, <1>10

(* A new call does not touch the registry.                                 *)
LEMMA CallInv ==
    ASSUME IInv, NEW c \in Callers, NEW req \in Requests, Call(c, req)
    PROVE  IInv'
<1> DEFINE t == [request |-> req, phase |-> "waiting", result |-> None]
<1>1. t \in Tasks /\ t.phase = "waiting" /\ t.request = req
  BY DEF Tasks, Phases
<1>2. task' = [task EXCEPT ![c] = t]
  BY DEF Call
<1> HIDE DEF t
<1>3. Kept /\ mutex' = mutex /\ UNCHANGED <<runtime, poisoned, database, pending>>
  BY DEF Call, Kept, disk, node
<1>4. TypeOK'
  BY <1>1, <1>2, <1>3 DEF IInv, TypeOK, Kept
<1>5. WaitsForRequest'
  BY <1>1, <1>2 DEF IInv, TypeOK, WaitsForRequest
<1>6. HolderFits'
  BY <1>1, <1>2, <1>3, BesideFits DEF IInv, TypeOK
<1>7. RegistryFits'
  BY <1>3, KeptFits DEF IInv, RegistryFits
<1> QED
  BY <1>4, <1>5, <1>6, <1>7 DEF IInv, RegistryFits

(* Nor does the caller that reads its result.                              *)
LEMMA CollectInv ==
    ASSUME IInv, NEW c \in Callers, Collect(c)
    PROVE  IInv'
<1>1. NoTask \in Tasks /\ NoTask.phase = "idle"
  BY DEF NoTask, Tasks, Phases
<1>2. task' = [task EXCEPT ![c] = NoTask]
  BY DEF Collect
<1>3. Kept /\ mutex' = mutex /\ UNCHANGED <<runtime, poisoned, database, pending>>
  BY DEF Collect, Kept, disk, node
<1>4. TypeOK'
  BY <1>1, <1>2, <1>3 DEF IInv, TypeOK, Kept
<1>5. WaitsForRequest'
  BY <1>1, <1>2 DEF IInv, TypeOK, WaitsForRequest
<1>6. HolderFits'
  BY <1>1, <1>2, <1>3, BesideFits DEF IInv, TypeOK
<1>7. RegistryFits'
  BY <1>3, KeptFits DEF IInv, RegistryFits
<1> QED
  BY <1>4, <1>5, <1>6, <1>7 DEF IInv, RegistryFits

(* open, create and restore.                                               *)
LEMMA OpenInv ==
    ASSUME IInv, NEW c \in Callers,
           OpenBegin(c) \/ CreateBegin(c) \/ OpenFails(c) \/ StoreRuntime(c)
    PROVE  IInv'
<1>1. PICK t \in Tasks : task' = [task EXCEPT ![c] = t] /\ t.phase \in {"store", "settled"}
  <2>1. CASE OpenBegin(c) \/ CreateBegin(c)
    <3> DEFINE t == [task[c] EXCEPT !.phase = "store"]
    <3>1. t \in Tasks /\ t.phase = "store"
      BY DEF IInv, TypeOK, Tasks, Phases
    <3>2. task' = [task EXCEPT ![c] = t]
      BY <2>1 DEF OpenBegin, CreateBegin, IInv, TypeOK
    <3> QED
      BY <3>1, <3>2
  <2>2. CASE OpenFails(c) \/ StoreRuntime(c)
    <3>1. PICK outcome \in Outcomes :
            task' = [task EXCEPT ![c].phase = "settled", ![c].result = Answer(outcome)]
      BY <2>2 DEF OpenFails, StoreRuntime, SettleBeside, Outcomes
    <3> DEFINE t == [task[c] EXCEPT !.phase = "settled", !.result = Answer(outcome)]
    <3>2. t \in Tasks /\ t.phase = "settled"
      BY AnswerTyped DEF IInv, TypeOK, Tasks, Phases
    <3>3. task' = [task EXCEPT ![c] = t]
      BY <3>1 DEF IInv, TypeOK
    <3> QED
      BY <3>2, <3>3
  <2> QED
    BY <2>1, <2>2
<1>2. Kept /\ mutex' = mutex
  BY DEF OpenBegin, CreateBegin, OpenFails, StoreRuntime, SettleBeside, Kept, disk, node
<1>3. /\ runtime' \in BOOLEAN
      /\ poisoned' = poisoned
      /\ database' \in BOOLEAN
      /\ pending' = pending
  BY DEF OpenBegin, CreateBegin, OpenFails, StoreRuntime, IInv, TypeOK, disk
<1>4. TypeOK'
  BY <1>1, <1>2, <1>3 DEF IInv, TypeOK, Kept
<1>5. WaitsForRequest'
  BY <1>1 DEF IInv, TypeOK, WaitsForRequest
<1>6. HolderFits'
  BY <1>1, <1>2, BesideFits DEF IInv, TypeOK
<1>7. RegistryFits'
  BY <1>2, KeptFits DEF IInv, RegistryFits
<1> QED
  BY <1>4, <1>5, <1>6, <1>7 DEF IInv, RegistryFits

(* Nor does the chain, when a signed transaction is mined or expires.      *)
LEMMA ResolveInv ==
    ASSUME IInv, NEW p \in pending, Resolve(p)
    PROVE  IInv'
<1>1. Kept /\ UNCHANGED <<mutex, task, runtime, poisoned, database>>
  BY DEF Resolve, Kept, memory, node
<1>2. TypeOK'
  BY <1>1 DEF Resolve, IInv, TypeOK, Kept
<1>3. WaitsForRequest' /\ HolderFits'
  BY <1>1 DEF IInv, WaitsForRequest, HolderFits, Kept, Staged, Calculated, Id
<1>4. RegistryFits'
  BY <1>1, KeptFits DEF IInv, RegistryFits
<1> QED
  BY <1>2, <1>3, <1>4 DEF IInv, RegistryFits

(* A new process has given out no identifier of its own yet.               *)
LEMMA RestartInv ==
    ASSUME IInv, Restart
    PROVE  IInv'
<1>1. NoTask \in Tasks /\ NoTask.phase = "idle"
  BY DEF NoTask, Tasks, Phases
<1>2. TypeOK'
  <2>1. task' \in [Callers -> Tasks]
    BY <1>1 DEF Restart
  <2>2. epoch' \in 1 .. MaxEpoch /\ nextGeneration' \in 0 .. MaxGeneration
    BY DEF Restart, IInv, TypeOK
  <2> QED
    BY <2>1, <2>2 DEF Restart, IInv, TypeOK, disk, node
<1>3. WaitsForRequest' /\ HolderFits'
  BY <1>1 DEF Restart, WaitsForRequest, HolderFits
<1>4. ~Staged'
  BY DEF Restart, Staged
<1>5. locks' = locks /\ verdicts' = verdicts /\ sent' = sent /\ epoch' = epoch + 1
  BY DEF Restart, disk, node
<1>6. \A id \in locks : id[1] \in 1 .. MaxEpoch /\ id[1] <= epoch
  BY DEF IInv, TypeOK, Ids, IdentifiersGiven
<1>7. \A v \in verdicts : v.id[1] \in 1 .. MaxEpoch /\ v.id[1] <= epoch
  BY DEF IInv, TypeOK, Ids, IdentifiersGiven
<1>8. epoch \in Int
  BY DEF IInv, TypeOK
<1>9. LocksMatchProposal'
  BY <1>4, <1>5, <1>6, <1>8 DEF LocksMatchProposal
<1>10. IdentifiersGiven'
  BY <1>5, <1>6, <1>7, <1>8 DEF IdentifiersGiven, Restart
<1>11. OnlyReviewedFeeSent' /\ AtMostOneVerdict'
  BY <1>5 DEF IInv, OnlyReviewedFeeSent, AtMostOneVerdict
<1> QED
  BY <1>2, <1>3, <1>9, <1>10, <1>11 DEF IInv

-----------------------------------------------------------------------------
(* The actions that change the registry.                                   *)

(* Whatever empties the slot of a staged proposal releases its lock; a     *)
(* slot that was empty had none.                                           *)
LEMMA EmptiedFits ==
    ASSUME IInv, active' = None,
           \/ active = None /\ locks' = locks
           \/ Staged /\ locks' = locks \ {Id(active.generation)},
           UNCHANGED <<nextGeneration, epoch, sent, verdicts>>
    PROVE  RegistryFits' /\ locks' \in SUBSET Ids
<1>1. LocksMatchProposal'
  BY DEF IInv, LocksMatchProposal, Staged, Id
<1>2. IdentifiersGiven'
  BY DEF IInv, IdentifiersGiven
<1>3. OnlyReviewedFeeSent' /\ AtMostOneVerdict'
  BY DEF IInv, OnlyReviewedFeeSent, AtMostOneVerdict
<1>4. locks' \in SUBSET Ids
  BY DEF IInv, TypeOK
<1> QED
  BY <1>1, <1>2, <1>3, <1>4 DEF RegistryFits

(* Hence cancel_replaceable_proposal leaves no lock behind.                *)
LEMMA ReplacedFits ==
    ASSUME IInv, NEW expected, Replaced(expected),
           UNCHANGED <<nextGeneration, epoch, sent, verdicts>>
    PROVE  RegistryFits' /\ locks' \in SUBSET Ids /\ active' = None
<1>1. active' = None
  BY DEF Replaced
<1> QED
  BY <1>1, EmptiedFits DEF Replaced

(* A proposal first replaces the staged one.                               *)
LEMMA ProposeBeginInv ==
    ASSUME IInv, NEW c \in Callers, ProposeBegin(c)
    PROVE  IInv'
<1>1. /\ Replaced(0) /\ GoOn(c, "stage")
      /\ UNCHANGED <<runtime, poisoned, nextGeneration, epoch, database, pending, sent, verdicts>>
  BY DEF ProposeBegin, node
<1>2. RegistryFits' /\ locks' \in SUBSET Ids /\ active' = None
  BY <1>1, ReplacedFits
<1>3. task' \in [Callers -> Tasks] /\ mutex' = c /\ WaitsForRequest'
  BY <1>1, GoOnTyped, GoOnWaits DEF IInv, Phases
<1>4. TypeOK'
  BY <1>1, <1>2, <1>3 DEF IInv, TypeOK
<1>5. task'[c].phase = "stage" /\ task'[c].request = task[c].request
  BY <1>1 DEF GoOn, IInv, TypeOK, Tasks
<1>6. task[c].request \in [op : {"propose"}, gen : {0}, kind : Kinds]
  BY DEF ProposeBegin, Starts, Waits, IInv, WaitsForRequest, Requests
<1>7. nextGeneration' < MaxGeneration
  BY DEF ProposeBegin
<1>8. HolderFits'
  BY <1>2, <1>3, <1>5, <1>6, <1>7 DEF HolderFits
<1> QED
  BY <1>2, <1>3, <1>4, <1>8 DEF IInv, RegistryFits

(* A shielding proposal without its value is withdrawn.                    *)
LEMMA ProposeWithdrawsInv ==
    ASSUME IInv, NEW c \in Callers, ProposeWithdraws(c)
    PROVE  IInv'
<1>1. CASE NotReplaced
  BY <1>1, RefusalInv DEF ProposeWithdraws, NotReplaced, Kept, node, IInv, TypeOK
<1>2. CASE Replaced(nextGeneration)
  <2>1. /\ Settle(c, Answer("error"))
        /\ UNCHANGED <<runtime, poisoned, nextGeneration, epoch, database, pending, sent, verdicts>>
    BY DEF ProposeWithdraws, node
  <2>2. RegistryFits' /\ locks' \in SUBSET Ids /\ active' = None
    BY <1>2, <2>1, ReplacedFits
  <2>3. Answer("error") \in Results
    BY AnswerTyped DEF Outcomes
  <2>4. TypeOK'
    BY <2>1, <2>2, <2>3, SettleTyped DEF IInv, TypeOK
  <2>5. WaitsForRequest' /\ HolderFits'
    BY <2>1, <2>3, SettleFits
  <2> QED
    BY <2>2, <2>4, <2>5 DEF IInv, RegistryFits
<1> QED
  BY <1>1, <1>2 DEF ProposeWithdraws

(* cancel_proposal.                                                        *)
LEMMA CancelSucceedsInv ==
    ASSUME IInv, NEW c \in Callers, CancelSucceeds(c)
    PROVE  IInv'
<1>1. PICK outcome \in {"not_cancelled", "cancelled"} : Settle(c, Answer(outcome))
  BY DEF CancelSucceeds
<1>2. /\ Replaced(task[c].request.gen)
      /\ UNCHANGED <<runtime, poisoned, nextGeneration, epoch, database, pending, sent, verdicts>>
  BY DEF CancelSucceeds, node
<1>3. RegistryFits' /\ locks' \in SUBSET Ids /\ active' = None
  BY <1>2, ReplacedFits
<1>4. Answer(outcome) \in Results
  BY AnswerTyped DEF Outcomes
<1>5. TypeOK'
  BY <1>1, <1>2, <1>3, <1>4, SettleTyped DEF IInv, TypeOK
<1>6. WaitsForRequest' /\ HolderFits'
  BY <1>1, <1>4, SettleFits
<1> QED
  BY <1>3, <1>5, <1>6 DEF IInv, RegistryFits

(* delete_wallet first replaces the staged proposal,                       *)
LEMMA DeleteBeginInv ==
    ASSUME IInv, NEW c \in Callers, DeleteBegin(c)
    PROVE  IInv'
<1>1. /\ Replaced(0) /\ GoOn(c, "close")
      /\ UNCHANGED <<runtime, poisoned, nextGeneration, epoch, database, pending, sent, verdicts>>
  BY DEF DeleteBegin, node
<1>2. RegistryFits' /\ locks' \in SUBSET Ids /\ active' = None
  BY <1>1, ReplacedFits
<1>3. task' \in [Callers -> Tasks] /\ mutex' = c /\ WaitsForRequest'
  BY <1>1, GoOnTyped, GoOnWaits DEF IInv, Phases
<1>4. TypeOK'
  BY <1>1, <1>2, <1>3 DEF IInv, TypeOK
<1>5. task'[c].phase = "close"
  BY <1>1 DEF GoOn, IInv, TypeOK, Tasks
<1>6. HolderFits'
  BY <1>2, <1>3, <1>5 DEF HolderFits
<1> QED
  BY <1>2, <1>3, <1>4, <1>6 DEF IInv, RegistryFits

(* then closes the runtime under the same guard,                           *)
LEMMA DeleteClosesInv ==
    ASSUME IInv, NEW c \in Callers, DeleteCloses(c)
    PROVE  IInv'
<1>1. /\ GoOn(c, "unlink") /\ Kept
      /\ UNCHANGED <<poisoned, database, pending>> /\ runtime' = FALSE
  BY DEF DeleteCloses, Kept, disk, node
<1>2. task' \in [Callers -> Tasks] /\ mutex' = c /\ WaitsForRequest'
  BY <1>1, GoOnTyped, GoOnWaits DEF IInv, Phases
<1>3. TypeOK'
  BY <1>1, <1>2 DEF IInv, TypeOK, Kept
<1>4. active' = None
  BY <1>1 DEF DeleteCloses, At, IInv, TypeOK, HolderFits, Kept
<1>5. task'[c].phase = "unlink"
  BY <1>1 DEF GoOn, IInv, TypeOK, Tasks
<1>6. HolderFits'
  BY <1>2, <1>4, <1>5 DEF HolderFits
<1>7. RegistryFits'
  BY <1>1, KeptFits DEF IInv, RegistryFits
<1> QED
  BY <1>2, <1>3, <1>6, <1>7 DEF IInv, RegistryFits

(* and removes the database when the slot is empty.                        *)
LEMMA DeleteSucceedsInv ==
    ASSUME IInv, NEW c \in Callers, DeleteSucceeds(c)
    PROVE  IInv'
<1>1. Answer("done") \in Results
  BY AnswerTyped DEF Outcomes
<1>2. /\ Settle(c, Answer("done"))
      /\ locks' = {} /\ pending' = {} /\ database' = FALSE
      /\ UNCHANGED <<runtime, poisoned, nextGeneration, active, epoch, sent, verdicts>>
  BY DEF DeleteSucceeds, node
<1>3. active = None
  BY DEF DeleteSucceeds, At, IInv, TypeOK, HolderFits
<1>4. TypeOK'
  BY <1>1, <1>2, SettleTyped DEF IInv, TypeOK
<1>5. WaitsForRequest' /\ HolderFits'
  BY <1>1, <1>2, SettleFits
<1>6. LocksMatchProposal' /\ IdentifiersGiven'
  BY <1>2, <1>3 DEF IInv, LocksMatchProposal, IdentifiersGiven, Staged
<1>7. OnlyReviewedFeeSent' /\ AtMostOneVerdict'
  BY <1>2 DEF IInv, OnlyReviewedFeeSent, AtMostOneVerdict
<1> QED
  BY <1>4, <1>5, <1>6, <1>7 DEF IInv

(* A new proposal: an identifier not given before, and its lock.           *)
LEMMA StageFits ==
    ASSUME IInv, NEW c \in Callers, NEW fee \in Fees, StageProposal(c, fee)
    PROVE  /\ RegistryFits'
           /\ active' \in Proposals
           /\ nextGeneration' \in 1 .. MaxGeneration
           /\ locks' \in SUBSET Ids
           /\ Staged'
<1> DEFINE generation == nextGeneration + 1
<1>1. /\ active = None
      /\ nextGeneration < MaxGeneration
      /\ task[c].request.kind \in Kinds
  BY DEF StageProposal, At, IInv, TypeOK, HolderFits
<1>2. generation \in 1 .. MaxGeneration /\ generation > nextGeneration
  BY <1>1 DEF IInv, TypeOK
<1>3. /\ nextGeneration' = generation
      /\ active' = [generation |-> generation, kind |-> task[c].request.kind,
                    fee |-> fee, signed |-> None]
      /\ locks' = locks \cup {Id(generation)}
      /\ UNCHANGED <<epoch, sent, verdicts>>
  BY DEF StageProposal, node
<1> HIDE DEF generation
<1>4. active' \in Proposals /\ active'.generation = generation /\ active'.signed = None
  BY <1>1, <1>2, <1>3 DEF Proposals
<1>5. active' # None
  BY <1>4
<1>6. Id(generation) \in Ids
  BY <1>2, IdTyped DEF IInv
<1>7. LocksMatchProposal'
  BY <1>1, <1>3, <1>4, <1>5 DEF IInv, LocksMatchProposal, Staged, Id
<1>8. Id(generation)[1] = epoch
  BY DEF Id
<1>9. IdentifiersGiven'
  <2>1. epoch \in Int /\ nextGeneration \in Int /\ generation \in Int
    BY <1>2 DEF IInv, TypeOK
  <2>2. \A v \in verdicts : v.id[2] \in Int
    BY DEF IInv, TypeOK, Ids
  <2>3. \A v \in verdicts :
          /\ v.id[1] <= epoch
          /\ v.id[1] = epoch => v.id[2] <= generation /\ v.id[2] # generation
    BY <1>2, <2>1, <2>2 DEF IInv, IdentifiersGiven
  <2>4. \A id \in locks' : id[1] <= epoch
    BY <1>3, <1>8, <2>1 DEF IInv, IdentifiersGiven
  <2> QED
    BY <1>3, <1>4, <2>1, <2>3, <2>4 DEF IdentifiersGiven
<1>10. OnlyReviewedFeeSent' /\ AtMostOneVerdict'
  BY <1>3 DEF IInv, OnlyReviewedFeeSent, AtMostOneVerdict
<1>11. locks' \in SUBSET Ids
  BY <1>3, <1>6 DEF IInv, TypeOK
<1> QED
  BY <1>2, <1>3, <1>4, <1>5, <1>7, <1>9, <1>10, <1>11 DEF RegistryFits, Staged

(* A proposal is staged, and its preview answered or withdrawn.            *)
LEMMA StageInv ==
    ASSUME IInv, NEW c \in Callers, NEW fee \in Fees,
           ProposeSucceeds(c, fee) \/ ProposeOmitsValue(c, fee)
    PROVE  IInv'
<1>1. StageProposal(c, fee)
  BY DEF ProposeSucceeds, ProposeOmitsValue
<1>2. /\ RegistryFits'
      /\ active' \in Proposals
      /\ nextGeneration' \in 1 .. MaxGeneration
      /\ locks' \in SUBSET Ids
  BY <1>1, StageFits
<1>3. UNCHANGED <<runtime, poisoned, epoch, database, pending, sent, verdicts>>
  BY <1>1 DEF StageProposal, node
<1>4. /\ task' \in [Callers -> Tasks]
      /\ mutex' \in Callers \cup {None}
      /\ WaitsForRequest' /\ HolderFits'
  <2>1. CASE ProposeSucceeds(c, fee)
    <3> DEFINE preview == [outcome |-> "preview", gen |-> nextGeneration + 1, fee |-> fee]
    <3>1. preview \in Results
      BY <1>1, <1>2 DEF Results, Outcomes, StageProposal
    <3>2. Settle(c, preview)
      BY <2>1 DEF ProposeSucceeds
    <3> QED
      BY <3>1, <3>2, SettleTyped, SettleFits DEF IInv
  <2>2. CASE ProposeOmitsValue(c, fee)
    <3>1. GoOn(c, "omitted")
      BY <2>2 DEF ProposeOmitsValue
    <3>2. task' \in [Callers -> Tasks] /\ mutex' = c /\ WaitsForRequest'
      BY <3>1, GoOnTyped, GoOnWaits DEF IInv, Phases
    <3>3. task'[c].phase = "omitted"
      BY <3>1 DEF GoOn, IInv, TypeOK, Tasks
    <3> QED
      BY <3>2, <3>3 DEF HolderFits
  <2> QED
    BY <2>1, <2>2
<1>5. TypeOK'
  BY <1>2, <1>3, <1>4 DEF IInv, TypeOK
<1> QED
  BY <1>2, <1>4, <1>5 DEF IInv, RegistryFits

(* confirm_proposal goes on to what the state of the proposal calls for.   *)
LEMMA ConfirmBeginInv ==
    ASSUME IInv, NEW c \in Callers, ConfirmBegin(c)
    PROVE  IInv'
<1>1. Kept /\ UNCHANGED <<runtime, poisoned, database, pending>>
  BY DEF ConfirmBegin, Kept, disk, node
<1>2. PICK phase \in {"calculate", "broadcast"} :
        GoOn(c, phase) /\ (phase = "calculate" => Staged) /\ (phase = "broadcast" => Calculated)
  BY DEF ConfirmBegin, Reviewed, Staged, Calculated
<1>3. task' \in [Callers -> Tasks] /\ mutex' = c /\ WaitsForRequest'
  BY <1>2, GoOnTyped, GoOnWaits DEF IInv, Phases
<1>4. TypeOK'
  BY <1>1, <1>3 DEF IInv, TypeOK, Kept
<1>5. task'[c].phase = phase
  BY <1>2 DEF GoOn, IInv, TypeOK, Tasks
<1>6. HolderFits'
  BY <1>1, <1>2, <1>3, <1>5 DEF HolderFits, Kept, Staged, Calculated
<1>7. RegistryFits'
  BY <1>1, KeptFits DEF IInv, RegistryFits
<1> QED
  BY <1>3, <1>4, <1>6, <1>7 DEF IInv, RegistryFits

(* Signing moves the proposal out of its replaceable state and its lock.   *)
LEMMA CalculateSucceedsInv ==
    ASSUME IInv, NEW c \in Callers, NEW fee \in Fees, CalculateSucceeds(c, fee)
    PROVE  IInv'
<1>1. /\ active' = [active EXCEPT !.signed = fee]
      /\ pending' = {[id |-> Id(active.generation), fee |-> fee]}
      /\ locks' = locks \ {Id(active.generation)}
      /\ UNCHANGED <<runtime, poisoned, nextGeneration, epoch, database, sent, verdicts>>
  BY DEF CalculateSucceeds, Persist, node
<1>2. Staged /\ active \in Proposals
  BY DEF CalculateSucceeds, At, IInv, TypeOK, HolderFits, Staged
<1>3. /\ active' \in Proposals
      /\ active'.signed = fee
      /\ active'.generation = active.generation
  BY <1>1, <1>2 DEF Proposals
<1>4. active' # None /\ Calculated' /\ ~Staged'
  BY <1>3 DEF Calculated, Staged
<1>5. Id(active.generation) \in Ids
  BY <1>2, IdTyped DEF IInv, Proposals
<1>6. LocksMatchProposal'
  BY <1>1, <1>2, <1>4 DEF IInv, LocksMatchProposal
<1>7. IdentifiersGiven'
  BY <1>1, <1>2, <1>3, <1>4 DEF IInv, IdentifiersGiven, Staged
<1>8. OnlyReviewedFeeSent' /\ AtMostOneVerdict'
  BY <1>1 DEF IInv, OnlyReviewedFeeSent, AtMostOneVerdict
<1>9. /\ task' \in [Callers -> Tasks]
      /\ mutex' \in Callers \cup {None}
      /\ WaitsForRequest' /\ HolderFits'
  <2>1. CASE GoOn(c, "broadcast")
    <3>1. task' \in [Callers -> Tasks] /\ mutex' = c /\ WaitsForRequest'
      BY <2>1, GoOnTyped, GoOnWaits DEF IInv, Phases
    <3>2. task'[c].phase = "broadcast"
      BY <2>1 DEF GoOn, IInv, TypeOK, Tasks
    <3> QED
      BY <1>4, <3>1, <3>2 DEF HolderFits
  <2>2. CASE Settle(c, Answer("error"))
    <3>1. Answer("error") \in Results
      BY AnswerTyped DEF Outcomes
    <3> QED
      BY <2>2, <3>1, SettleTyped, SettleFits DEF IInv
  <2> QED
    BY <2>1, <2>2 DEF CalculateSucceeds
<1>10. TypeOK'
  BY <1>1, <1>3, <1>5, <1>9 DEF IInv, TypeOK
<1> QED
  BY <1>6, <1>7, <1>8, <1>9, <1>10 DEF IInv

(* The staged proposal is given up, and its locks with it.                 *)
LEMMA GivenUpInv ==
    ASSUME IInv, NEW c \in Callers, NEW outcome \in Outcomes, Settle(c, Answer(outcome)),
           Staged, active' = None, locks' = locks \ {Id(active.generation)},
           UNCHANGED <<runtime, poisoned, nextGeneration, epoch, database, sent, verdicts>>,
           pending' \in SUBSET [id : Ids, fee : Fees]
    PROVE  IInv'
<1>1. RegistryFits' /\ locks' \in SUBSET Ids
  BY EmptiedFits
<1>2. Answer(outcome) \in Results
  BY AnswerTyped
<1>3. TypeOK'
  BY <1>1, <1>2, SettleTyped DEF IInv, TypeOK
<1>4. WaitsForRequest' /\ HolderFits'
  BY <1>2, SettleFits
<1> QED
  BY <1>1, <1>3, <1>4 DEF IInv, RegistryFits

(* The error paths of the calculation that give the proposal up.           *)
LEMMA GiveUpsInv ==
    ASSUME IInv, NEW c \in Callers,
           \/ \E fee \in Fees, outcome \in {"review", "error"} : CalculateNeedsReview(c, fee, outcome)
           \/ SigningFails(c)
           \/ \E outcome \in {"review", "error"} : AttestSucceeds(c, outcome)
    PROVE  IInv'
<1>1. CASE \E fee \in Fees, outcome \in {"review", "error"} : CalculateNeedsReview(c, fee, outcome)
  <2>1. PICK fee \in Fees, outcome \in {"review", "error"} : CalculateNeedsReview(c, fee, outcome)
    BY <1>1
  <2>2. Staged /\ active \in Proposals
    BY <2>1 DEF CalculateNeedsReview, At, IInv, TypeOK, HolderFits, Staged
  <2>3. Id(active.generation) \in Ids
    BY <2>2, IdTyped DEF IInv, Proposals
  <2>4. pending' \in SUBSET [id : Ids, fee : Fees]
    BY <2>1, <2>3 DEF CalculateNeedsReview, Persist
  <2> QED
    BY <2>1, <2>2, <2>4, GivenUpInv DEF CalculateNeedsReview, Persist, node, Outcomes
<1>2. CASE SigningFails(c)
  <2>1. Staged
    BY <1>2 DEF SigningFails, At, IInv, TypeOK, HolderFits
  <2> QED
    BY <1>2, <2>1, GivenUpInv DEF SigningFails, node, Outcomes, IInv, TypeOK
<1>3. CASE \E outcome \in {"review", "error"} : AttestSucceeds(c, outcome)
  BY <1>3, GivenUpInv DEF AttestSucceeds, node, Outcomes, IInv, TypeOK
<1> QED
  BY <1>1, <1>2, <1>3

(* An earlier signed transaction: the proposal stays staged meanwhile.     *)
LEMMA CalculateFindsPendingInv ==
    ASSUME IInv, NEW c \in Callers, CalculateFindsPending(c)
    PROVE  IInv'
<1>1. GoOn(c, "attest") /\ Kept /\ UNCHANGED <<runtime, poisoned, database, pending>>
  BY DEF CalculateFindsPending, Kept, disk, node
<1>2. task' \in [Callers -> Tasks] /\ mutex' = c /\ WaitsForRequest'
  BY <1>1, GoOnTyped, GoOnWaits DEF IInv, Phases
<1>3. TypeOK'
  BY <1>1, <1>2 DEF IInv, TypeOK, Kept
<1>4. Staged'
  BY <1>1 DEF CalculateFindsPending, At, IInv, TypeOK, HolderFits, Kept, Staged
<1>5. task'[c].phase = "attest"
  BY <1>1 DEF GoOn, IInv, TypeOK, Tasks
<1>6. HolderFits'
  BY <1>2, <1>4, <1>5 DEF HolderFits
<1>7. RegistryFits'
  BY <1>1, KeptFits DEF IInv, RegistryFits
<1> QED
  BY <1>2, <1>3, <1>6, <1>7 DEF IInv, RegistryFits

(* What is handed to the node has passed the check of its fee.             *)
LEMMA BroadcastInv ==
    ASSUME IInv, NEW c \in Callers, Broadcast(c)
    PROVE  IInv'
<1> DEFINE t == [id |-> Id(active.generation), fee |-> active.signed, reviewed |-> active.fee]
<1>1. Calculated /\ active \in Proposals /\ active.signed = active.fee
  BY DEF Broadcast, FeeReviewed, At, IInv, TypeOK, HolderFits, Calculated
<1>2. Id(active.generation) \in Ids /\ active.fee \in Fees
  BY <1>1, IdTyped DEF IInv, Proposals
<1>3. t \in [id : Ids, fee : Fees, reviewed : Fees] /\ t.fee = t.reviewed
      /\ t.id = Id(active.generation)
  BY <1>1, <1>2
<1>4. /\ sent' = sent \cup {t} /\ GoOn(c, "answer")
      /\ UNCHANGED <<runtime, poisoned, nextGeneration, active, epoch, database, locks, pending,
                     verdicts>>
  BY DEF Broadcast, disk
<1> HIDE DEF t
<1>5. task' \in [Callers -> Tasks] /\ mutex' = c /\ WaitsForRequest'
  BY <1>4, GoOnTyped, GoOnWaits DEF IInv, Phases
<1>6. TypeOK'
  BY <1>3, <1>4, <1>5 DEF IInv, TypeOK
<1>7. task'[c].phase = "answer"
  BY <1>4 DEF GoOn, IInv, TypeOK, Tasks
<1>8. HolderFits'
  BY <1>1, <1>3, <1>4, <1>5, <1>7 DEF HolderFits, Calculated, Id
<1>9. OnlyReviewedFeeSent'
  BY <1>3, <1>4 DEF IInv, OnlyReviewedFeeSent
<1>10. IdentifiersGiven' /\ LocksMatchProposal' /\ AtMostOneVerdict'
  BY <1>4 DEF IInv, IdentifiersGiven, LocksMatchProposal, AtMostOneVerdict, Staged, Id
<1> QED
  BY <1>5, <1>6, <1>8, <1>9, <1>10 DEF IInv

(* The node's answer; a verdict is the first on this identifier.           *)
LEMMA AnsweredInv ==
    ASSUME IInv, NEW c \in Callers, NEW answer \in Verdicts \cup {"doubtful"}, Answered(c, answer)
    PROVE  IInv'
<1> DEFINE result == [outcome |-> OutcomeOf(answer), gen |-> 0, fee |-> active.signed]
           verdict == [id |-> Id(active.generation), answer |-> answer]
<1>1. Calculated /\ active \in Proposals
  BY DEF Answered, At, IInv, TypeOK, HolderFits, Calculated
<1>2. Id(active.generation) \in Ids
  BY <1>1, IdTyped DEF IInv, Proposals
<1>3. result \in Results
  BY <1>1 DEF Results, Outcomes, OutcomeOf, Verdicts, Proposals, Calculated
<1>4. Settle(c, result) /\ UNCHANGED <<runtime, poisoned, nextGeneration, epoch, database, locks,
                                        pending, sent>>
  BY DEF Answered, disk
<1>5. task' \in [Callers -> Tasks] /\ mutex' = None /\ WaitsForRequest' /\ HolderFits'
  BY <1>3, <1>4, SettleTyped, SettleFits DEF IInv
<1>6. \/ answer \in Verdicts /\ active' = None /\ verdicts' = verdicts \cup {verdict}
      \/ active' = active /\ verdicts' = verdicts
  BY DEF Answered, Ends
<1>7. CASE active' = active /\ verdicts' = verdicts
  <2>1. Kept
    BY <1>4, <1>7 DEF Kept
  <2>2. TypeOK'
    BY <1>4, <1>5, <1>7 DEF IInv, TypeOK
  <2> QED
    BY <1>5, <2>1, <2>2, KeptFits DEF IInv, RegistryFits
<1>8. CASE answer \in Verdicts /\ active' = None /\ verdicts' = verdicts \cup {verdict}
  <2>1. verdict \in [id : Ids, answer : Verdicts] /\ verdict.id = <<epoch, active.generation>>
    BY <1>2, <1>8 DEF Id
  <2> HIDE DEF verdict
  <2>2. TypeOK'
    BY <1>4, <1>5, <1>8, <2>1 DEF IInv, TypeOK
  <2>3. active.generation \in Int /\ active.generation <= nextGeneration /\ epoch \in Int
    BY <1>1 DEF IInv, IdentifiersGiven, Proposals, Calculated, TypeOK
  <2>4. \A v \in verdicts : v.id # verdict.id
    BY <1>1, <2>1 DEF IInv, IdentifiersGiven, Calculated
  <2>5. AtMostOneVerdict'
    BY <1>8, <2>4 DEF IInv, AtMostOneVerdict
  <2>6. verdict.id[1] = epoch /\ verdict.id[2] = active.generation
    BY <2>1
  <2>7. IdentifiersGiven'
    BY <1>4, <1>8, <2>3, <2>6 DEF IInv, IdentifiersGiven
  <2>8. ~Staged
    BY <1>1 DEF Calculated, Staged
  <2>9. LocksMatchProposal' /\ OnlyReviewedFeeSent'
    BY <1>4, <1>8, <2>8 DEF IInv, LocksMatchProposal, OnlyReviewedFeeSent, Staged
  <2> QED
    BY <1>5, <2>2, <2>5, <2>7, <2>9 DEF IInv
<1> QED
  BY <1>6, <1>7, <1>8

-----------------------------------------------------------------------------
(* The theorems.                                                           *)

(* Every step of every task.                                               *)
LEMMA StepInv ==
    ASSUME IInv, NEW c \in Callers, Step(c)
    PROVE  IInv'
BY RefusalsInv, ProposeBeginInv, ProposeWithdrawsInv, StageInv, ConfirmBeginInv,
   CalculateSucceedsInv, GiveUpsInv, CalculateFindsPendingInv, BroadcastInv, AnsweredInv,
   CancelSucceedsInv, DeleteBeginInv, DeleteClosesInv, DeleteSucceedsInv, OpenInv
   DEF Step

(* A stuttering step.                                                      *)
LEMMA StutterInv == IInv /\ UNCHANGED vars => IInv'
<1> SUFFICES ASSUME IInv, UNCHANGED vars PROVE IInv'
  OBVIOUS
<1>1. TypeOK'
  BY DEF IInv, TypeOK, vars
<1>2. WaitsForRequest' /\ HolderFits'
  BY DEF IInv, vars, WaitsForRequest, HolderFits, Staged, Calculated, Id
<1>3. RegistryFits'
  BY KeptFits DEF IInv, vars, Kept, RegistryFits
<1> QED
  BY <1>1, <1>2, <1>3 DEF IInv, RegistryFits

(* The invariant is inductive.                                             *)
LEMMA NextInv == IInv /\ [Next]_vars => IInv'
<1> SUFFICES ASSUME IInv, [Next]_vars PROVE IInv'
  OBVIOUS
<1>1. ASSUME NEW c \in Callers, NEW req \in Requests, Call(c, req) PROVE IInv'
  BY <1>1, CallInv
<1>2. ASSUME NEW c \in Callers, Collect(c) PROVE IInv'
  BY <1>2, CollectInv
<1>3. ASSUME NEW c \in Callers, Step(c) PROVE IInv'
  BY <1>3, StepInv
<1>4. CASE Environment
  BY <1>4, ResolveInv, RestartInv DEF Environment
<1>5. CASE UNCHANGED vars
  BY <1>5, StutterInv
<1> QED
  BY <1>1, <1>2, <1>3, <1>4, <1>5 DEF Next

(* IInv is inductive, and so holds in every state of every behaviour.      *)
THEOREM Inductive == Spec => []IInv
BY InitInv, NextInv, PTL DEF Spec

(* Every variable of the registry keeps its type.                          *)
THEOREM TypeCorrect == Spec => []TypeOK
<1>1. IInv => TypeOK
  BY DEF IInv
<1> QED
  BY <1>1, Inductive, PTL

(* No path through the registry's functions leaks or loses an input lock.  *)
THEOREM LocksCorrect == Spec => []LocksMatchProposal
<1>1. IInv => LocksMatchProposal
  BY DEF IInv
<1> QED
  BY <1>1, Inductive, PTL

(* No transaction is handed to the node at a fee that was not reviewed.    *)
THEOREM ReviewedFee == Spec => []OnlyReviewedFeeSent
<1>1. IInv => OnlyReviewedFeeSent
  BY DEF IInv
<1> QED
  BY <1>1, Inductive, PTL

(* No identifier is decided on twice, across retries and restarts.         *)
THEOREM OneVerdict == Spec => []AtMostOneVerdict
<1>1. IInv => AtMostOneVerdict
  BY DEF IInv
<1> QED
  BY <1>1, Inductive, PTL

-----------------------------------------------------------------------------
(* A calculated transaction stays until the node decides or the process    *)
(* stops: no task of any caller replaces it, edits it or forgets it.       *)

(* No step of a task drops a calculated transaction without a verdict.     *)
LEMMA StepKeepsCalculated ==
    ASSUME IInv, NEW c \in Callers, Step(c), Calculated
    PROVE  active' = active \/ \E v \in verdicts' : v.id = Id(active.generation)
<1>1. ~Staged /\ active # None
  BY DEF Calculated, Staged
<1>2. ASSUME NEW phase \in {"stage", "calculate", "attest"}, At(c, phase) PROVE FALSE
  BY <1>1, <1>2 DEF IInv, TypeOK, HolderFits, At
<1>3. ASSUME NEW expected, Replaced(expected) PROVE FALSE
  BY <1>1, <1>3 DEF Replaced
<1>4. ASSUME NEW answer, Answered(c, answer)
      PROVE  active' = active \/ \E v \in verdicts' : v.id = Id(active.generation)
  <2>1. CASE answer \notin Verdicts
    BY <1>4, <2>1 DEF Answered, Ends
  <2>2. CASE answer \in Verdicts
    <3> DEFINE verdict == [id |-> Id(active.generation), answer |-> answer]
    <3>1. verdict \in verdicts'
      BY <1>4, <2>2 DEF Answered
    <3>2. verdict.id = Id(active.generation)
      OBVIOUS
    <3> QED
      BY <3>1, <3>2
  <2> QED
    BY <2>1, <2>2
<1>5. CASE \/ ProposeRefused(c) \/ ProposeFails(c) \/ ConfirmRefused(c) \/ ConfirmBegin(c)
            \/ CalculateFails(c) \/ AttestFails(c) \/ BroadcastRefused(c) \/ Broadcast(c)
            \/ CancelFails(c) \/ DeleteRefused(c) \/ DeleteCloses(c) \/ DeleteFails(c)
            \/ DeleteSucceeds(c) \/ OpenBegin(c) \/ CreateBegin(c) \/ OpenFails(c)
            \/ StoreRuntime(c) \/ Panics(c) \/ CalculateFindsPending(c)
  BY <1>5 DEF ProposeRefused, ProposeFails, ConfirmRefused, ConfirmBegin, CalculateFails,
     AttestFails, BroadcastRefused, Broadcast, CancelFails, DeleteRefused, DeleteCloses,
     DeleteFails, DeleteSucceeds, OpenBegin, CreateBegin, OpenFails, StoreRuntime, Panics,
     CalculateFindsPending, NotReplaced
<1>6. CASE ProposeBegin(c) \/ ProposeWithdraws(c) \/ CancelSucceeds(c) \/ DeleteBegin(c)
  BY <1>3, <1>6 DEF ProposeBegin, ProposeWithdraws, CancelSucceeds, DeleteBegin, NotReplaced
<1>7. ASSUME NEW fee \in Fees,
             ProposeSucceeds(c, fee) \/ ProposeOmitsValue(c, fee) \/ CalculateSucceeds(c, fee)
      PROVE  FALSE
  BY <1>2, <1>7 DEF ProposeSucceeds, ProposeOmitsValue, StageProposal, CalculateSucceeds
<1>8. ASSUME NEW outcome,
             \/ SigningFails(c) \/ AttestSucceeds(c, outcome)
             \/ \E fee \in Fees : CalculateNeedsReview(c, fee, outcome)
      PROVE  FALSE
  BY <1>2, <1>8 DEF SigningFails, AttestSucceeds, CalculateNeedsReview
<1> QED
  BY <1>4, <1>5, <1>6, <1>7, <1>8 DEF Step

(* And no step at all does within one process.                             *)
LEMMA NextKeepsCalculated ==
    IInv /\ [Next]_vars =>
        [Calculated /\ epoch' = epoch =>
            active' = active \/ \E v \in verdicts' : v.id = Id(active.generation)]_vars
<1> SUFFICES ASSUME IInv, Next, Calculated, epoch' = epoch
             PROVE  active' = active \/ \E v \in verdicts' : v.id = Id(active.generation)
  OBVIOUS
<1>1. ASSUME NEW c \in Callers, Step(c)
      PROVE  active' = active \/ \E v \in verdicts' : v.id = Id(active.generation)
  BY <1>1, StepKeepsCalculated
<1>2. ASSUME NEW c \in Callers, Collect(c) \/ \E req \in Requests : Call(c, req)
      PROVE  active' = active
  BY <1>2 DEF Collect, Call
<1>3. ~Restart
  BY DEF Restart, IInv, TypeOK
<1>4. ASSUME NEW p \in pending, Resolve(p) PROVE active' = active
  BY <1>4 DEF Resolve, memory
<1> QED
  BY <1>1, <1>2, <1>3, <1>4 DEF Next, Environment

(* The action property the runs check, for every value of the constants.   *)
THEOREM CalculatedKept == Spec => CalculatedAwaitsVerdict
BY Inductive, NextKeepsCalculated, PTL DEF Spec, CalculatedAwaitsVerdict

-----------------------------------------------------------------------------
(* The registry implements ProposalLifecycle.                              *)

Slot ==
    IF active = None THEN None
    ELSE [id |-> Id(active.generation), kind |-> active.kind, fee |-> active.fee,
          signed |-> active.signed # None]

(* The fields of the lifecycle's slot, read off the active proposal.       *)
LEMMA SlotOfActive ==
    ASSUME IInv, active # None
    PROVE  /\ Slot # None
           /\ Slot.id = Id(active.generation)
           /\ Slot.kind = active.kind
           /\ Slot.fee = active.fee
           /\ Slot.signed = (active.signed # None)
<1>1. active \in Proposals
  BY DEF IInv, TypeOK
<1>2. Id(active.generation) \in Ids
  BY <1>1, IdTyped DEF IInv, Proposals
<1>3. Slot \in [id : Ids, kind : Kinds, fee : Fees, signed : BOOLEAN]
  BY <1>1, <1>2 DEF Slot, Proposals
<1> QED
  BY <1>3 DEF Slot

(* What leaves these alone is a stuttering step of the lifecycle.          *)
LEMMA StutterMaps ==
    UNCHANGED <<active, nextGeneration, epoch, sent, verdicts>> => UNCHANGED Lifecycle!vars
BY DEF Lifecycle!vars, Id

(* Giving a staged proposal up is the lifecycle's Release.                 *)
LEMMA ReleaseMaps ==
    ASSUME IInv, Staged, active' = None, UNCHANGED <<nextGeneration, epoch, sent, verdicts>>
    PROVE  Lifecycle!Release
BY SlotOfActive DEF Lifecycle!Release, Slot, Staged, Id

(* So is replacing it; replacing nothing is a stutter.                     *)
LEMMA ReplacedMaps ==
    ASSUME IInv, NEW expected, Replaced(expected),
           UNCHANGED <<nextGeneration, epoch, sent, verdicts>>
    PROVE  [Lifecycle!Next]_(Lifecycle!vars)
BY ReleaseMaps, StutterMaps DEF Replaced, Lifecycle!Next

(* Staging a proposal is the lifecycle's Stage.                            *)
LEMMA StageMaps ==
    ASSUME IInv, NEW c \in Callers, NEW fee \in Fees, StageProposal(c, fee)
    PROVE  Lifecycle!Next
<1> DEFINE kind == task[c].request.kind
<1>1. active = None /\ nextGeneration < MaxGeneration /\ kind \in Kinds
  BY DEF StageProposal, At, IInv, TypeOK, HolderFits
<1>2. /\ nextGeneration' = nextGeneration + 1
      /\ active' = [generation |-> nextGeneration + 1, kind |-> kind, fee |-> fee, signed |-> None]
      /\ UNCHANGED <<epoch, sent, verdicts>>
  BY DEF StageProposal, node
<1>3. active' # None
  BY StageFits
<1> HIDE DEF kind
<1>4. Lifecycle!Stage(kind, fee)
  BY <1>1, <1>2, <1>3 DEF Lifecycle!Stage, Id
<1> QED
  BY <1>1, <1>4 DEF Lifecycle!Next, Lifecycle!Kinds, Kinds

(* Signing changes one field of a slot.                                    *)
LEMMA SignedSlot ==
    ASSUME NEW slot \in [id : Ids, kind : Kinds, fee : Fees, signed : BOOLEAN]
    PROVE  [slot EXCEPT !.signed = TRUE] =
            [id |-> slot.id, kind |-> slot.kind, fee |-> slot.fee, signed |-> TRUE]
<1> DEFINE signed == [slot EXCEPT !.signed = TRUE]
<1>1. signed \in [id : Ids, kind : Kinds, fee : Fees, signed : BOOLEAN]
  OBVIOUS
<1>2. signed.id = slot.id /\ signed.kind = slot.kind /\ signed.fee = slot.fee
  OBVIOUS
<1>3. signed.signed = TRUE
  OBVIOUS
<1> HIDE DEF signed
<1>4. signed = [id |-> signed.id, kind |-> signed.kind, fee |-> signed.fee, signed |-> signed.signed]
  BY <1>1
<1> QED
  BY <1>2, <1>3, <1>4 DEF signed

(* A calculation that succeeds is the lifecycle's Sign.                    *)
LEMMA SignMaps ==
    ASSUME IInv, NEW c \in Callers, NEW fee \in Fees, CalculateSucceeds(c, fee)
    PROVE  Lifecycle!Next
<1>1. /\ active' = [active EXCEPT !.signed = fee]
      /\ UNCHANGED <<nextGeneration, epoch, sent, verdicts>>
  BY DEF CalculateSucceeds, node
<1>2. Staged /\ active \in Proposals
  BY DEF CalculateSucceeds, At, IInv, TypeOK, HolderFits, Staged
<1>3. active' \in Proposals /\ active' # None /\ active'.signed # None
  BY <1>1, <1>2 DEF Proposals
<1>4. Slot' = [Slot EXCEPT !.signed = TRUE]
  <2>1. /\ active'.generation = active.generation
        /\ active'.kind = active.kind
        /\ active'.fee = active.fee
    BY <1>1, <1>2 DEF Proposals
  <2>2. Id(active.generation)' = Id(active.generation)
    BY <1>1, <2>1 DEF Id
  <2> DEFINE slot(signed) == [id |-> Id(active.generation), kind |-> active.kind,
                              fee |-> active.fee, signed |-> signed]
  <2>3. Slot' = slot(active'.signed # None)
    BY <1>3, <2>1, <2>2 DEF Slot
  <2>4. Slot' = slot(TRUE)
    BY <1>3, <2>3
  <2>5. Slot = slot(active.signed # None)
    BY <1>2 DEF Slot, Staged
  <2>6. Slot = slot(FALSE)
    BY <1>2, <2>5 DEF Staged
  <2>7. slot(FALSE) \in [id : Ids, kind : Kinds, fee : Fees, signed : BOOLEAN]
    BY <1>2, IdTyped DEF IInv, Proposals
  <2> QED
    BY <2>4, <2>6, <2>7, SignedSlot
<1>5. Slot # None /\ ~Slot.signed
  BY <1>2, SlotOfActive DEF Staged
<1>6. Lifecycle!Sign
  BY <1>1, <1>4, <1>5 DEF Lifecycle!Sign, Slot, Id
<1> QED
  BY <1>6 DEF Lifecycle!Next

(* Handing the transaction to the node is the lifecycle's Send.            *)
LEMMA SendMaps ==
    ASSUME IInv, NEW c \in Callers, Broadcast(c)
    PROVE  Lifecycle!Next
<1>1. Calculated /\ active.signed = active.fee
  BY DEF Broadcast, FeeReviewed, At, IInv, TypeOK, HolderFits
<1>2. /\ sent' = sent \cup {[id |-> Id(active.generation), fee |-> active.fee,
                               reviewed |-> active.fee]}
      /\ UNCHANGED <<nextGeneration, active, epoch, verdicts>>
  BY <1>1 DEF Broadcast
<1>3. /\ Slot # None /\ Slot.signed
      /\ Slot.id = Id(active.generation) /\ Slot.fee = active.fee
  BY <1>1, SlotOfActive DEF Calculated
<1>4. Lifecycle!Send
  BY <1>2, <1>3 DEF Lifecycle!Send, Slot, Id
<1> QED
  BY <1>4 DEF Lifecycle!Next

(* A verdict is the lifecycle's Decide; a doubtful answer is a stutter.    *)
LEMMA AnswerMaps ==
    ASSUME IInv, NEW c \in Callers, NEW answer \in Verdicts \cup {"doubtful"}, Answered(c, answer)
    PROVE  [Lifecycle!Next]_(Lifecycle!vars)
<1>1. CASE answer \notin Verdicts
  BY <1>1, StutterMaps DEF Answered, Ends
<1>2. CASE answer \in Verdicts
  <2>1. /\ active' = None
        /\ verdicts' = verdicts \cup {[id |-> Id(active.generation), answer |-> answer]}
        /\ UNCHANGED <<nextGeneration, epoch, sent>>
    BY <1>2 DEF Answered, Ends
  <2>2. Calculated /\ \E t \in sent : t.id = Id(active.generation)
    BY DEF Answered, At, IInv, TypeOK, HolderFits
  <2>3. Slot # None /\ Slot.id = Id(active.generation)
    BY <2>2, SlotOfActive DEF Calculated
  <2>4. Lifecycle!Decide(answer)
    BY <2>1, <2>2, <2>3 DEF Lifecycle!Decide, Slot, Id
  <2> QED
    BY <1>2, <2>4 DEF Lifecycle!Next, Verdicts
<1> QED
  BY <1>1, <1>2

(* A restart of the process is the lifecycle's Restart.                    *)
LEMMA RestartMaps ==
    ASSUME IInv, Restart
    PROVE  Lifecycle!Next
<1>1. Lifecycle!Restart
  BY DEF Lifecycle!Restart, Restart, node, Id
<1> QED
  BY <1>1 DEF Lifecycle!Next

(* Every step of a task is a step of the lifecycle or a stutter.           *)
LEMMA StepMaps ==
    ASSUME IInv, NEW c \in Callers, Step(c)
    PROVE  [Lifecycle!Next]_(Lifecycle!vars)
<1>1. CASE \/ ProposeRefused(c) \/ ProposeFails(c) \/ ConfirmRefused(c) \/ ConfirmBegin(c)
            \/ CalculateFails(c) \/ AttestFails(c) \/ BroadcastRefused(c) \/ CancelFails(c)
            \/ DeleteRefused(c) \/ DeleteCloses(c) \/ DeleteFails(c) \/ DeleteSucceeds(c)
            \/ OpenBegin(c) \/ CreateBegin(c) \/ OpenFails(c) \/ StoreRuntime(c) \/ Panics(c)
            \/ CalculateFindsPending(c)
  BY <1>1, StutterMaps DEF ProposeRefused, ProposeFails, ConfirmRefused, ConfirmBegin,
     CalculateFails, AttestFails, BroadcastRefused, CancelFails, DeleteRefused, DeleteCloses,
     DeleteFails, DeleteSucceeds, OpenBegin, CreateBegin, OpenFails, StoreRuntime, Panics,
     CalculateFindsPending, NotReplaced, node
<1>2. CASE ProposeBegin(c) \/ ProposeWithdraws(c) \/ CancelSucceeds(c) \/ DeleteBegin(c)
  BY <1>2, ReplacedMaps, StutterMaps DEF ProposeBegin, ProposeWithdraws, CancelSucceeds,
     DeleteBegin, NotReplaced, node
<1>3. ASSUME NEW fee \in Fees, ProposeSucceeds(c, fee) \/ ProposeOmitsValue(c, fee)
      PROVE  Lifecycle!Next
  BY <1>3, StageMaps DEF ProposeSucceeds, ProposeOmitsValue
<1>4. ASSUME NEW outcome,
             \/ SigningFails(c) \/ AttestSucceeds(c, outcome)
             \/ \E fee \in Fees : CalculateNeedsReview(c, fee, outcome)
      PROVE  Lifecycle!Next
  <2>1. Staged
    BY <1>4 DEF SigningFails, AttestSucceeds, CalculateNeedsReview, At, IInv, TypeOK, HolderFits
  <2>2. Lifecycle!Release
    BY <1>4, <2>1, ReleaseMaps DEF SigningFails, AttestSucceeds, CalculateNeedsReview, node
  <2> QED
    BY <2>2 DEF Lifecycle!Next
<1> QED
  BY <1>1, <1>2, <1>3, <1>4, SignMaps, SendMaps, AnswerMaps DEF Step

(* And so is every step.                                                   *)
LEMMA NextMaps == IInv /\ [Next]_vars => [Lifecycle!Next]_(Lifecycle!vars)
<1> SUFFICES ASSUME IInv, [Next]_vars PROVE [Lifecycle!Next]_(Lifecycle!vars)
  OBVIOUS
<1>1. ASSUME NEW c \in Callers, Collect(c) \/ \E req \in Requests : Call(c, req)
      PROVE  UNCHANGED Lifecycle!vars
  BY <1>1, StutterMaps DEF Collect, Call, node
<1>2. ASSUME NEW c \in Callers, Step(c) PROVE [Lifecycle!Next]_(Lifecycle!vars)
  BY <1>2, StepMaps
<1>3. ASSUME NEW p \in pending, Resolve(p) PROVE UNCHANGED Lifecycle!vars
  BY <1>3, StutterMaps DEF Resolve, memory, node
<1>4. CASE UNCHANGED vars
  BY <1>4, StutterMaps DEF vars
<1> QED
  BY <1>1, <1>2, <1>3, <1>4, RestartMaps DEF Next, Environment

(* The initial states map to the lifecycle's.                              *)
LEMMA InitMaps == Init => Lifecycle!Init
BY DEF Init, Lifecycle!Init, Id

(* Every behaviour of the registry is one of its lifecycle.                *)
THEOREM Refinement == Spec => ImplementsLifecycle
BY InitMaps, NextMaps, Inductive, PTL DEF Spec, ImplementsLifecycle, Lifecycle!Spec
===============================================================================
