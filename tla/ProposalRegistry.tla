--------------------------- MODULE ProposalRegistry ---------------------------
(***************************************************************************)
(* The native transaction-proposal registry of native/src/wcash.rs: the    *)
(* statics WCASH_RUNTIME and TRANSACTION_PROPOSALS, the exported functions *)
(* that use them, and the wallet database they reach through the external  *)
(* wallet core (zingolib::wcash).                                          *)
(*                                                                         *)
(* An exported function runs as a Neon worker task (json_promise) on behalf *)
(* of a caller. A task that touches the registry holds the registry's      *)
(* mutex from its first access to its end, so tasks of different callers   *)
(* interleave only while they wait for it. The process may stop between    *)
(* any two steps of a task: what is in memory is gone, the database stays. *)
(***************************************************************************)
EXTENDS Integers

CONSTANTS
    Callers,        \* who awaits a native promise (one task at a time each)
    Fees,           \* the fees, in zatoshis, a proposal can be given
    None,           \* Rust's None, and "no value yet"
    MaxGeneration,  \* u64::MAX: checked_add(1) fails there
    MaxEpoch        \* bound: process starts that are explored

Kinds == {"send", "shield_coinbase"}

(* A proposal is known outside the process that staged it by the process   *)
(* start (epoch) and its generation: next_generation starts again at 0.    *)
Ids == (1 .. MaxEpoch) \X (1 .. MaxGeneration)

(* ActiveTransactionProposal. signed = None is TransactionProposalState::  *)
(* Staged; otherwise Calculated, and signed is the signed bytes' own fee.  *)
Proposals ==
    [generation : 1 .. MaxGeneration, kind : Kinds, fee : Fees, signed : Fees \cup {None}]

(* What an exported function was asked. gen = 0 is an absent identifier.   *)
Requests ==
    [op : {"propose"}, gen : {0}, kind : Kinds]
    \cup [op : {"confirm"}, gen : 1 .. MaxGeneration, kind : Kinds]
    \cup [op : {"cancel"}, gen : 0 .. MaxGeneration, kind : {None}]
    \cup [op : {"delete", "open", "create"}, gen : {0}, kind : {None}]

Outcomes ==
    {"error",                              \* the promise rejects
     "preview",                            \* a staged proposal's preview
     "broadcast", "rejected", "recovery",  \* a confirmation, with its fee
     "review",                             \* recovery_required, fee null
     "cancelled", "not_cancelled",         \* { cancelled: true | false }
     "done"}                               \* delete, open, create

Results == [outcome : Outcomes, gen : 0 .. MaxGeneration, fee : Fees \cup {None}]

Phases ==
    {"idle", "waiting", "stage", "omitted", "calculate", "attest", "broadcast",
     "answer", "close", "unlink", "store", "settled"}

(* Phases in which the task holds TRANSACTION_PROPOSALS.                   *)
Locked ==
    {"stage", "omitted", "calculate", "attest", "broadcast", "answer", "close",
     "unlink"}

(* What the node can decide about a transaction.                           *)
Verdicts == {"broadcast", "rejected"}

ASSUME ConstantsAssumption ==
    /\ MaxGeneration \in Nat \ {0}
    /\ MaxEpoch \in Nat \ {0}
    /\ None \notin Fees
    /\ None \notin Kinds
    /\ None \notin Callers
    /\ None \notin Proposals
    /\ None \notin [id : Ids, kind : Kinds, fee : Fees, signed : BOOLEAN]
    /\ None \notin Requests
    /\ None \notin Results

VARIABLES
    runtime,         \* WCASH_RUNTIME holds an open runtime
    poisoned,        \* a panicking task has left TRANSACTION_PROPOSALS poisoned
    nextGeneration,  \* TransactionProposalRegistry.next_generation
    active,          \* TransactionProposalRegistry.active
    mutex,           \* the caller whose task holds TRANSACTION_PROPOSALS
    task,            \* each caller's native call: request, phase, result
    epoch,           \* which start of the process this is
    database,        \* the primary database file exists
    locks,           \* input locks of staged proposals, in the database
    pending,         \* signed transactions in the database that are unresolved
    sent,            \* transactions handed to the node
    verdicts         \* the node's verdicts on them

memory == <<runtime, poisoned, nextGeneration, active, mutex, task>>
disk == <<database, locks, pending>>
node == <<sent, verdicts>>
vars == <<runtime, poisoned, nextGeneration, active, mutex, task, epoch,
          database, locks, pending, sent, verdicts>>

Tasks ==
    [request : Requests \cup {None}, phase : Phases, result : Results \cup {None}]

TypeOK ==
    /\ runtime \in BOOLEAN
    /\ poisoned \in BOOLEAN
    /\ nextGeneration \in 0 .. MaxGeneration
    /\ active \in Proposals \cup {None}
    /\ mutex \in Callers \cup {None}
    /\ task \in [Callers -> Tasks]
    /\ epoch \in 1 .. MaxEpoch
    /\ database \in BOOLEAN
    /\ locks \in SUBSET Ids
    /\ pending \in SUBSET [id : Ids, fee : Fees]
    /\ sent \in SUBSET [id : Ids, fee : Fees, reviewed : Fees]
    /\ verdicts \in SUBSET [id : Ids, answer : Verdicts]

NoTask == [request |-> None, phase |-> "idle", result |-> None]

Init ==
    /\ runtime = FALSE
    /\ poisoned = FALSE
    /\ nextGeneration = 0
    /\ active = None
    /\ mutex = None
    /\ task = [c \in Callers |-> NoTask]
    /\ epoch = 1
    /\ database = FALSE
    /\ locks = {}
    /\ pending = {}
    /\ sent = {}
    /\ verdicts = {}

-----------------------------------------------------------------------------
(* Tasks: the promise a caller awaits.                                     *)

(* A caller calls again only after its last promise settled.               *)
Call(c, req) ==
    /\ task[c].phase \in {"idle", "settled"}
    /\ task' = [task EXCEPT ![c] = [request |-> req, phase |-> "waiting", result |-> None]]
    /\ UNCHANGED <<runtime, poisoned, nextGeneration, active, mutex, epoch, disk, node>>

(* The caller reads the settled promise.                                   *)
Collect(c) ==
    /\ task[c].phase = "settled"
    /\ task' = [task EXCEPT ![c] = NoTask]
    /\ UNCHANGED <<runtime, poisoned, nextGeneration, active, mutex, epoch, disk, node>>

Answer(outcome) == [outcome |-> outcome, gen |-> 0, fee |-> None]

(* The task ends: its guard drops and the promise settles.                 *)
Settle(c, result) ==
    /\ mutex' = None
    /\ task' = [task EXCEPT ![c].phase = "settled", ![c].result = result]

(* The task keeps (or takes) the mutex and goes on.                        *)
GoOn(c, phase) ==
    /\ mutex' = c
    /\ task' = [task EXCEPT ![c].phase = phase]

Waits(c, op) ==
    /\ task[c].phase = "waiting"
    /\ task[c].request.op = op

(* The task's turn on the mutex; lock() on a poisoned one is an error.     *)
Starts(c, op) ==
    /\ Waits(c, op)
    /\ mutex = None

At(c, phase) ==
    /\ task[c].phase = phase
    /\ mutex = c

(* open, create and restore never take the mutex: they settle beside it.   *)
SettleBeside(c, outcome) ==
    /\ task' = [task EXCEPT ![c].phase = "settled", ![c].result = Answer(outcome)]
    /\ UNCHANGED mutex

-----------------------------------------------------------------------------
(* cancel_replaceable_proposal                                             *)

Id(generation) == <<epoch, generation>>

Staged == active # None /\ active.signed = None

(* Mutant: any proposal can be replaced, a calculated one too.             *)
ReplacedCalculated(expected) ==
    \/ /\ active = None
       /\ UNCHANGED <<active, locks>>
    \/ /\ active # None
       /\ expected \in {0, active.generation}
       /\ active' = None
       /\ locks' = locks \ {Id(active.generation)}

(* The registry is left empty: there was no proposal, or a staged one of   *)
(* the expected generation whose locks the wallet core released.           *)
Replaced(expected) ==
    \/ /\ active = None
       /\ UNCHANGED <<active, locks>>
    \/ /\ Staged
       /\ expected \in {0, active.generation}
       /\ active' = None
       /\ locks' = locks \ {Id(active.generation)}

(* It is left as it was: another generation, a calculated transaction, the *)
(* wallet core could not release the locks, or no lock() at all.           *)
NotReplaced ==
    /\ active # None \/ poisoned
    /\ UNCHANGED <<active, locks>>

-----------------------------------------------------------------------------
(* propose_send, propose_shield_coinbase                                   *)

ProposeRefused(c) ==
    /\ Starts(c, "propose")
    /\ poisoned \/ nextGeneration = MaxGeneration \/ active # None
    /\ Settle(c, Answer("error"))
    /\ UNCHANGED <<runtime, poisoned, nextGeneration, active, epoch, disk, node>>

(* Mutant: the generation counter is not checked for its limit.            *)
ProposeBeginUnchecked(c) ==
    /\ Starts(c, "propose")
    /\ ~poisoned
    /\ Replaced(0)
    /\ GoOn(c, "stage")
    /\ UNCHANGED <<runtime, poisoned, nextGeneration, epoch, database, pending, node>>

ProposeBegin(c) ==
    /\ Starts(c, "propose")
    /\ ~poisoned
    /\ nextGeneration < MaxGeneration
    /\ Replaced(0)
    /\ GoOn(c, "stage")
    /\ UNCHANGED <<runtime, poisoned, nextGeneration, epoch, database, pending, node>>

(* No open runtime, or the wallet core cannot build the proposal.          *)
ProposeFails(c) ==
    /\ At(c, "stage")
    /\ Settle(c, Answer("error"))
    /\ UNCHANGED <<runtime, poisoned, nextGeneration, active, epoch, disk, node>>

(* Mutant: the generation is given out and not counted.                    *)
StageProposalUncounted(c, fee) ==
    /\ At(c, "stage")
    /\ runtime
    /\ database
    /\ active' = [generation |-> nextGeneration + 1, kind |-> task[c].request.kind,
                  fee |-> fee, signed |-> None]
    /\ locks' = locks \cup {Id(nextGeneration + 1)}
    /\ UNCHANGED <<runtime, poisoned, nextGeneration, epoch, database, pending, node>>

StageProposal(c, fee) ==
    /\ At(c, "stage")
    /\ runtime
    /\ database
    /\ nextGeneration' = nextGeneration + 1
    /\ active' = [generation |-> nextGeneration + 1, kind |-> task[c].request.kind,
                  fee |-> fee, signed |-> None]
    /\ locks' = locks \cup {Id(nextGeneration + 1)}
    /\ UNCHANGED <<runtime, poisoned, epoch, database, pending, node>>

ProposeSucceeds(c, fee) ==
    /\ StageProposal(c, fee)
    /\ Settle(c, [outcome |-> "preview", gen |-> nextGeneration + 1, fee |-> fee])

(* A shielding proposal without its exact value is withdrawn again.        *)
ProposeOmitsValue(c, fee) ==
    /\ StageProposal(c, fee)
    /\ task[c].request.kind = "shield_coinbase"
    /\ GoOn(c, "omitted")

ProposeWithdraws(c) ==
    /\ At(c, "omitted")
    /\ Replaced(nextGeneration) \/ NotReplaced
    /\ Settle(c, Answer("error"))
    /\ UNCHANGED <<runtime, poisoned, nextGeneration, epoch, database, pending, node>>

-----------------------------------------------------------------------------
(* confirm_proposal                                                        *)

Reviewed(c) ==
    /\ active # None
    /\ active.generation = task[c].request.gen
    /\ active.kind = task[c].request.kind

(* The phrase is wrong or not this wallet's, there is no such proposal, no *)
(* open runtime, or the wallet is not at the exact chain tip.              *)
ConfirmRefused(c) ==
    /\ Starts(c, "confirm")
    /\ Settle(c, Answer("error"))
    /\ UNCHANGED <<runtime, poisoned, nextGeneration, active, epoch, disk, node>>

ConfirmBegin(c) ==
    /\ Starts(c, "confirm")
    /\ ~poisoned
    /\ Reviewed(c)
    /\ runtime
    /\ GoOn(c, IF Staged THEN "calculate" ELSE "broadcast")
    /\ UNCHANGED <<runtime, poisoned, nextGeneration, active, epoch, disk, node>>

(* The wallet core persists the signed bytes: their inputs are no longer   *)
(* locked for a proposal but spent by a pending transaction. It does so    *)
(* only if no signed transaction is unresolved.                            *)
Persist(fee) ==
    /\ database
    /\ pending = {}
    /\ pending' = {[id |-> Id(active.generation), fee |-> fee]}
    /\ locks' = locks \ {Id(active.generation)}

CalculateSucceeds(c, fee) ==
    /\ At(c, "calculate")
    /\ Persist(fee)
    /\ active' = [active EXCEPT !.signed = fee]
    /\ IF fee = active.fee THEN GoOn(c, "broadcast") ELSE Settle(c, Answer("error"))
    /\ UNCHANGED <<runtime, poisoned, nextGeneration, epoch, database, node>>

(* PersistedTransactionsRequireReview: signed, but the core could not      *)
(* return what it signed. The list of transactions may be unusable too.    *)
CalculateNeedsReview(c, fee, outcome) ==
    /\ At(c, "calculate")
    /\ Persist(fee)
    /\ active' = None
    /\ outcome \in {"review", "error"}
    /\ Settle(c, Answer(outcome))
    /\ UNCHANGED <<runtime, poisoned, nextGeneration, epoch, database, node>>

(* ActivePendingTransaction: an earlier signed transaction is unresolved.  *)
CalculateFindsPending(c) ==
    /\ At(c, "calculate")
    /\ pending # {}
    /\ GoOn(c, "attest")
    /\ UNCHANGED <<runtime, poisoned, nextGeneration, active, epoch, disk, node>>

(* Mutant: the proposal stays staged after the core released its locks.    *)
SigningFailsStaged(c) ==
    /\ At(c, "calculate")
    /\ locks' = locks \ {Id(active.generation)}
    /\ Settle(c, Answer("error"))
    /\ UNCHANGED <<runtime, poisoned, nextGeneration, active, epoch, database, pending, node>>

(* Signing failed before anything was persisted; the core has released the *)
(* locks of the proposal.                                                  *)
SigningFails(c) ==
    /\ At(c, "calculate")
    /\ locks' = locks \ {Id(active.generation)}
    /\ active' = None
    /\ Settle(c, Answer("error"))
    /\ UNCHANGED <<runtime, poisoned, nextGeneration, epoch, database, pending, node>>

(* Any other error of the calculation leaves the proposal staged.          *)
CalculateFails(c) ==
    /\ At(c, "calculate")
    /\ Settle(c, Answer("error"))
    /\ UNCHANGED <<runtime, poisoned, nextGeneration, active, epoch, disk, node>>

(* attest_backend_active_transaction, and the release of the obsolete      *)
(* proposal's locks: both must succeed before the proposal is dropped.     *)
AttestFails(c) ==
    /\ At(c, "attest")
    /\ Settle(c, Answer("error"))
    /\ UNCHANGED <<runtime, poisoned, nextGeneration, active, epoch, disk, node>>

(* Mutant: the obsolete proposal is dropped with its locks in place.       *)
AttestLeaksLocks(c, outcome) ==
    /\ At(c, "attest")
    /\ Staged
    /\ active' = None
    /\ outcome \in {"review", "error"}
    /\ Settle(c, Answer(outcome))
    /\ UNCHANGED <<runtime, poisoned, nextGeneration, epoch, disk, node>>

AttestSucceeds(c, outcome) ==
    /\ At(c, "attest")
    /\ Staged
    /\ locks' = locks \ {Id(active.generation)}
    /\ active' = None
    /\ outcome \in {"review", "error"}
    /\ Settle(c, Answer(outcome))
    /\ UNCHANGED <<runtime, poisoned, nextGeneration, epoch, database, pending, node>>

(* Mutant: only the confirmation that calculates checks the fee.           *)
FeeUnchecked == TRUE

(* A retry reaches the broadcast without a calculation: the fee is checked *)
(* a second time.                                                          *)
FeeReviewed == active.signed = active.fee

BroadcastRefused(c) ==
    /\ At(c, "broadcast")
    /\ ~FeeReviewed
    /\ Settle(c, Answer("error"))
    /\ UNCHANGED <<runtime, poisoned, nextGeneration, active, epoch, disk, node>>

Broadcast(c) ==
    /\ At(c, "broadcast")
    /\ FeeReviewed
    /\ sent' = sent \cup {[id |-> Id(active.generation), fee |-> active.signed,
                            reviewed |-> active.fee]}
    /\ GoOn(c, "answer")
    /\ UNCHANGED <<runtime, poisoned, nextGeneration, active, epoch, disk, verdicts>>

(* Mutant: a rejection leaves the transaction to be retried.               *)
EndsWhenAccepted(answer) == answer = "broadcast"

(* broadcast_calculated, classify_broadcast_result: only a verdict of the  *)
(* node ends the proposal. An ambiguous failure, any other failure and an  *)
(* answer with another transaction identifier are no verdict.              *)
Ends(answer) == answer \in Verdicts

OutcomeOf(answer) == IF answer = "doubtful" THEN "recovery" ELSE answer

Answered(c, answer) ==
    /\ At(c, "answer")
    /\ active' = IF Ends(answer) THEN None ELSE active
    /\ verdicts' = IF answer \in Verdicts
                   THEN verdicts \cup {[id |-> Id(active.generation), answer |-> answer]}
                   ELSE verdicts
    /\ Settle(c, [outcome |-> OutcomeOf(answer), gen |-> 0, fee |-> active.signed])
    /\ UNCHANGED <<runtime, poisoned, nextGeneration, epoch, disk, sent>>

-----------------------------------------------------------------------------
(* cancel_proposal                                                         *)

CancelSucceeds(c) ==
    /\ Starts(c, "cancel")
    /\ ~poisoned
    /\ Replaced(task[c].request.gen)
    /\ Settle(c, Answer(IF active = None THEN "not_cancelled" ELSE "cancelled"))
    /\ UNCHANGED <<runtime, poisoned, nextGeneration, epoch, database, pending, node>>

CancelFails(c) ==
    /\ Starts(c, "cancel")
    /\ NotReplaced
    /\ Settle(c, Answer("error"))
    /\ UNCHANGED <<runtime, poisoned, nextGeneration, epoch, database, pending, node>>

-----------------------------------------------------------------------------
(* delete_wallet                                                           *)

DeleteRefused(c) ==
    /\ Starts(c, "delete")
    /\ NotReplaced
    /\ Settle(c, Answer("error"))
    /\ UNCHANGED <<runtime, poisoned, nextGeneration, epoch, database, pending, node>>

DeleteBegin(c) ==
    /\ Starts(c, "delete")
    /\ ~poisoned
    /\ Replaced(0)
    /\ GoOn(c, "close")
    /\ UNCHANGED <<runtime, poisoned, nextGeneration, epoch, database, pending, node>>

DeleteCloses(c) ==
    /\ At(c, "close")
    /\ runtime' = FALSE
    /\ GoOn(c, "unlink")
    /\ UNCHANGED <<poisoned, nextGeneration, active, epoch, disk, node>>

(* WCASH_RUNTIME is unusable, or a file cannot be removed: the companion   *)
(* files go first, so a failure leaves the database.                       *)
DeleteFails(c) ==
    /\ At(c, "close") \/ At(c, "unlink")
    /\ Settle(c, Answer("error"))
    /\ UNCHANGED <<runtime, poisoned, nextGeneration, active, epoch, disk, node>>

DeleteSucceeds(c) ==
    /\ At(c, "unlink")
    /\ database' = FALSE
    /\ locks' = {}
    /\ pending' = {}
    /\ Settle(c, Answer("done"))
    /\ UNCHANGED <<runtime, poisoned, nextGeneration, active, epoch, node>>

-----------------------------------------------------------------------------
(* open, create, restore: the runtime is built, then stored                *)

OpenBegin(c) ==
    /\ Waits(c, "open")
    /\ database
    /\ task' = [task EXCEPT ![c].phase = "store"]
    /\ UNCHANGED <<runtime, poisoned, nextGeneration, active, mutex, epoch, disk, node>>

CreateBegin(c) ==
    /\ Waits(c, "create")
    /\ ~database
    /\ database' = TRUE
    /\ task' = [task EXCEPT ![c].phase = "store"]
    /\ UNCHANGED <<runtime, poisoned, nextGeneration, active, mutex, epoch, locks, pending, node>>

OpenFails(c) ==
    /\ Waits(c, "open") \/ Waits(c, "create") \/ task[c].phase = "store"
    /\ SettleBeside(c, "error")
    /\ UNCHANGED <<runtime, poisoned, nextGeneration, active, epoch, disk, node>>

StoreRuntime(c) ==
    /\ task[c].phase = "store"
    /\ runtime' = TRUE
    /\ SettleBeside(c, "done")
    /\ UNCHANGED <<poisoned, nextGeneration, active, epoch, disk, node>>

-----------------------------------------------------------------------------
(* with_panic_guard: a panic in the wallet core becomes the promise's      *)
(* rejection, and the guard it unwinds leaves the mutex poisoned. (What a  *)
(* poisoned WCASH_RUNTIME refuses, the failing actions above may refuse.)  *)
Panics(c) ==
    /\ \E phase \in Locked : At(c, phase)
    /\ poisoned' = TRUE
    /\ Settle(c, Answer("error"))
    /\ UNCHANGED <<runtime, nextGeneration, active, epoch, disk, node>>

(* The chain settles a signed transaction: it is mined, or it expires.     *)
Resolve(p) ==
    /\ p \in pending
    /\ pending' = pending \ {p}
    /\ UNCHANGED <<memory, epoch, database, locks, node>>

(* The process stops, at any point of any task, and is started again.      *)
Restart ==
    /\ epoch < MaxEpoch
    /\ epoch' = epoch + 1
    /\ runtime' = FALSE
    /\ poisoned' = FALSE
    /\ nextGeneration' = 0
    /\ active' = None
    /\ mutex' = None
    /\ task' = [c \in Callers |-> NoTask]
    /\ UNCHANGED <<disk, node>>

(* One step of the task the caller awaits.                                 *)
Step(c) ==
    \/ ProposeRefused(c) \/ ProposeBegin(c) \/ ProposeFails(c) \/ ProposeWithdraws(c)
    \/ \E fee \in Fees : ProposeSucceeds(c, fee) \/ ProposeOmitsValue(c, fee)
    \/ ConfirmRefused(c) \/ ConfirmBegin(c)
    \/ \E fee \in Fees : CalculateSucceeds(c, fee)
    \/ \E fee \in Fees, outcome \in {"review", "error"} : CalculateNeedsReview(c, fee, outcome)
    \/ CalculateFindsPending(c) \/ SigningFails(c) \/ CalculateFails(c)
    \/ AttestFails(c) \/ (\E outcome \in {"review", "error"} : AttestSucceeds(c, outcome))
    \/ BroadcastRefused(c) \/ Broadcast(c)
    \/ \E answer \in Verdicts \cup {"doubtful"} : Answered(c, answer)
    \/ CancelSucceeds(c) \/ CancelFails(c)
    \/ DeleteRefused(c) \/ DeleteBegin(c) \/ DeleteCloses(c) \/ DeleteFails(c)
    \/ DeleteSucceeds(c)
    \/ OpenBegin(c) \/ CreateBegin(c) \/ OpenFails(c) \/ StoreRuntime(c)
    \/ Panics(c)

Environment ==
    \/ \E p \in pending : Resolve(p)
    \/ Restart

Next ==
    \/ \E c \in Callers, req \in Requests : Call(c, req)
    \/ \E c \in Callers : Collect(c) \/ Step(c)
    \/ Environment

Spec == Init /\ [][Next]_vars

-----------------------------------------------------------------------------
(* The inputs locked for a proposal of this process are those of its       *)
(* staged proposal, and a staged proposal has its inputs locked: no error  *)
(* path of a proposal, confirmation, cancellation or deletion leaks a lock *)
(* or releases one that a proposal still relies on.                        *)
LocksMatchProposal ==
    /\ \A id \in locks : id[1] = epoch => Staged /\ id = Id(active.generation)
    /\ Staged => Id(active.generation) \in locks

(* Whatever is handed to the node pays the fee the user reviewed, on the   *)
(* first confirmation and on every retry.                                  *)
OnlyReviewedFeeSent == \A t \in sent : t.fee = t.reviewed

(* The node gives at most one verdict on what one proposal sent: after an  *)
(* acceptance or a rejection no confirmation reaches the node again.       *)
AtMostOneVerdict ==
    \A v, w \in verdicts : v.id = w.id => v = w

Calculated == active # None /\ active.signed # None

(* A calculated transaction may be in the node's hands already. It leaves  *)
(* the registry only by the node's verdict or with the process: no         *)
(* proposal, cancellation, deletion or failed retry replaces or edits it.  *)
CalculatedAwaitsVerdict ==
    [][Calculated /\ epoch' = epoch =>
        active' = active \/ \E v \in verdicts' : v.id = Id(active.generation)]_vars

(* What a previewed proposal promises the caller that reviews it.          *)
Lifecycle == INSTANCE ProposalLifecycle WITH
    slot <- IF active = None THEN None
            ELSE [id |-> Id(active.generation), kind |-> active.kind,
                  fee |-> active.fee, signed |-> active.signed # None],
    last <- Id(nextGeneration)

ImplementsLifecycle == Lifecycle!Spec

-----------------------------------------------------------------------------
(* What makes the properties above inductive.                              *)

WaitsForRequest ==
    \A c \in Callers : task[c].phase = "waiting" => task[c].request \in Requests

(* What the task that holds the mutex knows of the registry in each phase. *)
HolderFits ==
    mutex # None =>
        /\ task[mutex].phase = "stage" =>
            /\ active = None
            /\ nextGeneration < MaxGeneration
            /\ task[mutex].request \in [op : {"propose"}, gen : {0}, kind : Kinds]
        /\ task[mutex].phase \in {"calculate", "attest"} => Staged
        /\ task[mutex].phase \in {"broadcast", "answer"} => Calculated
        /\ task[mutex].phase = "answer" => \E t \in sent : t.id = Id(active.generation)
        /\ task[mutex].phase \in {"close", "unlink"} => active = None

(* Identifiers in use were given out, and no verdict is on the active one. *)
IdentifiersGiven ==
    /\ active # None => active.generation <= nextGeneration
    /\ \A id \in locks : id[1] <= epoch
    /\ \A v \in verdicts :
        /\ v.id[1] <= epoch
        /\ v.id[1] = epoch =>
            v.id[2] <= nextGeneration /\ (active # None => v.id[2] # active.generation)

IInv ==
    /\ TypeOK
    /\ WaitsForRequest
    /\ HolderFits
    /\ IdentifiersGiven
    /\ LocksMatchProposal
    /\ OnlyReviewedFeeSent
    /\ AtMostOneVerdict
===============================================================================
