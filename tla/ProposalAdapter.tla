---------------------------- MODULE ProposalAdapter ----------------------------
(***************************************************************************)
(* The proposal side of public/wcashZingoNativeAdapter.js, in the Electron *)
(* main process: the variable pendingProposal, the promise chain           *)
(* proposalOperations that runs one proposal operation after the other,    *)
(* and the operations themselves, over the native registry.                *)
(*                                                                         *)
(* The event loop runs a continuation to its next await, so every action   *)
(* is what one continuation does, up to and including the native call it   *)
(* then awaits. Between two of them anything else may run: native tasks,   *)
(* new requests of the renderer, and the wallet manager's own native calls *)
(* (delete, open, create), which do not go through the chain.              *)
(***************************************************************************)
EXTENDS ProposalRegistry, Sequences

CONSTANTS
    Queue,     \* the caller of the native functions inside the chain
    Manager,   \* the caller outside it: deleteWallet, initFromB64, initNew
    Clients,   \* who requests operations; each awaits one at a time
    Keys       \* canonical payment lists (requestKey)

(* A send whose payment list is refused has no key.                        *)
Operations ==
    [op : {"send"}, key : Keys \cup {None}]
    \cup [op : {"shield", "confirm", "cancel"}, key : {None}]

(* The resolved value of an operation's promise: "error" is a rejection or *)
(* an { error } answer, which the callers treat alike.                     *)
Replies == [outcome : {"preview", "txids", "cancelled", "error"}, fee : Fees \cup {None}]

(* What the main process keeps of a preview; display: the balance it has   *)
(* kept is still shown.                                                    *)
PendingProposals ==
    [id : 1 .. MaxGeneration, operation : Kinds, feeZat : Fees,
     requestKey : Keys \cup {None}, display : BOOLEAN]

ASSUME AdapterAssumption ==
    /\ Callers = {Queue, Manager}
    /\ Queue # Manager
    /\ Manager \in Clients
    /\ None \notin Keys
    /\ None \notin Operations
    /\ None \notin PendingProposals

VARIABLES
    pendingProposal,  \* the preview the renderer was shown, or None
    chain,            \* proposalOperations: the clients whose operation waits or runs
    asked,            \* the operation each client awaits, or None
    reply,            \* what its promise resolved to, not read yet, or None
    await,            \* the native call the running operation awaits, or "none"
    manager           \* the wallet manager's operation

adapter == <<pendingProposal, chain, asked, reply, await, manager>>
registry == vars
adapterVars == <<vars, adapter>>

AdapterTypeOK ==
    /\ TypeOK
    /\ pendingProposal \in PendingProposals \cup {None}
    /\ chain \in Seq(Clients)
    /\ asked \in [Clients -> Operations \cup {None}]
    /\ reply \in [Clients -> Replies \cup {None}]
    /\ await \in {"none", "discard", "propose", "cleanup", "confirm", "release"}
    /\ manager \in {"idle", "opening", "discarding", "deleting"}

Fresh == [w \in Clients |-> None]

AdapterInit ==
    /\ Init
    /\ pendingProposal = None
    /\ chain = <<>>
    /\ asked = Fresh
    /\ reply = Fresh
    /\ await = "none"
    /\ manager = "idle"

-----------------------------------------------------------------------------
(* serializeProposalOperation: an operation runs when the one before it    *)
(* has settled, whether that one was resolved or rejected.                 *)

Ask(w, operation) ==
    /\ asked[w] = None
    /\ asked' = [asked EXCEPT ![w] = operation]
    /\ chain' = Append(chain, w)

Request(w, operation) ==
    /\ w # Manager
    /\ Ask(w, operation)
    /\ UNCHANGED <<registry, pendingProposal, reply, await, manager>>

Read(w) ==
    /\ reply[w] # None
    /\ asked' = [asked EXCEPT ![w] = None]
    /\ reply' = [reply EXCEPT ![w] = None]

ReadReply(w) ==
    /\ w # Manager
    /\ Read(w)
    /\ UNCHANGED <<registry, pendingProposal, chain, await, manager>>

Running == asked[Head(chain)]

Begins(op) ==
    /\ chain # <<>>
    /\ await = "none"
    /\ Running.op = op

Awaits(call) ==
    /\ await = call
    /\ task[Queue].phase = "settled"

Result == task[Queue].result

(* Mutant: an operation that fails is queued again instead of answered.    *)
ReplyRetrying(outcome, fee) ==
    /\ reply' = IF outcome = "error" THEN reply
                ELSE [reply EXCEPT ![Head(chain)] = [outcome |-> outcome, fee |-> fee]]
    /\ chain' = Tail(chain) \o (IF outcome = "error" THEN <<Head(chain)>> ELSE <<>>)
    /\ await' = "none"
    /\ UNCHANGED <<asked, manager>>

Reply(outcome, fee) ==
    /\ reply' = [reply EXCEPT ![Head(chain)] = [outcome |-> outcome, fee |-> fee]]
    /\ chain' = Tail(chain)
    /\ await' = "none"
    /\ UNCHANGED <<asked, manager>>

GoesOn(call, request) ==
    /\ Call(Queue, request)
    /\ await' = call
    /\ UNCHANGED <<chain, asked, reply, manager>>

(* wcash_cancel_proposal, with the identifier of the preview if there is one. *)
CancelRequest ==
    [op |-> "cancel", gen |-> IF pendingProposal = None THEN 0 ELSE pendingProposal.id,
     kind |-> None]

-----------------------------------------------------------------------------
(* stageSendUnlocked, stageShieldUnlocked                                  *)

KindOf(operation) == IF operation.op = "send" THEN "send" ELSE "shield_coinbase"

(* Mutant: a preview of the same kind will do, whatever list it pays.      *)
SameKind ==
    /\ pendingProposal # None
    /\ pendingProposal.operation = KindOf(Running)

(* The same request again: the proposal staged for it is still the preview. *)
SamePreview ==
    /\ pendingProposal # None
    /\ pendingProposal.operation = KindOf(Running)
    /\ pendingProposal.requestKey = Running.key

StagesAgain ==
    /\ Begins("send") \/ Begins("shield")
    /\ SamePreview
    /\ ~(Running.op = "send" /\ Running.key = None)
    /\ Reply("preview", pendingProposal.feeZat)
    /\ UNCHANGED <<registry, pendingProposal>>

(* Every other request, a refused one too, first discards the preview.     *)
StageDiscards ==
    /\ Begins("send") \/ Begins("shield")
    /\ ~SamePreview \/ (Running.op = "send" /\ Running.key = None)
    /\ GoesOn("discard", CancelRequest)
    /\ UNCHANGED pendingProposal

(* discardPendingProposalUnlocked: native refused. The preview stays.      *)
DiscardRejected ==
    /\ Awaits("discard")
    /\ Result.outcome = "error"
    /\ Collect(Queue)
    /\ Reply("error", None)
    /\ UNCHANGED pendingProposal

(* There was nothing to cancel for a preview: it is dropped, with an error. *)
DiscardMismatch ==
    /\ Awaits("discard")
    /\ Result.outcome = "not_cancelled"
    /\ pendingProposal # None
    /\ Collect(Queue)
    /\ pendingProposal' = None
    /\ Reply("error", None)

Discarded ==
    /\ Awaits("discard")
    /\ Result.outcome = "cancelled" \/ (Result.outcome = "not_cancelled" /\ pendingProposal = None)

Stages(operation) ==
    operation.op = "shield" \/ (operation.op = "send" /\ operation.key # None)

(* A cancellation is answered; a refused payment list or credential is an  *)
(* error; and so is a send whose wcash_balance fails, after its cleanup.   *)
DiscardEnds ==
    /\ Discarded
    /\ ~Stages(Running)
    /\ Collect(Queue)
    /\ pendingProposal' = None
    /\ Reply(IF Running.op = "cancel" THEN "cancelled" ELSE "error", None)

BalanceFails ==
    /\ Discarded
    /\ Running.op = "send"
    /\ Stages(Running)
    /\ pendingProposal' = None
    /\ GoesOn("cleanup", [op |-> "cancel", gen |-> 0, kind |-> None])

(* Mutant: the preview that was discarded is kept.                         *)
ProposesBesideStale ==
    /\ Discarded
    /\ Stages(Running)
    /\ UNCHANGED pendingProposal
    /\ GoesOn("propose", [op |-> "propose", gen |-> 0, kind |-> KindOf(Running)])

Proposes ==
    /\ Discarded
    /\ Stages(Running)
    /\ pendingProposal' = None
    /\ GoesOn("propose", [op |-> "propose", gen |-> 0, kind |-> KindOf(Running)])

(* Mutant: whatever native returned becomes the preview.                   *)
ProposeReturnsUnchecked ==
    /\ Awaits("propose")
    /\ Collect(Queue)
    /\ pendingProposal' = [id |-> Result.gen, operation |-> KindOf(Running),
            feeZat |-> Result.fee, requestKey |-> Running.key, display |-> Running.op = "send"]
    /\ Reply("preview", Result.fee)

(* The preview is kept, with the balance as it was before it (display).    *)
ProposeReturns ==
    /\ Awaits("propose")
    /\ Result.outcome = "preview"
    /\ Collect(Queue)
    /\ pendingProposal' = [id |-> Result.gen, operation |-> KindOf(Running),
            feeZat |-> Result.fee, requestKey |-> Running.key, display |-> Running.op = "send"]
    /\ Reply("preview", Result.fee)

(* Native refused, or proposalPreview refuses what native returned.        *)
ProposeCleansUp ==
    /\ Awaits("propose")
    /\ GoesOn("cleanup", CancelRequest)
    /\ UNCHANGED pendingProposal

(* A failed cleanup is left to a later operation.                          *)
CleanupEnds ==
    /\ Awaits("cleanup")
    /\ Collect(Queue)
    /\ Reply("error", None)
    /\ UNCHANGED pendingProposal

-----------------------------------------------------------------------------
(* confirmUnlocked                                                         *)

(* No preview, or the credential store rejects.                            *)
ConfirmThrows ==
    /\ Begins("confirm")
    /\ Reply("error", None)
    /\ UNCHANGED <<registry, pendingProposal>>

(* The stored credential does not control the wallet.                      *)
ConfirmDiscards ==
    /\ Begins("confirm")
    /\ pendingProposal # None
    /\ GoesOn("discard", CancelRequest)
    /\ UNCHANGED pendingProposal

(* Mutant: the balance before the preview is still shown while it is signed. *)
ConfirmCallsDisplayed ==
    /\ Begins("confirm")
    /\ pendingProposal # None
    /\ UNCHANGED pendingProposal
    /\ GoesOn("confirm", [op |-> "confirm", gen |-> pendingProposal.id,
                          kind |-> pendingProposal.operation])

ConfirmCalls ==
    /\ Begins("confirm")
    /\ pendingProposal # None
    /\ pendingProposal' = [pendingProposal EXCEPT !.display = FALSE]
    /\ GoesOn("confirm", [op |-> "confirm", gen |-> pendingProposal.id,
                          kind |-> pendingProposal.operation])

ConfirmReleases ==
    /\ Awaits("confirm")
    /\ Result.outcome = "error"
    /\ GoesOn("release", CancelRequest)
    /\ UNCHANGED pendingProposal

(* Mutant: a failed confirmation always drops the preview.                 *)
ReleaseEndsForgetting ==
    /\ Awaits("release")
    /\ Collect(Queue)
    /\ pendingProposal' = None
    /\ Reply("error", None)

(* Native answered the cancellation: nothing is calculated any more. It    *)
(* refused: the exact proposal must remain retryable.                      *)
ReleaseEnds ==
    /\ Awaits("release")
    /\ Collect(Queue)
    /\ pendingProposal' = IF Result.outcome = "error" THEN pendingProposal ELSE None
    /\ Reply("error", None)

(* Native answered: the preview ends with a verdict at the previewed fee,  *)
(* and when native gave it up for review.                                  *)
FeeConfirmed == Result.fee = pendingProposal.feeZat

ConfirmReturns ==
    /\ Awaits("confirm")
    /\ Result.outcome # "error"
    /\ Collect(Queue)
    /\ pendingProposal' =
            IF Result.outcome = "review" \/ (FeeConfirmed /\ Ends(Result.outcome))
            THEN None ELSE pendingProposal
    /\ IF FeeConfirmed /\ Result.outcome = "broadcast"
       THEN Reply("txids", Result.fee)
       ELSE Reply("error", None)

(* cancel_transaction_proposal, deinitialize, and deleteWallet's first step. *)
CancelDiscards ==
    /\ Begins("cancel")
    /\ GoesOn("discard", CancelRequest)
    /\ UNCHANGED pendingProposal

-----------------------------------------------------------------------------
(* deleteWallet, and initFromB64, initNew, initFromSeed                    *)

Manages(before, after) ==
    /\ manager = before
    /\ manager' = after
    /\ UNCHANGED <<pendingProposal, await>>

OpensWallet(op) ==
    /\ Manages("idle", "opening")
    /\ Call(Manager, [op |-> op, gen |-> 0, kind |-> None])
    /\ UNCHANGED <<chain, asked, reply>>

RequestsDelete ==
    /\ Manages("idle", "discarding")
    /\ Ask(Manager, [op |-> "cancel", key |-> None])
    /\ UNCHANGED <<registry, reply>>

DeleteStops ==
    /\ Manages("discarding", "idle")
    /\ Read(Manager)
    /\ reply[Manager].outcome = "error"
    /\ UNCHANGED <<registry, chain>>

DeletesNative ==
    /\ Manages("discarding", "deleting")
    /\ Read(Manager)
    /\ reply[Manager].outcome = "cancelled"
    /\ Call(Manager, [op |-> "delete", gen |-> 0, kind |-> None])
    /\ UNCHANGED chain

ManagerEnds ==
    /\ Manages(manager, "idle")
    /\ manager \in {"opening", "deleting"}
    /\ Collect(Manager)
    /\ UNCHANGED <<chain, asked, reply>>

-----------------------------------------------------------------------------
(* What runs once it is asked for.                                         *)
Continue ==
    \/ StagesAgain \/ StageDiscards \/ DiscardRejected \/ DiscardMismatch \/ DiscardEnds
    \/ BalanceFails \/ Proposes \/ ProposeReturns \/ ProposeCleansUp \/ CleanupEnds
    \/ ConfirmThrows \/ ConfirmDiscards \/ ConfirmCalls \/ ConfirmReleases \/ ReleaseEnds
    \/ ConfirmReturns \/ CancelDiscards

ManagerContinues == DeleteStops \/ DeletesNative \/ ManagerEnds

NativeStep(c) == Step(c) /\ UNCHANGED adapter

AdapterRestart ==
    /\ Restart
    /\ pendingProposal' = None
    /\ chain' = <<>>
    /\ asked' = Fresh
    /\ reply' = Fresh
    /\ await' = "none"
    /\ manager' = "idle"

AdapterNext ==
    \/ \E w \in Clients, operation \in Operations : Request(w, operation)
    \/ \E w \in Clients : ReadReply(w)
    \/ Continue
    \/ ManagerContinues
    \/ \E op \in {"open", "create"} : OpensWallet(op)
    \/ RequestsDelete
    \/ \E c \in Callers : NativeStep(c)
    \/ (\E p \in pending : Resolve(p)) /\ UNCHANGED adapter
    \/ AdapterRestart

AdapterSpec == AdapterInit /\ [][AdapterNext]_adapterVars

(* The event loop runs every continuation that is due, and every native    *)
(* task gets a worker thread, the mutex and, in the end, the node's answer *)
(* or an error. Nothing is assumed of users, of the chain or of a restart. *)
Fairness ==
    /\ WF_adapterVars(Continue)
    /\ WF_adapterVars(ManagerContinues)
    /\ \A c \in Callers : WF_adapterVars(NativeStep(c))

AdapterFairSpec == AdapterSpec /\ Fairness

-----------------------------------------------------------------------------
(* The main process and native never hold different proposals: the preview *)
(* an operation confirms or cancels is the transaction native would sign.  *)
NoForeignProposal ==
    pendingProposal # None /\ active # None =>
        /\ active.generation = pendingProposal.id
        /\ active.kind = pendingProposal.operation
        /\ active.fee = pendingProposal.feeZat

(* A calculated transaction that was not decided can be confirmed again:   *)
(* between operations the main process still has its exact binding.        *)
CalculatedIsRetryable ==
    Calculated /\ await = "none" => pendingProposal # None

(* The inputs of a signed transaction are never shown as spendable.        *)
SignedIsNotSpendable ==
    Calculated => pendingProposal # None /\ ~pendingProposal.display

(* What makes them inductive. Each client in the chain awaits an answer,   *)
(* and is in it once.                                                      *)
ChainFits ==
    /\ \A i \in 1 .. Len(chain) : asked[chain[i]] # None /\ reply[chain[i]] = None
    /\ \A i, j \in 1 .. Len(chain) : chain[i] = chain[j] => i = j
    /\ \A w \in Clients : reply[w] # None => asked[w] # None
    /\ await # "none" => chain # <<>>

(* What the two callers have asked native for.                             *)
AwaitFits ==
    /\ await = "none" <=> task[Queue].phase = "idle"
    /\ await \in {"discard", "cleanup", "release"} => task[Queue].request = CancelRequest
    /\ await = "propose" =>
        /\ task[Queue].request = [op |-> "propose", gen |-> 0, kind |-> KindOf(Running)]
        /\ pendingProposal = None
    /\ await = "confirm" =>
        /\ pendingProposal # None /\ ~pendingProposal.display
        /\ task[Queue].request = [op |-> "confirm", gen |-> pendingProposal.id,
                                  kind |-> pendingProposal.operation]

ManagerFits ==
    /\ manager \in {"idle", "discarding"} <=> task[Manager].phase = "idle"
    /\ manager = "opening" => task[Manager].request.op \in {"open", "create"}
    /\ manager = "deleting" => task[Manager].request.op = "delete"

(* How far a task can be, by what it was asked.                            *)
TaskFits(c) ==
    LET phase == task[c].phase
        request == task[c].request
    IN  /\ phase # "idle" => request \in Requests
        /\ phase \in {"stage", "omitted"} => request.op = "propose"
        /\ phase \in {"calculate", "attest", "broadcast", "answer"} => request.op = "confirm"
        /\ phase \in {"close", "unlink"} => request.op = "delete"
        /\ phase = "store" => request.op \in {"open", "create"}

(* What the registry is like when a task has settled and its caller has    *)
(* not read it.                                                            *)
AnswerFits(c) ==
    LET request == task[c].request
        result == task[c].result
    IN  /\ result \in Results
        /\ \/ request.op = "cancel" /\ result.outcome # "error"
           \/ request.op = "confirm" /\ (result.outcome = "review" \/ Ends(result.outcome))
           => active = None
        /\ result.outcome = "preview" =>
            /\ request.op = "propose"
            /\ result.gen \in 1 .. MaxGeneration /\ result.fee \in Fees
            /\ active # None => /\ active.generation = result.gen
                               /\ active.fee = result.fee
                               /\ active.kind = request.kind

TasksFit ==
    \A c \in Callers : TaskFits(c) /\ (task[c].phase = "settled" => AnswerFits(c))

AdapterInv ==
    /\ IInv
    /\ AdapterTypeOK
    /\ ChainFits
    /\ AwaitFits
    /\ ManagerFits
    /\ TasksFit
    /\ NoForeignProposal
    /\ SignedIsNotSpendable

(* An operation that fails does not block those behind it: every operation *)
(* is answered, unless the process stops.                                  *)
EveryOperationAnswered ==
    \A w \in Clients : asked[w] # None ~> reply[w] # None \/ asked[w] = None
===============================================================================
