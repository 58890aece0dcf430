------------------------- MODULE ProposalAdapterProofs -------------------------
(***************************************************************************)
(* Safety of ProposalAdapter, for any clients, payment lists, fees and     *)
(* bounds, and that it uses the registry as ProposalRegistry allows.       *)
(*                                                                         *)
(* StepFits says what a step of a native task can do to the registry, by   *)
(* what the task was asked; NativeInv draws the consequences for the main  *)
(* process. The lemmas after it are about the continuations, and           *)
(* AdapterNextInv puts them together.                                      *)
(***************************************************************************)
EXTENDS ProposalAdapter, ProposalRegistryProofs

USE ConstantsAssumption, AdapterAssumption

-----------------------------------------------------------------------------
(* Steps of native tasks                                                   *)

(* What a step leaves of the proposal, by what the task was asked.         *)
ActiveMoves(op) ==
    \/ active' = None
    \/ active' = active
    \/ op = "propose" /\ active' # None /\ active'.signed = None
    \/ /\ op = "confirm" /\ active # None /\ active' # None
       /\ active'.generation = active.generation
       /\ active'.kind = active.kind
       /\ active'.fee = active.fee

StepEffect(c) ==
    /\ \A d \in Callers \ {c} : task'[d] = task[d]
    /\ task[c].phase \notin {"idle", "settled"}
    /\ task'[c].phase \notin {"idle", "waiting"}
    /\ task'[c].request = task[c].request
    /\ ActiveMoves(task[c].request.op)
    /\ TaskFits(c)'
    /\ task'[c].phase = "settled" => AnswerFits(c)'

(* A task that settles with an error leaves the proposal or none.          *)
LEMMA ErrorEffect ==
    ASSUME TypeOK, NEW c \in Callers, TaskFits(c),
           task[c].phase \notin {"idle", "settled"},
           Settle(c, Answer("error")), active' = None \/ active' = active
    PROVE  StepEffect(c)
<1>1. Answer("error") \in Results
  BY AnswerTyped DEF Outcomes
<1>2. /\ task'[c].phase = "settled" /\ task'[c].request = task[c].request
      /\ task'[c].result = Answer("error")
      /\ \A d \in Callers \ {c} : task'[d] = task[d]
  BY DEF TypeOK, Settle, Tasks
<1>3. TaskFits(c)'
  BY <1>2 DEF TaskFits
<1>4. AnswerFits(c)'
  BY <1>1, <1>2 DEF AnswerFits, Answer, Ends, Verdicts
<1> QED
  BY <1>2, <1>3, <1>4 DEF StepEffect, ActiveMoves

(* A task that goes on does so in a phase of what it was asked.            *)
LEMMA GoOnEffect ==
    ASSUME TypeOK, NEW c \in Callers, TaskFits(c),
           task[c].phase \notin {"idle", "settled"},
           NEW phase \in Phases \ {"idle", "waiting", "settled"}, GoOn(c, phase),
           phase \in {"stage", "omitted"} => task[c].request.op = "propose",
           phase \in {"calculate", "attest", "broadcast", "answer"} => task[c].request.op = "confirm",
           phase \in {"close", "unlink"} => task[c].request.op = "delete",
           phase # "store",
           ActiveMoves(task[c].request.op)
    PROVE  StepEffect(c)
<1>1. /\ task'[c].phase = phase /\ task'[c].request = task[c].request
      /\ \A d \in Callers \ {c} : task'[d] = task[d]
  BY DEF TypeOK, GoOn, Tasks
<1>2. TaskFits(c)'
  BY <1>1 DEF TaskFits
<1> QED
  BY <1>1, <1>2 DEF StepEffect

(* A task that settles otherwise, with a result that fits.                 *)
LEMMA SettleEffect ==
    ASSUME TypeOK, NEW c \in Callers, TaskFits(c),
           task[c].phase \notin {"idle", "settled"},
           NEW result \in Results, Settle(c, result),
           ActiveMoves(task[c].request.op),
           \/ task[c].request.op = "cancel" /\ result.outcome # "error"
           \/ task[c].request.op = "confirm" /\ (result.outcome = "review" \/ Ends(result.outcome))
           => active' = None,
           result.outcome = "preview" =>
               /\ task[c].request.op = "propose"
               /\ result.gen \in 1 .. MaxGeneration /\ result.fee \in Fees
               /\ active' # None => /\ active'.generation = result.gen
                                   /\ active'.fee = result.fee
                                   /\ active'.kind = task[c].request.kind
    PROVE  StepEffect(c)
<1>1. /\ task'[c].phase = "settled" /\ task'[c].request = task[c].request
      /\ task'[c].result = result
      /\ \A d \in Callers \ {c} : task'[d] = task[d]
  BY DEF TypeOK, Settle, Tasks
<1>2. TaskFits(c)'
  BY <1>1 DEF TaskFits
<1>3. AnswerFits(c)'
  BY <1>1 DEF AnswerFits, Ends
<1> QED
  BY <1>1, <1>2, <1>3 DEF StepEffect

(* The steps that end in an error.                                         *)
LEMMA ErrorsFit ==
    ASSUME IInv, NEW c \in Callers, TaskFits(c),
           \/ ProposeRefused(c) \/ ProposeFails(c) \/ ProposeWithdraws(c)
           \/ ConfirmRefused(c) \/ SigningFails(c) \/ CalculateFails(c) \/ AttestFails(c)
           \/ BroadcastRefused(c) \/ CancelFails(c) \/ DeleteRefused(c) \/ DeleteFails(c)
           \/ Panics(c)
    PROVE  StepEffect(c)
<1>1. Settle(c, Answer("error"))
  BY DEF ProposeRefused, ProposeFails, ProposeWithdraws, ConfirmRefused, SigningFails,
     CalculateFails, AttestFails, BroadcastRefused, CancelFails, DeleteRefused, DeleteFails, Panics
<1>2. active' = None \/ active' = active
  BY DEF ProposeRefused, ProposeFails, ProposeWithdraws, ConfirmRefused, SigningFails,
     CalculateFails, AttestFails, BroadcastRefused, CancelFails, DeleteRefused, DeleteFails,
     Panics, Replaced, NotReplaced
<1>3. task[c].phase \notin {"idle", "settled"}
  BY DEF ProposeRefused, ProposeFails, ProposeWithdraws, ConfirmRefused, SigningFails,
     CalculateFails, AttestFails, BroadcastRefused, CancelFails, DeleteRefused, DeleteFails,
     Panics, Starts, Waits, At, Locked
<1> QED
  BY <1>1, <1>2, <1>3, ErrorEffect DEF IInv

(* The steps that go on.                                                   *)
LEMMA GoOnsFit ==
    ASSUME IInv, NEW c \in Callers, TaskFits(c),
           \/ ProposeBegin(c) \/ ConfirmBegin(c) \/ CalculateFindsPending(c) \/ Broadcast(c)
           \/ DeleteBegin(c) \/ DeleteCloses(c)
    PROVE  StepEffect(c)
<1>0. TypeOK
  BY DEF IInv
<1>1. CASE ProposeBegin(c)
  <2>1. /\ task[c].phase = "waiting" /\ task[c].request.op = "propose"
        /\ GoOn(c, "stage") /\ (active' = None \/ active' = active)
    BY <1>1 DEF ProposeBegin, Starts, Waits, Replaced
  <2> QED
    BY <1>0, <2>1, GoOnEffect DEF Phases, ActiveMoves
<1>2. CASE ConfirmBegin(c)
  <2>1. /\ task[c].phase = "waiting" /\ task[c].request.op = "confirm" /\ active' = active
        /\ GoOn(c, "calculate") \/ GoOn(c, "broadcast")
    BY <1>2 DEF ConfirmBegin, Starts, Waits
  <2> QED
    BY <1>0, <2>1, GoOnEffect DEF Phases, ActiveMoves
<1>3. CASE CalculateFindsPending(c)
  <2>1. /\ task[c].phase = "calculate" /\ active' = active /\ GoOn(c, "attest")
    BY <1>3 DEF CalculateFindsPending, At
  <2>2. task[c].request.op = "confirm"
    BY <2>1 DEF TaskFits
  <2> QED
    BY <1>0, <2>1, <2>2, GoOnEffect DEF Phases, ActiveMoves
<1>4. CASE Broadcast(c)
  <2>1. /\ task[c].phase = "broadcast" /\ active' = active /\ GoOn(c, "answer")
    BY <1>4 DEF Broadcast, At
  <2>2. task[c].request.op = "confirm"
    BY <2>1 DEF TaskFits
  <2> QED
    BY <1>0, <2>1, <2>2, GoOnEffect DEF Phases, ActiveMoves
<1>5. CASE DeleteBegin(c)
  <2>1. /\ task[c].phase = "waiting" /\ task[c].request.op = "delete"
        /\ GoOn(c, "close") /\ (active' = None \/ active' = active)
    BY <1>5 DEF DeleteBegin, Starts, Waits, Replaced
  <2> QED
    BY <1>0, <2>1, GoOnEffect DEF Phases, ActiveMoves
<1>6. CASE DeleteCloses(c)
  <2>1. /\ task[c].phase = "close" /\ active' = active /\ GoOn(c, "unlink")
    BY <1>6 DEF DeleteCloses, At
  <2>2. task[c].request.op = "delete"
    BY <2>1 DEF TaskFits
  <2> QED
    BY <1>0, <2>1, <2>2, GoOnEffect DEF Phases, ActiveMoves
<1> QED
  BY <1>1, <1>2, <1>3, <1>4, <1>5, <1>6

(* A new proposal is staged, with its preview or without its value.        *)
LEMMA StagesFit ==
    ASSUME IInv, NEW c \in Callers, TaskFits(c), NEW fee \in Fees,
           ProposeSucceeds(c, fee) \/ ProposeOmitsValue(c, fee)
    PROVE  StepEffect(c)
<1> DEFINE result == [outcome |-> "preview", gen |-> nextGeneration + 1, fee |-> fee]
<1>0. TypeOK
  BY DEF IInv
<1>1. StageProposal(c, fee) /\ task[c].phase = "stage"
  BY DEF ProposeSucceeds, ProposeOmitsValue, StageProposal, At
<1>2. task[c].request.op = "propose"
  BY <1>1 DEF TaskFits
<1>3. /\ active' = [generation |-> nextGeneration + 1, kind |-> task[c].request.kind,
                    fee |-> fee, signed |-> None]
      /\ nextGeneration' = nextGeneration + 1 /\ nextGeneration' \in 1 .. MaxGeneration
      /\ active' \in Proposals
  BY <1>1, StageFits DEF StageProposal
<1>4. ActiveMoves(task[c].request.op)
  BY <1>2, <1>3 DEF ActiveMoves
<1>5. result \in Results
  BY <1>3 DEF Results, Outcomes
<1>6. /\ result.outcome = "preview" /\ result.gen = nextGeneration' /\ result.fee = fee
      /\ active'.generation = nextGeneration' /\ active'.fee = fee
      /\ active'.kind = task[c].request.kind
  BY <1>3
<1>7. Settle(c, result) \/ GoOn(c, "omitted")
  BY DEF ProposeSucceeds, ProposeOmitsValue
<1> HIDE DEF result
<1>8. CASE Settle(c, result)
  BY <1>0, <1>1, <1>2, <1>3, <1>4, <1>5, <1>6, <1>8, SettleEffect DEF Ends, Verdicts
<1>9. CASE GoOn(c, "omitted")
  BY <1>0, <1>1, <1>2, <1>4, <1>9, GoOnEffect DEF Phases
<1> QED
  BY <1>7, <1>8, <1>9

(* A calculation signs the proposal, or gives it up.                       *)
LEMMA CalculationsFit ==
    ASSUME IInv, NEW c \in Callers, TaskFits(c), NEW fee \in Fees,
           NEW outcome \in {"review", "error"},
           \/ CalculateSucceeds(c, fee) \/ CalculateNeedsReview(c, fee, outcome)
           \/ AttestSucceeds(c, outcome)
    PROVE  StepEffect(c)
<1>0. TypeOK
  BY DEF IInv
<1>1. task[c].phase \in {"calculate", "attest"} /\ task[c].request.op = "confirm"
  BY DEF CalculateSucceeds, CalculateNeedsReview, AttestSucceeds, At, TaskFits
<1>2. Answer("error") \in Results /\ Answer(outcome) \in Results
  BY AnswerTyped DEF Outcomes
<1>3. Answer("error").outcome = "error" /\ Answer(outcome).outcome = outcome
  BY DEF Answer
<1>4. CASE CalculateSucceeds(c, fee)
  <2>1. Staged /\ active # None /\ active \in Proposals
    BY <1>4 DEF CalculateSucceeds, At, IInv, TypeOK, HolderFits, Staged
  <2>2. active' = [active EXCEPT !.signed = fee]
    BY <1>4 DEF CalculateSucceeds
  <2>3. active' \in Proposals /\ active' # None
    BY <2>1, <2>2 DEF Proposals
  <2>4. /\ active'.generation = active.generation
        /\ active'.kind = active.kind
        /\ active'.fee = active.fee
    BY <2>1, <2>2 DEF Proposals
  <2>5. ActiveMoves(task[c].request.op)
    BY <1>1, <2>1, <2>3, <2>4 DEF ActiveMoves
  <2>6. GoOn(c, "broadcast") \/ Settle(c, Answer("error"))
    BY <1>4 DEF CalculateSucceeds
  <2>7. CASE GoOn(c, "broadcast")
    BY <1>0, <1>1, <2>5, <2>7, GoOnEffect DEF Phases
  <2>8. CASE Settle(c, Answer("error"))
    BY <1>0, <1>1, <1>2, <1>3, <2>5, <2>8, SettleEffect DEF Ends, Verdicts
  <2> QED
    BY <2>6, <2>7, <2>8
<1>5. CASE CalculateNeedsReview(c, fee, outcome) \/ AttestSucceeds(c, outcome)
  <2>1. Settle(c, Answer(outcome)) /\ active' = None
    BY <1>5 DEF CalculateNeedsReview, AttestSucceeds
  <2> QED
    BY <1>0, <1>1, <1>2, <1>3, <2>1, SettleEffect DEF ActiveMoves
<1> QED
  BY <1>4, <1>5

(* The node's answer ends the proposal exactly when it is a verdict.       *)
LEMMA AnsweredFits ==
    ASSUME IInv, NEW c \in Callers, TaskFits(c), NEW answer \in Verdicts \cup {"doubtful"},
           Answered(c, answer)
    PROVE  StepEffect(c)
<1> DEFINE result == [outcome |-> OutcomeOf(answer), gen |-> 0, fee |-> active.signed]
<1>0. TypeOK
  BY DEF IInv
<1>1. task[c].phase = "answer" /\ task[c].request.op = "confirm"
  BY DEF Answered, At, TaskFits
<1>2. active \in Proposals /\ Calculated
  BY DEF Answered, At, IInv, TypeOK, HolderFits, Calculated
<1>3. result \in Results
  BY <1>2 DEF Results, Outcomes, OutcomeOf, Verdicts, Proposals, Calculated
<1>4. Settle(c, result) /\ active' = IF Ends(answer) THEN None ELSE active
  BY DEF Answered
<1>5. ActiveMoves(task[c].request.op)
  BY <1>4 DEF ActiveMoves
<1>6. /\ result.outcome = OutcomeOf(answer)
      /\ result.outcome \notin {"review", "preview"}
      /\ Ends(result.outcome) => Ends(answer)
  BY DEF OutcomeOf, Ends, Verdicts
<1> HIDE DEF result
<1> QED
  BY <1>0, <1>1, <1>3, <1>4, <1>5, <1>6, SettleEffect

(* A cancellation that is answered leaves no proposal.                     *)
LEMMA CancelFits ==
    ASSUME IInv, NEW c \in Callers, TaskFits(c), CancelSucceeds(c)
    PROVE  StepEffect(c)
<1>1. PICK outcome \in {"cancelled", "not_cancelled"} : Settle(c, Answer(outcome))
  BY DEF CancelSucceeds
<1>2. active' = None /\ task[c].phase = "waiting" /\ task[c].request.op = "cancel"
  BY DEF CancelSucceeds, Replaced, Starts, Waits
<1>3. Answer(outcome) \in Results /\ Answer(outcome).outcome = outcome
  BY AnswerTyped DEF Outcomes, Answer
<1> QED
  BY <1>1, <1>2, <1>3, SettleEffect DEF IInv, ActiveMoves

(* The steps of the wallet's own operations.                               *)
LEMMA WalletStepsFit ==
    ASSUME IInv, NEW c \in Callers, TaskFits(c),
           \/ DeleteSucceeds(c) \/ OpenBegin(c) \/ CreateBegin(c) \/ OpenFails(c)
           \/ StoreRuntime(c)
    PROVE  StepEffect(c)
<1>0. TypeOK /\ active' = active
  BY DEF IInv, DeleteSucceeds, OpenBegin, CreateBegin, OpenFails, StoreRuntime
<1>1. task[c].phase \notin {"idle", "settled"} /\ task[c].request.op # "confirm"
  BY DEF DeleteSucceeds, OpenBegin, CreateBegin, OpenFails, StoreRuntime, Waits, At, TaskFits
<1>2. CASE OpenBegin(c) \/ CreateBegin(c)
  <2>1. task[c].request.op \in {"open", "create"}
    BY <1>2 DEF OpenBegin, CreateBegin, Waits
  <2>2. /\ task'[c].phase = "store" /\ task'[c].request = task[c].request
        /\ \A d \in Callers \ {c} : task'[d] = task[d]
    BY <1>0, <1>2 DEF OpenBegin, CreateBegin, TypeOK, Tasks
  <2>3. TaskFits(c)'
    BY <1>1, <2>1, <2>2 DEF TaskFits
  <2> QED
    BY <1>0, <1>1, <2>2, <2>3 DEF StepEffect, ActiveMoves
<1>3. CASE DeleteSucceeds(c) \/ OpenFails(c) \/ StoreRuntime(c)
  <2>1. task[c].request.op # "cancel"
    BY <1>3 DEF DeleteSucceeds, OpenFails, StoreRuntime, Waits, At, TaskFits
  <2>2. PICK outcome \in {"error", "done"} :
            task' = [task EXCEPT ![c].phase = "settled", ![c].result = Answer(outcome)]
    BY <1>3 DEF DeleteSucceeds, OpenFails, StoreRuntime, Settle, SettleBeside
  <2>3. Answer(outcome) \in Results /\ Answer(outcome).outcome = outcome
    BY AnswerTyped DEF Outcomes, Answer
  <2>4. /\ task'[c].phase = "settled" /\ task'[c].request = task[c].request
        /\ task'[c].result = Answer(outcome)
        /\ \A d \in Callers \ {c} : task'[d] = task[d]
    BY <1>0, <2>2 DEF TypeOK, Tasks
  <2>5. TaskFits(c)'
    BY <1>1, <2>4 DEF TaskFits
  <2>6. AnswerFits(c)'
    BY <1>1, <2>1, <2>3, <2>4 DEF AnswerFits, Ends
  <2> QED
    BY <1>0, <1>1, <2>4, <2>5, <2>6 DEF StepEffect, ActiveMoves
<1> QED
  BY <1>2, <1>3

(* Every step of every task.                                               *)
LEMMA StepFits ==
    ASSUME IInv, NEW c \in Callers, TaskFits(c), Step(c)
    PROVE  StepEffect(c)
<1>1. ASSUME NEW outcome \in {"review", "error"}, AttestSucceeds(c, outcome) PROVE StepEffect(c)
  <2>1. PICK fee \in Fees : TRUE
    BY <1>1 DEF AttestSucceeds, Staged, IInv, TypeOK, Proposals
  <2> QED
    BY <1>1, CalculationsFit
<1>2. ASSUME NEW fee \in Fees, CalculateSucceeds(c, fee) PROVE StepEffect(c)
  BY <1>2, CalculationsFit
<1>3. ASSUME NEW fee \in Fees, NEW outcome \in {"review", "error"},
             CalculateNeedsReview(c, fee, outcome)
      PROVE  StepEffect(c)
  BY <1>3, CalculationsFit
<1>4. CASE \E fee \in Fees : ProposeSucceeds(c, fee) \/ ProposeOmitsValue(c, fee)
  BY <1>4, StagesFit
<1>5. CASE \E answer \in Verdicts \cup {"doubtful"} : Answered(c, answer)
  BY <1>5, AnsweredFits
<1> QED
  BY <1>1, <1>2, <1>3, <1>4, <1>5, ErrorsFit, GoOnsFit, CancelFits, WalletStepsFit DEF Step

-----------------------------------------------------------------------------
(* What a step of a native task means for the main process                 *)

(* Only Queue's proposal or confirmation makes or signs a proposal, and    *)
(* then the main process holds none, or the one it confirms undisplayed.   *)
LEMMA CallersAsk ==
    ASSUME AdapterInv, NEW c \in Callers, task[c].phase # "idle"
    PROVE  /\ task[c].request.op = "propose" => c = Queue /\ pendingProposal = None
           /\ task[c].request.op = "confirm" =>
                c = Queue /\ pendingProposal # None /\ ~pendingProposal.display
<1>1. CASE c = Manager
  BY <1>1 DEF AdapterInv, AdapterTypeOK, ManagerFits
<1>2. CASE c = Queue
  <2>1. await # "none" /\ CancelRequest.op = "cancel"
    BY <1>2 DEF AdapterInv, AwaitFits, CancelRequest
  <2>2. await \in {"discard", "propose", "cleanup", "confirm", "release"}
    BY <2>1 DEF AdapterInv, AdapterTypeOK
  <2> QED
    BY <1>2, <2>1, <2>2 DEF AdapterInv, AwaitFits
<1> QED
  BY <1>1, <1>2

(* What is said of the two callers' requests does not depend on how far    *)
(* their tasks are.                                                        *)
LEMMA RequestsKept ==
    ASSUME AwaitFits, ManagerFits, UNCHANGED adapter,
           \A c \in Callers : /\ task'[c].request = task[c].request
                              /\ task'[c].phase = "idle" <=> task[c].phase = "idle"
    PROVE  AwaitFits' /\ ManagerFits'
<1>1. UNCHANGED <<CancelRequest, KindOf(Running)>>
  BY DEF adapter, CancelRequest, KindOf, Running
<1> QED
  BY <1>1 DEF AwaitFits, ManagerFits, adapter

(* A step of a native task keeps AdapterInv.                               *)
LEMMA NativeInv ==
    ASSUME AdapterInv, NEW c \in Callers, NativeStep(c)
    PROVE  AdapterInv'
<1> DEFINE op == task[c].request.op
<1>1. IInv' /\ StepEffect(c)
  BY StepInv, StepFits DEF NativeStep, AdapterInv, TasksFit
<1>2. UNCHANGED adapter
  BY DEF NativeStep
<1>3. AdapterTypeOK' /\ ChainFits'
  BY <1>1, <1>2 DEF AdapterInv, AdapterTypeOK, ChainFits, adapter, IInv
<1>4. AwaitFits' /\ ManagerFits'
  <2>1. \A d \in Callers : /\ task'[d].request = task[d].request
                           /\ task'[d].phase = "idle" <=> task[d].phase = "idle"
    BY <1>1 DEF StepEffect
  <2> QED
    BY <1>2, <2>1, RequestsKept DEF AdapterInv
<1>5. ActiveMoves(op) /\ task[c].phase # "idle"
  BY <1>1 DEF StepEffect
<1>6. /\ op = "propose" => c = Queue /\ pendingProposal = None
      /\ op = "confirm" => c = Queue /\ pendingProposal # None /\ ~pendingProposal.display
  BY <1>5, CallersAsk
<1>7. TasksFit'
  <2> SUFFICES ASSUME NEW d \in Callers PROVE TaskFits(d)' /\ (task'[d].phase = "settled" => AnswerFits(d)')
    BY DEF TasksFit
  <2>1. CASE d = c
    BY <1>1, <2>1 DEF StepEffect
  <2>2. CASE d # c
    <3>1. task'[d] = task[d]
      BY <1>1, <2>2 DEF StepEffect
    <3>2. TaskFits(d)'
      BY <3>1 DEF AdapterInv, TasksFit, TaskFits
    <3>3. ASSUME task[d].phase = "settled" PROVE AnswerFits(d)'
      <4>1. AnswerFits(d)
        BY <3>3 DEF AdapterInv, TasksFit
      <4>2. /\ task[d].request.op = "propose" => d = Queue
            /\ task[d].request.op = "confirm" => d = Queue
        BY <3>3, CallersAsk
      <4>3. CASE d = Manager
        <5>1. task[d].request.op \in {"open", "create", "delete"}
          BY <3>3, <4>3 DEF AdapterInv, ManagerFits, AdapterTypeOK
        <5> QED
          BY <3>1, <4>1, <5>1 DEF AnswerFits
      <4>4. CASE d = Queue
        <5>1. active' = None \/ active' = active
          BY <1>5, <1>6, <2>2, <4>4 DEF ActiveMoves
        <5> QED
          BY <3>1, <4>1, <5>1 DEF AnswerFits
      <4> QED
        BY <4>3, <4>4
    <3> QED
      BY <3>1, <3>2, <3>3
  <2> QED
    BY <2>1, <2>2
<1>8. NoForeignProposal'
  BY <1>2, <1>5, <1>6 DEF ActiveMoves, AdapterInv, NoForeignProposal, adapter
<1>9. SignedIsNotSpendable'
  BY <1>2, <1>5, <1>6 DEF ActiveMoves, AdapterInv, SignedIsNotSpendable, Calculated, adapter
<1> QED
  BY <1>1, <1>3, <1>4, <1>7, <1>8, <1>9 DEF AdapterInv

-----------------------------------------------------------------------------
(* The chain of operations                                                 *)

(* The running operation is one of those that can be asked for.            *)
LEMMA RunningTyped ==
    ASSUME AdapterInv, chain # <<>>
    PROVE  /\ Head(chain) \in Clients
           /\ Running \in Operations
           /\ KindOf(Running) \in Kinds
<1>1. chain[1] \in Clients /\ 1 \in 1 .. Len(chain) /\ Head(chain) = chain[1]
  BY DEF AdapterInv, AdapterTypeOK
<1>2. asked[chain[1]] \in Operations
  BY <1>1 DEF AdapterInv, AdapterTypeOK, ChainFits
<1> QED
  BY <1>1, <1>2 DEF Running, KindOf, Kinds

(* An operation that is asked for waits behind those already there.        *)
LEMMA AskFits ==
    ASSUME AdapterInv, NEW w \in Clients, NEW operation \in Operations, Ask(w, operation),
           UNCHANGED <<reply, await>>
    PROVE  /\ chain' \in Seq(Clients)
           /\ asked' \in [Clients -> Operations \cup {None}]
           /\ ChainFits'
           /\ await # "none" => Running' = Running
<1>1. /\ asked' = [asked EXCEPT ![w] = operation] /\ asked[w] = None
      /\ chain' = Append(chain, w)
      /\ chain \in Seq(Clients) /\ asked \in [Clients -> Operations \cup {None}]
  BY DEF Ask, AdapterInv, AdapterTypeOK
<1>2. /\ chain' \in Seq(Clients) /\ Len(chain') = Len(chain) + 1
      /\ chain'[Len(chain) + 1] = w
      /\ \A i \in 1 .. Len(chain) : chain'[i] = chain[i] /\ chain[i] \in Clients /\ chain[i] # w
  BY <1>1 DEF AdapterInv, ChainFits
<1>3. reply[w] = None /\ asked'[w] = operation
  BY <1>1 DEF AdapterInv, ChainFits
<1>4. \A v \in Clients \ {w} : asked'[v] = asked[v]
  BY <1>1
<1>5. ChainFits'
  <2>1. \A i \in 1 .. Len(chain') : asked'[chain'[i]] # None /\ reply'[chain'[i]] = None
    BY <1>2, <1>3, <1>4 DEF AdapterInv, ChainFits
  <2>2. \A i, j \in 1 .. Len(chain') : chain'[i] = chain'[j] => i = j
    <3>1. Len(chain) \in Nat
      BY <1>1
    <3>2. \A i \in 1 .. Len(chain') : i \in 1 .. Len(chain) \/ i = Len(chain) + 1
      BY <1>2, <3>1
    <3> QED
      BY <1>2, <3>2 DEF AdapterInv, ChainFits
  <2>3. \A v \in Clients : reply'[v] # None => asked'[v] # None
    BY <1>3, <1>4 DEF AdapterInv, ChainFits
  <2>4. chain' # <<>>
    BY <1>1, <1>2
  <2> QED
    BY <2>1, <2>2, <2>3, <2>4 DEF ChainFits
<1>6. ASSUME await # "none" PROVE Running' = Running
  <2>1. chain # <<>>
    BY <1>6 DEF AdapterInv, ChainFits
  <2>2. Head(chain) = chain[1] /\ Head(chain') = chain'[1] /\ 1 \in 1 .. Len(chain)
    BY <1>1, <1>2, <2>1
  <2> QED
    BY <1>2, <1>4, <2>2 DEF Running
<1> QED
  BY <1>1, <1>2, <1>5, <1>6

(* An answer is read by a client that is in the chain no more.             *)
LEMMA ReadFits ==
    ASSUME AdapterInv, NEW w \in Clients, Read(w), UNCHANGED <<chain, await>>
    PROVE  /\ asked' \in [Clients -> Operations \cup {None}]
           /\ reply' \in [Clients -> Replies \cup {None}]
           /\ ChainFits'
           /\ await # "none" => Running' = Running
<1>1. /\ asked' = [asked EXCEPT ![w] = None]
      /\ reply' = [reply EXCEPT ![w] = None] /\ reply[w] # None
      /\ chain \in Seq(Clients)
      /\ asked \in [Clients -> Operations \cup {None}]
      /\ reply \in [Clients -> Replies \cup {None}]
  BY DEF Read, AdapterInv, AdapterTypeOK
<1>2. \A i \in 1 .. Len(chain) : chain[i] \in Clients /\ chain[i] # w
  BY <1>1 DEF AdapterInv, ChainFits
<1>3. \A v \in Clients \ {w} : asked'[v] = asked[v] /\ reply'[v] = reply[v]
  BY <1>1
<1>4. reply'[w] = None
  BY <1>1
<1>5. ChainFits'
  BY <1>2, <1>3, <1>4 DEF AdapterInv, ChainFits
<1>6. ASSUME await # "none" PROVE Running' = Running
  <2>1. chain # <<>>
    BY <1>6 DEF AdapterInv, ChainFits
  <2>2. Head(chain) = chain[1] /\ 1 \in 1 .. Len(chain)
    BY <1>1, <2>1
  <2> QED
    BY <1>2, <1>3, <2>2 DEF Running
<1> QED
  BY <1>1, <1>5, <1>6

(* An operation that settles leaves the chain, and its client an answer.   *)
LEMMA ReplyFits ==
    ASSUME AdapterInv, chain # <<>>,
           NEW outcome \in {"preview", "txids", "cancelled", "error"},
           NEW fee \in Fees \cup {None}, Reply(outcome, fee)
    PROVE  /\ chain' \in Seq(Clients)
           /\ reply' \in [Clients -> Replies \cup {None}]
           /\ ChainFits'
           /\ await' = "none" /\ UNCHANGED <<asked, manager>>
<1> DEFINE answer == [outcome |-> outcome, fee |-> fee]
<1>1. answer \in Replies
  BY DEF Replies
<1>2. reply' = [reply EXCEPT ![Head(chain)] = answer]
  BY DEF Reply
<1> HIDE DEF answer
<1>3. /\ chain' = Tail(chain) /\ await' = "none" /\ UNCHANGED <<asked, manager>>
      /\ chain \in Seq(Clients) /\ reply \in [Clients -> Replies \cup {None}]
  BY DEF Reply, AdapterInv, AdapterTypeOK
<1>4. chain' \in Seq(Clients)
  BY <1>3
<1>5. Head(chain) = chain[1] /\ chain[1] \in Clients /\ 1 \in 1 .. Len(chain)
  BY <1>3
<1>6. \A i \in 1 .. Len(chain') :
        chain'[i] = chain[i + 1] /\ i + 1 \in 1 .. Len(chain) /\ i + 1 # 1
  BY <1>3
<1>7. \A i \in 1 .. Len(chain') : chain'[i] # chain[1] /\ chain'[i] \in Clients
  BY <1>4, <1>5, <1>6 DEF AdapterInv, ChainFits
<1>8. \A v \in Clients \ {chain[1]} : reply'[v] = reply[v]
  BY <1>2, <1>3, <1>5
<1>9. \A i \in 1 .. Len(chain') : asked'[chain'[i]] # None /\ reply'[chain'[i]] = None
  BY <1>3, <1>6, <1>7, <1>8 DEF AdapterInv, ChainFits
<1>10. \A i, j \in 1 .. Len(chain') : chain'[i] = chain'[j] => i = j
  <2> SUFFICES ASSUME NEW i \in 1 .. Len(chain'), NEW j \in 1 .. Len(chain'),
                      chain'[i] = chain'[j]
               PROVE  i = j
    OBVIOUS
  <2>1. chain[i + 1] = chain[j + 1]
    BY <1>6
  <2>2. i + 1 = j + 1
    BY <1>6, <2>1 DEF AdapterInv, ChainFits
  <2> QED
    BY <2>2
<1>11. \A v \in Clients : reply'[v] # None => asked'[v] # None
  BY <1>3, <1>5, <1>8 DEF AdapterInv, ChainFits
<1>12. ChainFits'
  BY <1>3, <1>9, <1>10, <1>11 DEF ChainFits
<1>13. reply' \in [Clients -> Replies \cup {None}]
  BY <1>1, <1>2, <1>3
<1> QED
  BY <1>3, <1>4, <1>12, <1>13

-----------------------------------------------------------------------------
(* Steps of the main process                                               *)

(* What leaves the registry alone keeps what is said of it.                *)
LEMMA RegistryKept ==
    ASSUME AdapterInv, UNCHANGED registry
    PROVE  IInv' /\ TasksFit' /\ active' = active
<1>1. IInv'
  BY StutterInv DEF AdapterInv, registry
<1>2. UNCHANGED <<task, active>>
  BY DEF registry, vars
<1>3. TasksFit'
  BY <1>2 DEF AdapterInv, TasksFit, TaskFits, AnswerFits
<1> QED
  BY <1>1, <1>2, <1>3

(* A native call of one of the two callers, or the reading of its result.  *)
LEMMA CallFits ==
    ASSUME AdapterInv, NEW c \in Callers, NEW request \in Requests, Call(c, request)
    PROVE  /\ IInv' /\ TasksFit' /\ active' = active
           /\ task'[c].phase = "waiting" /\ task'[c].request = request
           /\ \A d \in Callers \ {c} : task'[d] = task[d]
<1>1. IInv' /\ active' = active
  BY CallInv DEF AdapterInv, Call
<1>2. task' = [task EXCEPT ![c] = [request |-> request, phase |-> "waiting", result |-> None]]
  BY DEF Call
<1>3. /\ task'[c].phase = "waiting" /\ task'[c].request = request
      /\ \A d \in Callers \ {c} : task'[d] = task[d]
  BY <1>2 DEF AdapterInv, IInv, TypeOK
<1>4. TasksFit'
  BY <1>1, <1>3 DEF AdapterInv, TasksFit, TaskFits, AnswerFits
<1> QED
  BY <1>1, <1>3, <1>4

(* Reading a settled result frees the caller and touches nothing else.     *)
LEMMA CollectFits ==
    ASSUME AdapterInv, NEW c \in Callers, Collect(c)
    PROVE  /\ IInv' /\ TasksFit' /\ active' = active
           /\ task'[c].phase = "idle"
           /\ \A d \in Callers \ {c} : task'[d] = task[d]
<1>1. IInv' /\ active' = active
  BY CollectInv DEF AdapterInv, Collect
<1>2. /\ task'[c].phase = "idle"
      /\ \A d \in Callers \ {c} : task'[d] = task[d]
  BY DEF Collect, NoTask, AdapterInv, IInv, TypeOK
<1>3. TasksFit'
  BY <1>1, <1>2 DEF AdapterInv, TasksFit, TaskFits, AnswerFits
<1> QED
  BY <1>1, <1>2, <1>3

(* A running operation calls native: it keeps AdapterInv if the preview it *)
(* leaves fits the registry, and the call is what it is said to await.     *)
LEMMA GoesOnInv ==
    ASSUME AdapterInv, chain # <<>>, NEW request \in Requests,
           NEW call \in {"discard", "propose", "cleanup", "confirm", "release"},
           GoesOn(call, request), pendingProposal' \in PendingProposals \cup {None},
           active' = active => NoForeignProposal' /\ SignedIsNotSpendable',
           call \in {"discard", "cleanup", "release"} => request = CancelRequest',
           call = "propose" =>
             /\ request = [op |-> "propose", gen |-> 0, kind |-> KindOf(Running)]
             /\ pendingProposal' = None,
           call = "confirm" =>
             /\ pendingProposal' # None /\ ~pendingProposal'.display
             /\ request = [op |-> "confirm", gen |-> pendingProposal'.id,
                           kind |-> pendingProposal'.operation]
    PROVE  AdapterInv'
<1>1. await' = call /\ UNCHANGED <<chain, asked, reply, manager>>
  BY DEF GoesOn
<1>2. /\ IInv' /\ TasksFit' /\ active' = active
      /\ task'[Queue].phase = "waiting" /\ task'[Queue].request = request
      /\ task'[Manager] = task[Manager]
  BY CallFits DEF GoesOn
<1>3. AdapterTypeOK'
  BY <1>1, <1>2 DEF AdapterInv, AdapterTypeOK, IInv
<1>4. ChainFits'
  BY <1>1 DEF AdapterInv, ChainFits
<1>5. ManagerFits'
  BY <1>1, <1>2 DEF AdapterInv, ManagerFits
<1>6. KindOf(Running)' = KindOf(Running)
  BY <1>1 DEF KindOf, Running
<1>7. AwaitFits'
  BY <1>1, <1>2, <1>6 DEF AwaitFits
<1> QED
  BY <1>2, <1>3, <1>4, <1>5, <1>7 DEF AdapterInv

(* A running operation reads native's answer and settles.                  *)
LEMMA SettlesInv ==
    ASSUME AdapterInv, await # "none", Collect(Queue),
           NEW outcome \in {"preview", "txids", "cancelled", "error"},
           NEW fee \in Fees \cup {None}, Reply(outcome, fee),
           pendingProposal' \in PendingProposals \cup {None},
           active' = active => NoForeignProposal' /\ SignedIsNotSpendable'
    PROVE  AdapterInv'
<1>1. chain # <<>>
  BY DEF AdapterInv, ChainFits
<1>2. /\ chain' \in Seq(Clients)
      /\ reply' \in [Clients -> Replies \cup {None}]
      /\ ChainFits'
      /\ await' = "none" /\ UNCHANGED <<asked, manager>>
  BY <1>1, ReplyFits
<1>3. /\ IInv' /\ TasksFit' /\ active' = active
      /\ task'[Queue].phase = "idle" /\ task'[Manager] = task[Manager]
  BY CollectFits
<1>4. AdapterTypeOK'
  BY <1>2, <1>3 DEF AdapterInv, AdapterTypeOK, IInv
<1>5. ManagerFits' /\ AwaitFits'
  BY <1>2, <1>3 DEF AdapterInv, ManagerFits, AwaitFits
<1> QED
  BY <1>2, <1>3, <1>4, <1>5 DEF AdapterInv

(* With no proposal in native, the preview may be dropped; a preview that  *)
(* is kept fits as it did.                                                 *)
LEMMA PreviewKept ==
    ASSUME AdapterInv, active' = active,
           \/ pendingProposal' = pendingProposal
           \/ pendingProposal' = None /\ active = None
    PROVE  /\ NoForeignProposal' /\ SignedIsNotSpendable'
           /\ pendingProposal' \in PendingProposals \cup {None}
BY DEF AdapterInv, AdapterTypeOK, NoForeignProposal, SignedIsNotSpendable, Calculated

(* What a settled call has answered the running operation.                 *)
LEMMA ResultFits ==
    ASSUME AdapterInv, NEW call \in {"discard", "propose", "cleanup", "confirm", "release"},
           Awaits(call)
    PROVE  /\ await # "none" /\ chain # <<>>
           /\ Result \in Results
           /\ call \in {"discard", "cleanup", "release"} =>
                /\ Result.outcome # "preview"
                /\ Result.outcome # "error" => active = None
           /\ call = "confirm" =>
                /\ pendingProposal # None /\ Result.outcome # "preview"
                /\ Result.outcome = "review" \/ Ends(Result.outcome) => active = None
           /\ call = "propose" =>
                /\ pendingProposal = None
                /\ Result.outcome = "preview" =>
                     /\ Result.gen \in 1 .. MaxGeneration /\ Result.fee \in Fees
                     /\ active # None => /\ active.generation = Result.gen
                                        /\ active.fee = Result.fee
                                        /\ active.kind = KindOf(Running)
<1>1. await = call /\ task[Queue].phase = "settled" /\ await # "none" /\ chain # <<>>
  BY DEF Awaits, AdapterInv, ChainFits
<1>2. AnswerFits(Queue)
  BY <1>1 DEF AdapterInv, TasksFit
<1>3. /\ call \in {"discard", "cleanup", "release"} => task[Queue].request.op = "cancel"
      /\ call = "confirm" => pendingProposal # None /\ task[Queue].request.op = "confirm"
      /\ call = "propose" => pendingProposal = None /\ task[Queue].request.kind = KindOf(Running)
  BY <1>1 DEF AdapterInv, AwaitFits, CancelRequest
<1> QED
  BY <1>1, <1>2, <1>3 DEF AnswerFits, Result

(* wcash_cancel_proposal can be asked for, whatever the preview is.        *)
LEMMA CancelTyped ==
    ASSUME pendingProposal \in PendingProposals \cup {None}
    PROVE  CancelRequest \in Requests
BY DEF PendingProposals, CancelRequest, Requests

(* An operation that is answered without asking native.                    *)
LEMMA AnsweredHereInv ==
    ASSUME AdapterInv, StagesAgain \/ ConfirmThrows
    PROVE  AdapterInv'
<1>1. /\ chain # <<>> /\ await = "none" /\ UNCHANGED <<registry, pendingProposal>>
  BY DEF StagesAgain, ConfirmThrows, Begins
<1>2. \E outcome \in {"preview", "txids", "cancelled", "error"}, fee \in Fees \cup {None} :
        Reply(outcome, fee)
  BY DEF StagesAgain, ConfirmThrows, SamePreview, AdapterInv, AdapterTypeOK, PendingProposals
<1>3. /\ chain' \in Seq(Clients)
      /\ reply' \in [Clients -> Replies \cup {None}]
      /\ ChainFits'
      /\ await' = "none" /\ UNCHANGED <<asked, manager>>
  BY <1>1, <1>2, ReplyFits
<1>4. IInv' /\ TasksFit' /\ active' = active
  BY <1>1, RegistryKept
<1>5. NoForeignProposal' /\ SignedIsNotSpendable'
  BY <1>1, <1>4, PreviewKept
<1>6. AdapterTypeOK'
  BY <1>1, <1>3, <1>4 DEF AdapterInv, AdapterTypeOK, IInv
<1>7. task' = task
  BY <1>1 DEF registry, vars
<1>8. AwaitFits' /\ ManagerFits'
  BY <1>1, <1>3, <1>7 DEF AdapterInv, AwaitFits, ManagerFits
<1> QED
  BY <1>3, <1>4, <1>5, <1>6, <1>8 DEF AdapterInv

(* The continuations that ask native to cancel the preview.                *)
LEMMA CancelsInv ==
    ASSUME AdapterInv,
           \/ StageDiscards \/ ProposeCleansUp \/ ConfirmDiscards \/ ConfirmReleases
           \/ CancelDiscards
    PROVE  AdapterInv'
<1>1. PICK call \in {"discard", "cleanup", "release"} : GoesOn(call, CancelRequest)
  BY DEF StageDiscards, ProposeCleansUp, ConfirmDiscards, ConfirmReleases, CancelDiscards
<1>2. pendingProposal' = pendingProposal
  BY DEF StageDiscards, ProposeCleansUp, ConfirmDiscards, ConfirmReleases, CancelDiscards
<1>3. chain # <<>>
  BY DEF StageDiscards, ProposeCleansUp, ConfirmDiscards, ConfirmReleases, CancelDiscards,
     Begins, Awaits, AdapterInv, ChainFits
<1>4. CancelRequest' = CancelRequest /\ CancelRequest \in Requests
  BY <1>2, CancelTyped DEF CancelRequest, AdapterInv, AdapterTypeOK
<1>5. /\ pendingProposal' \in PendingProposals \cup {None}
      /\ active' = active => NoForeignProposal' /\ SignedIsNotSpendable'
  BY <1>2, PreviewKept DEF AdapterInv, AdapterTypeOK
<1> QED
  BY <1>1, <1>3, <1>4, <1>5, GoesOnInv

(* The preview was discarded: the operation proposes, or its balance fails. *)
LEMMA ProposesInv ==
    ASSUME AdapterInv, Proposes \/ BalanceFails
    PROVE  AdapterInv'
<1>1. Awaits("discard") /\ Discarded /\ pendingProposal' = None
  BY DEF Proposes, BalanceFails, Discarded
<1>2. chain # <<>> /\ active = None
  BY <1>1, ResultFits DEF Discarded
<1>3. /\ pendingProposal' \in PendingProposals \cup {None}
      /\ active' = active => NoForeignProposal' /\ SignedIsNotSpendable'
  BY <1>1, <1>2, PreviewKept
<1>4. CASE Proposes
  <2> DEFINE request == [op |-> "propose", gen |-> 0, kind |-> KindOf(Running)]
  <2>1. request \in Requests
    BY <1>2, RunningTyped DEF Requests
  <2>2. GoesOn("propose", request)
    BY <1>4 DEF Proposes
  <2> QED
    BY <1>1, <1>2, <1>3, <2>1, <2>2, GoesOnInv
<1>5. CASE BalanceFails
  <2> DEFINE request == [op |-> "cancel", gen |-> 0, kind |-> None]
  <2>1. request \in Requests /\ request = CancelRequest'
    BY <1>1 DEF Requests, CancelRequest
  <2>2. GoesOn("cleanup", request)
    BY <1>5 DEF BalanceFails
  <2> QED
    BY <1>2, <1>3, <2>1, <2>2, GoesOnInv
<1> QED
  BY <1>4, <1>5

(* confirm hands native the exact binding of the preview, undisplayed.     *)
LEMMA ConfirmCallsInv ==
    ASSUME AdapterInv, ConfirmCalls
    PROVE  AdapterInv'
<1> DEFINE request == [op |-> "confirm", gen |-> pendingProposal.id,
                       kind |-> pendingProposal.operation]
<1>1. /\ chain # <<>> /\ pendingProposal \in PendingProposals
      /\ pendingProposal' = [pendingProposal EXCEPT !.display = FALSE]
  BY DEF ConfirmCalls, Begins, AdapterInv, AdapterTypeOK
<1>2. /\ pendingProposal' \in PendingProposals /\ pendingProposal' # None
      /\ ~pendingProposal'.display
      /\ pendingProposal'.id = pendingProposal.id
      /\ pendingProposal'.operation = pendingProposal.operation
      /\ pendingProposal'.feeZat = pendingProposal.feeZat
  BY <1>1 DEF PendingProposals
<1>3. request \in Requests
  BY <1>1 DEF Requests, PendingProposals
<1>4. GoesOn("confirm", request) /\ pendingProposal # None
  BY DEF ConfirmCalls
<1>5. active' = active => NoForeignProposal' /\ SignedIsNotSpendable'
  BY <1>2, <1>4 DEF AdapterInv, NoForeignProposal, SignedIsNotSpendable, Calculated
<1> QED
  BY <1>1, <1>2, <1>3, <1>4, <1>5, GoesOnInv

(* The continuations that read a cancellation's answer and settle.         *)
LEMMA CancelledInv ==
    ASSUME AdapterInv,
           DiscardRejected \/ DiscardMismatch \/ DiscardEnds \/ CleanupEnds \/ ReleaseEnds
    PROVE  AdapterInv'
<1>1. PICK call \in {"discard", "cleanup", "release"} : Awaits(call)
  BY DEF DiscardRejected, DiscardMismatch, DiscardEnds, Discarded, CleanupEnds, ReleaseEnds
<1>2. await # "none" /\ (Result.outcome # "error" => active = None)
  BY <1>1, ResultFits
<1>3. Collect(Queue) /\ \E outcome \in {"cancelled", "error"} : Reply(outcome, None)
  BY DEF DiscardRejected, DiscardMismatch, DiscardEnds, CleanupEnds, ReleaseEnds
<1>4. pendingProposal' = pendingProposal \/ (pendingProposal' = None /\ active = None)
  BY <1>2 DEF DiscardRejected, DiscardMismatch, DiscardEnds, Discarded, CleanupEnds, ReleaseEnds
<1>5. active' = active
  BY <1>3 DEF Collect
<1>6. /\ pendingProposal' \in PendingProposals \cup {None}
      /\ NoForeignProposal' /\ SignedIsNotSpendable'
  BY <1>4, <1>5, PreviewKept
<1> QED
  BY <1>2, <1>3, <1>6, SettlesInv

(* The preview the renderer is shown is the proposal that native staged.   *)
LEMMA ProposeReturnsInv ==
    ASSUME AdapterInv, ProposeReturns
    PROVE  AdapterInv'
<1>1. /\ Awaits("propose") /\ Result.outcome = "preview" /\ Collect(Queue)
      /\ Reply("preview", Result.fee)
      /\ pendingProposal' = [id |-> Result.gen, operation |-> KindOf(Running),
            feeZat |-> Result.fee, requestKey |-> Running.key, display |-> Running.op = "send"]
  BY DEF ProposeReturns
<1>2. /\ await # "none" /\ chain # <<>> /\ pendingProposal = None
      /\ Result.gen \in 1 .. MaxGeneration /\ Result.fee \in Fees
      /\ active # None => /\ active.generation = Result.gen
                         /\ active.fee = Result.fee
                         /\ active.kind = KindOf(Running)
  BY <1>1, ResultFits
<1>3. Running.key \in Keys \cup {None} /\ KindOf(Running) \in Kinds
  BY <1>2, RunningTyped DEF Operations
<1>4. pendingProposal' \in PendingProposals
  BY <1>1, <1>2, <1>3 DEF PendingProposals
<1>5. /\ pendingProposal'.id = Result.gen /\ pendingProposal'.feeZat = Result.fee
      /\ pendingProposal'.operation = KindOf(Running)
  BY <1>1
<1>6. active' = active => NoForeignProposal'
  BY <1>2, <1>5 DEF NoForeignProposal
<1>7. active' = active => SignedIsNotSpendable'
  BY <1>2 DEF AdapterInv, SignedIsNotSpendable, Calculated
<1> QED
  BY <1>1, <1>2, <1>4, <1>6, <1>7, SettlesInv

(* A confirmation that native answered.                                    *)
LEMMA ConfirmReturnsInv ==
    ASSUME AdapterInv, ConfirmReturns
    PROVE  AdapterInv'
<1>1. Awaits("confirm") /\ Collect(Queue) /\ active' = active
  BY DEF ConfirmReturns, Collect
<1>2. /\ await # "none" /\ Result \in Results
      /\ Result.outcome = "review" \/ Ends(Result.outcome) => active = None
  BY <1>1, ResultFits
<1>3. \E outcome \in {"txids", "error"}, fee \in Fees \cup {None} : Reply(outcome, fee)
  BY <1>2 DEF ConfirmReturns, Results
<1>4. pendingProposal' = pendingProposal \/ (pendingProposal' = None /\ active = None)
  BY <1>2 DEF ConfirmReturns
<1>5. /\ pendingProposal' \in PendingProposals \cup {None}
      /\ NoForeignProposal' /\ SignedIsNotSpendable'
  BY <1>1, <1>4, PreviewKept
<1> QED
  BY <1>1, <1>2, <1>3, <1>5, SettlesInv

(* Every continuation of the chain.                                        *)
LEMMA ContinueInv ==
    ASSUME AdapterInv, Continue
    PROVE  AdapterInv'
BY AnsweredHereInv, CancelsInv, ProposesInv, ConfirmCallsInv, CancelledInv, ProposeReturnsInv,
   ConfirmReturnsInv DEF Continue

(* A step that leaves the preview, the running operation and what both     *)
(* callers asked native.                                                   *)
LEMMA BesideInv ==
    ASSUME AdapterInv, IInv', TasksFit', active' = active,
           UNCHANGED <<pendingProposal, await>>, task'[Queue] = task[Queue],
           chain' \in Seq(Clients), asked' \in [Clients -> Operations \cup {None}],
           reply' \in [Clients -> Replies \cup {None}], ChainFits',
           manager' \in {"idle", "opening", "discarding", "deleting"}, ManagerFits',
           await # "none" => Running' = Running
    PROVE  AdapterInv'
<1>1. AdapterTypeOK'
  BY DEF AdapterInv, AdapterTypeOK, IInv
<1>2. CancelRequest' = CancelRequest /\ (await # "none" => KindOf(Running)' = KindOf(Running))
  BY DEF CancelRequest, KindOf
<1>3. AwaitFits'
  BY <1>2 DEF AdapterInv, AwaitFits
<1>4. NoForeignProposal' /\ SignedIsNotSpendable'
  BY PreviewKept
<1> QED
  BY <1>1, <1>3, <1>4 DEF AdapterInv

(* A client asks for an operation, or reads its answer.                    *)
LEMMA ClientInv ==
    ASSUME AdapterInv, NEW w \in Clients,
           ReadReply(w) \/ \E operation \in Operations : Request(w, operation)
    PROVE  AdapterInv'
<1>1. UNCHANGED <<registry, pendingProposal, await, manager>>
  BY DEF ReadReply, Request
<1>2. IInv' /\ TasksFit' /\ active' = active /\ task' = task
  BY <1>1, RegistryKept DEF registry, vars
<1>3. ManagerFits' /\ manager' \in {"idle", "opening", "discarding", "deleting"}
  BY <1>1, <1>2 DEF AdapterInv, ManagerFits, AdapterTypeOK
<1>4. CASE ReadReply(w)
  <2>1. Read(w) /\ UNCHANGED <<chain, await>>
    BY <1>4 DEF ReadReply
  <2> QED
    BY <1>1, <1>2, <1>3, <2>1, ReadFits, BesideInv DEF AdapterInv, AdapterTypeOK
<1>5. ASSUME NEW operation \in Operations, Request(w, operation) PROVE AdapterInv'
  <2>1. Ask(w, operation) /\ UNCHANGED <<reply, await>>
    BY <1>5 DEF Request
  <2> QED
    BY <1>1, <1>2, <1>3, <2>1, AskFits, BesideInv DEF AdapterInv, AdapterTypeOK
<1> QED
  BY <1>4, <1>5

(* A call of the wallet manager, which does not go through the chain.      *)
LEMMA ManagerCallFits ==
    ASSUME AdapterInv, NEW op \in {"open", "create", "delete"},
           Call(Manager, [op |-> op, gen |-> 0, kind |-> None]),
           manager' = IF op = "delete" THEN "deleting" ELSE "opening"
    PROVE  /\ IInv' /\ TasksFit' /\ active' = active
           /\ task'[Queue] = task[Queue] /\ ManagerFits'
<1> DEFINE request == [op |-> op, gen |-> 0, kind |-> None]
<1>1. request \in Requests /\ request.op = op
  BY DEF Requests
<1> HIDE DEF request
<1>2. Call(Manager, request)
  BY DEF request
<1>3. /\ IInv' /\ TasksFit' /\ active' = active
      /\ task'[Manager].phase = "waiting" /\ task'[Manager].request = request
      /\ task'[Queue] = task[Queue]
  BY <1>1, <1>2, CallFits
<1>4. ManagerFits'
  BY <1>1, <1>3 DEF ManagerFits
<1> QED
  BY <1>3, <1>4

(* The wallet manager's actions.                                           *)
LEMMA ManagerInv ==
    ASSUME AdapterInv,
           \/ ManagerContinues \/ RequestsDelete
           \/ \E op \in {"open", "create"} : OpensWallet(op)
    PROVE  AdapterInv'
<1>1. ASSUME NEW op \in {"open", "create"}, OpensWallet(op) PROVE AdapterInv'
  <2>1. /\ UNCHANGED <<pendingProposal, await, chain, asked, reply>>
        /\ manager' = "opening" /\ Call(Manager, [op |-> op, gen |-> 0, kind |-> None])
    BY <1>1 DEF OpensWallet, Manages
  <2>2. /\ IInv' /\ TasksFit' /\ active' = active
        /\ task'[Queue] = task[Queue] /\ ManagerFits'
    BY <2>1, ManagerCallFits
  <2>3. ChainFits' /\ Running' = Running
    BY <2>1 DEF AdapterInv, ChainFits, Running
  <2> QED
    BY <2>1, <2>2, <2>3, BesideInv DEF AdapterInv, AdapterTypeOK
<1>2. CASE RequestsDelete
  <2> DEFINE operation == [op |-> "cancel", key |-> None]
  <2>1. /\ UNCHANGED <<registry, pendingProposal, await, reply>>
        /\ manager = "idle" /\ manager' = "discarding" /\ Ask(Manager, operation)
    BY <1>2 DEF RequestsDelete, Manages
  <2>2. operation \in Operations
    BY DEF Operations
  <2>3. IInv' /\ TasksFit' /\ active' = active /\ task' = task
    BY <2>1, RegistryKept DEF registry, vars
  <2>4. ManagerFits'
    BY <2>1, <2>3 DEF AdapterInv, ManagerFits
  <2> QED
    BY <2>1, <2>2, <2>3, <2>4, AskFits, BesideInv DEF AdapterInv, AdapterTypeOK
<1>3. CASE DeleteStops
  <2>1. /\ UNCHANGED <<registry, pendingProposal, await, chain>>
        /\ manager = "discarding" /\ manager' = "idle" /\ Read(Manager)
    BY <1>3 DEF DeleteStops, Manages
  <2>2. IInv' /\ TasksFit' /\ active' = active /\ task' = task
    BY <2>1, RegistryKept DEF registry, vars
  <2>3. ManagerFits'
    BY <2>1, <2>2 DEF AdapterInv, ManagerFits
  <2> QED
    BY <2>1, <2>2, <2>3, ReadFits, BesideInv DEF AdapterInv, AdapterTypeOK
<1>4. CASE DeletesNative
  <2>1. /\ UNCHANGED <<pendingProposal, await, chain>>
        /\ manager' = "deleting" /\ Read(Manager)
        /\ Call(Manager, [op |-> "delete", gen |-> 0, kind |-> None])
    BY <1>4 DEF DeletesNative, Manages
  <2>2. /\ IInv' /\ TasksFit' /\ active' = active
        /\ task'[Queue] = task[Queue] /\ ManagerFits'
    BY <2>1, ManagerCallFits
  <2> QED
    BY <2>1, <2>2, ReadFits, BesideInv DEF AdapterInv, AdapterTypeOK
<1>5. CASE ManagerEnds
  <2>1. /\ UNCHANGED <<pendingProposal, await, chain, asked, reply>>
        /\ manager' = "idle" /\ Collect(Manager)
    BY <1>5 DEF ManagerEnds, Manages
  <2>2. /\ IInv' /\ TasksFit' /\ active' = active
        /\ task'[Manager].phase = "idle" /\ task'[Queue] = task[Queue]
    BY <2>1, CollectFits
  <2>3. ManagerFits'
    BY <2>1, <2>2 DEF ManagerFits
  <2>4. ChainFits' /\ Running' = Running
    BY <2>1 DEF AdapterInv, ChainFits, Running
  <2> QED
    BY <2>1, <2>2, <2>3, <2>4, BesideInv DEF AdapterInv, AdapterTypeOK
<1> QED
  BY <1>1, <1>2, <1>3, <1>4, <1>5 DEF ManagerContinues

-----------------------------------------------------------------------------
(* The theorems                                                            *)

(* A process that has just started, first or again.                        *)
LEMMA FreshFits ==
    ASSUME IInv, task = [c \in Callers |-> NoTask], active = None, pendingProposal = None,
           chain = <<>>, asked = Fresh, reply = Fresh, await = "none", manager = "idle"
    PROVE  AdapterInv
<1>1. \A c \in Callers : task[c].phase = "idle"
  BY DEF NoTask
<1>2. AdapterTypeOK
  BY DEF IInv, AdapterTypeOK, Fresh
<1>3. ChainFits
  BY DEF ChainFits, Fresh
<1>4. AwaitFits /\ ManagerFits /\ TasksFit
  BY <1>1 DEF AwaitFits, ManagerFits, TasksFit, TaskFits
<1> QED
  BY <1>2, <1>3, <1>4 DEF AdapterInv, NoForeignProposal, SignedIsNotSpendable, Calculated

(* The first start.                                                        *)
LEMMA AdapterInitInv == AdapterInit => AdapterInv
BY InitInv, FreshFits DEF AdapterInit, Init

(* A restart: the invariant is one of a fresh process.                     *)
LEMMA AdapterRestartInv ==
    ASSUME AdapterInv, AdapterRestart
    PROVE  AdapterInv'
<1>1. IInv'
  BY RestartInv DEF AdapterInv, AdapterRestart
<1>2. /\ task' = [c \in Callers |-> NoTask] /\ active' = None /\ pendingProposal' = None
      /\ chain' = <<>> /\ asked' = Fresh /\ reply' = Fresh /\ await' = "none"
      /\ manager' = "idle"
  BY DEF AdapterRestart, Restart
<1>3. \A c \in Callers : task'[c].phase = "idle"
  BY <1>2 DEF NoTask
<1>4. AdapterTypeOK'
  BY <1>1, <1>2 DEF IInv, AdapterTypeOK, Fresh
<1>5. ChainFits'
  BY <1>2 DEF ChainFits, Fresh
<1>6. AwaitFits' /\ ManagerFits' /\ TasksFit'
  BY <1>2, <1>3 DEF AwaitFits, ManagerFits, TasksFit, TaskFits
<1> QED
  BY <1>1, <1>2, <1>4, <1>5, <1>6 DEF AdapterInv, NoForeignProposal, SignedIsNotSpendable,
     Calculated

(* The chain of blocks settles a transaction: nothing else notices.        *)
LEMMA AdapterResolveInv ==
    ASSUME AdapterInv, NEW p \in pending, Resolve(p), UNCHANGED adapter
    PROVE  AdapterInv'
<1>1. IInv' /\ task' = task /\ active' = active
  BY ResolveInv DEF AdapterInv, Resolve, memory
<1>2. TasksFit' /\ ManagerFits' /\ ChainFits'
  BY <1>1 DEF AdapterInv, TasksFit, TaskFits, AnswerFits, ManagerFits, ChainFits, adapter
<1>3. Running' = Running
  BY DEF Running, adapter
<1> QED
  BY <1>1, <1>2, <1>3, BesideInv DEF AdapterInv, AdapterTypeOK, adapter

(* The invariant is inductive.                                             *)
LEMMA AdapterNextInv == AdapterInv /\ [AdapterNext]_adapterVars => AdapterInv'
<1> SUFFICES ASSUME AdapterInv, [AdapterNext]_adapterVars PROVE AdapterInv'
  OBVIOUS
<1>1. CASE UNCHANGED adapterVars
  <2>1. UNCHANGED registry /\ UNCHANGED adapter /\ task' = task
    BY <1>1 DEF adapterVars, registry, vars
  <2>2. IInv' /\ TasksFit' /\ active' = active
    BY <2>1, RegistryKept
  <2>3. ManagerFits' /\ ChainFits' /\ Running' = Running
    BY <2>1 DEF AdapterInv, ManagerFits, ChainFits, adapter, Running
  <2> QED
    BY <2>1, <2>2, <2>3, BesideInv DEF AdapterInv, AdapterTypeOK, adapter
<1>2. ASSUME NEW w \in Clients,
             ReadReply(w) \/ \E operation \in Operations : Request(w, operation)
      PROVE  AdapterInv'
  BY <1>2, ClientInv
<1>3. CASE \/ ManagerContinues \/ RequestsDelete
           \/ \E op \in {"open", "create"} : OpensWallet(op)
  BY <1>3, ManagerInv
<1>4. ASSUME NEW c \in Callers, NativeStep(c) PROVE AdapterInv'
  BY <1>4, NativeInv
<1>5. CASE (\E p \in pending : Resolve(p)) /\ UNCHANGED adapter
  BY <1>5, AdapterResolveInv
<1> QED
  BY <1>1, <1>2, <1>3, <1>4, <1>5, ContinueInv, AdapterRestartInv DEF AdapterNext

(* AdapterInv holds in every state of every behaviour.                     *)
THEOREM AdapterInvariant == AdapterSpec => []AdapterInv
BY AdapterInitInv, AdapterNextInv, PTL DEF AdapterSpec

(* Every variable of the adapter and of the registry below keeps its type. *)
THEOREM AdapterTypeCorrect == AdapterSpec => []AdapterTypeOK
<1>1. AdapterInv => AdapterTypeOK
  BY DEF AdapterInv
<1> QED
  BY <1>1, AdapterInvariant, PTL

(* The preview that is confirmed or cancelled is the transaction native    *)
(* would sign.                                                             *)
THEOREM PreviewIsNative == AdapterSpec => []NoForeignProposal
<1>1. AdapterInv => NoForeignProposal
  BY DEF AdapterInv
<1> QED
  BY <1>1, AdapterInvariant, PTL

(* A calculated transaction that was not decided keeps its exact binding.  *)
THEOREM CalculatedRetryable == AdapterSpec => []CalculatedIsRetryable
<1>1. AdapterInv => CalculatedIsRetryable
  BY DEF AdapterInv, SignedIsNotSpendable, CalculatedIsRetryable
<1> QED
  BY <1>1, AdapterInvariant, PTL

(* The inputs of a signed transaction are never shown as spendable.        *)
THEOREM SignedNotSpendable == AdapterSpec => []SignedIsNotSpendable
<1>1. AdapterInv => SignedIsNotSpendable
  BY DEF AdapterInv
<1> QED
  BY <1>1, AdapterInvariant, PTL

(* The main process uses native as the registry's specification lets its   *)
(* callers use it: every step is one of the registry, or none.             *)
LEMMA AdapterMaps == AdapterInv /\ [AdapterNext]_adapterVars => [Next]_vars
<1> SUFFICES ASSUME AdapterInv, [AdapterNext]_adapterVars PROVE [Next]_vars
  OBVIOUS
<1> DEFINE Calls(c) == \E request \in Requests : Call(c, request)
<1>1. ASSUME NEW c \in Callers, Calls(c) \/ Collect(c) \/ Step(c) PROVE [Next]_vars
  BY <1>1 DEF Next
<1>2. CASE UNCHANGED vars
  BY <1>2
<1>3. CASE StagesAgain \/ ConfirmThrows \/ RequestsDelete \/ DeleteStops
  BY <1>2, <1>3 DEF StagesAgain, ConfirmThrows, RequestsDelete, DeleteStops, registry
<1>4. ASSUME NEW w \in Clients,
             ReadReply(w) \/ \E operation \in Operations : Request(w, operation)
      PROVE  [Next]_vars
  BY <1>2, <1>4 DEF ReadReply, Request, registry
<1>5. CASE \/ StageDiscards \/ ProposeCleansUp \/ ConfirmDiscards \/ ConfirmReleases
           \/ CancelDiscards
  <2>1. CancelRequest \in Requests
    BY CancelTyped DEF AdapterInv, AdapterTypeOK
  <2>2. Calls(Queue)
    BY <1>5, <2>1 DEF StageDiscards, ProposeCleansUp, ConfirmDiscards, ConfirmReleases,
       CancelDiscards, GoesOn
  <2> QED
    BY <1>1, <2>2
<1>6. CASE Proposes
  <2>1. Awaits("discard")
    BY <1>6 DEF Proposes, Discarded
  <2>2. KindOf(Running) \in Kinds
    BY <2>1, ResultFits, RunningTyped
  <2>3. Calls(Queue)
    BY <1>6, <2>2 DEF Proposes, GoesOn, Requests
  <2> QED
    BY <1>1, <2>3
<1>7. CASE BalanceFails
  <2>1. Calls(Queue)
    BY <1>7 DEF BalanceFails, GoesOn, Requests
  <2> QED
    BY <1>1, <2>1
<1>8. CASE ConfirmCalls
  <2>1. pendingProposal \in PendingProposals
    BY <1>8 DEF ConfirmCalls, AdapterInv, AdapterTypeOK
  <2>2. Calls(Queue)
    BY <1>8, <2>1 DEF ConfirmCalls, GoesOn, Requests, PendingProposals
  <2> QED
    BY <1>1, <2>2
<1>9. CASE \/ DiscardRejected \/ DiscardMismatch \/ DiscardEnds \/ ProposeReturns \/ CleanupEnds
           \/ ReleaseEnds \/ ConfirmReturns
  <2>1. Collect(Queue)
    BY <1>9 DEF DiscardRejected, DiscardMismatch, DiscardEnds, ProposeReturns, CleanupEnds,
       ReleaseEnds, ConfirmReturns
  <2> QED
    BY <1>1, <2>1
<1>10. ASSUME DeletesNative \/ ManagerEnds \/ \E op \in {"open", "create"} : OpensWallet(op)
       PROVE  [Next]_vars
  <2>1. Calls(Manager) \/ Collect(Manager)
    BY <1>10 DEF DeletesNative, ManagerEnds, OpensWallet, Requests
  <2> QED
    BY <1>1, <2>1
<1>11. CASE (\E p \in pending : Resolve(p)) \/ Restart
  BY <1>11 DEF Next, Environment
<1>12. CASE UNCHANGED adapterVars
  BY <1>2, <1>12 DEF adapterVars
<1> HIDE DEF Calls
<1> QED
  BY <1>1, <1>3, <1>4, <1>5, <1>6, <1>7, <1>8, <1>9, <1>10, <1>11, <1>12
     DEF AdapterNext, Continue, ManagerContinues, NativeStep, AdapterRestart

(* So every behaviour of the adapter is one of the registry, and all that  *)
(* is proved of the registry holds of it: the locks, the reviewed fee, the *)
(* single verdict, and the lifecycle it implements.                        *)
THEOREM AdapterImplementsRegistry == AdapterSpec => Spec
BY AdapterInvariant, AdapterMaps, PTL DEF AdapterSpec, AdapterInit, Spec

(* In particular: driven by the chain of operations and by the wallet      *)
(* manager, native keeps the promise of ProposalLifecycle (stage, sign,    *)
(* send at the previewed fee, decide once).                                *)
THEOREM AdapterImplementsLifecycle == AdapterSpec => ImplementsLifecycle
BY AdapterImplementsRegistry, Refinement, PTL
================================================================================
