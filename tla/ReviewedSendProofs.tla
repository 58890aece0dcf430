-------------------------- MODULE ReviewedSendProofs --------------------------
(***************************************************************************)
(* Safety of ReviewedSend, for any payment lists, fees, effects, runs of   *)
(* the Shield button and bounds, and that the renderer uses the main       *)
(* process as ProposalAdapter allows.                                      *)
(*                                                                         *)
(* ContinueEffect says what a continuation of the main process does to the *)
(* chain, the answers and the preview. The lemmas after it take the steps  *)
(* of the main process and of the renderer; SendNextInv puts them together. *)
(***************************************************************************)
EXTENDS ReviewedSend, ProposalAdapterProofs

USE AdapterAssumption, RendererAssumption

(* The requests of the renderer are operations of the main process.        *)
LEMMA RequestsTyped ==
    /\ \A key \in Keys : SendRequest(key) \in Operations
    /\ {ShieldRequest, ConfirmRequest, CancelOperation} \subseteq Operations
BY DEF SendRequest, ShieldRequest, ConfirmRequest, CancelOperation, Operations

(* A step of the renderer is a step of the main process or leaves it alone. *)
LEMMA SendStepIsAdapterStep ==
    ASSUME SendTypeOK, [SendNext]_sendVars
    PROVE  [AdapterNext]_adapterVars
<1> DEFINE Asks(w) == \E operation \in Operations : Request(w, operation)
<1>1. ASSUME NEW w \in Clients, Asks(w) \/ ReadReply(w) PROVE [AdapterNext]_adapterVars
  BY <1>1 DEF AdapterNext
<1>2. CASE UNCHANGED adapterVars
  BY <1>2
<1>3. CASE Page
  <2>1. PICK e \in Effects :
            (\E key \in Keys : Previews(e, key)) \/ Cancels(e) \/ ReadsQuietly(e)
    BY <1>3 DEF Page
  <2>2. Asks(e) \/ ReadReply(e)
    BY <2>1, RequestsTyped DEF Previews, Cancels, ReadsQuietly
  <2> QED
    BY <1>1, <2>2
<1>4. CASE Send
  <2>1. CASE SendButton \/ NotVerified \/ NotAuthorized
    BY <1>2, <2>1 DEF SendButton, NotVerified, NotAuthorized
  <2>2. CASE Verified
    <3>1. shown \in Keys
      BY <2>2 DEF Verified, Flow, SendTypeOK
    <3>2. Asks(Sender)
      BY <2>2, <3>1, RequestsTyped DEF Verified
    <3> QED
      BY <1>1, <3>2
  <2>3. CASE StagingAnswered \/ Authorized \/ ConfirmAnswered
    <3>1. Asks(Sender) \/ ReadReply(Sender)
      BY <2>3, RequestsTyped DEF StagingAnswered, Authorized, ConfirmAnswered
    <3> QED
      BY <1>1, <3>1
  <2> QED
    BY <1>4, <2>1, <2>2, <2>3 DEF Send
<1>5. CASE Shield
  <2>1. PICK s \in Shielders :
            \/ ShieldAsked(s) \/ ShieldStaged(s) \/ ShieldAuthorized(s)
            \/ ShieldNotAuthorized(s) \/ ShieldEnds(s)
    BY <1>5 DEF Shield
  <2>2. Asks(s) \/ ReadReply(s) \/ UNCHANGED adapterVars
    BY <2>1, RequestsTyped DEF ShieldAsked, ShieldStaged, ShieldAuthorized, ShieldNotAuthorized,
       ShieldEnds
  <2> QED
    BY <1>1, <1>2, <2>2
<1>6. CASE Main
  BY <1>6 DEF Main, AdapterNext
<1>7. CASE UNCHANGED sendVars
  BY <1>2, <1>7 DEF sendVars
<1> HIDE DEF Asks
<1> QED
  BY <1>3, <1>4, <1>5, <1>6, <1>7 DEF SendNext

-----------------------------------------------------------------------------
(* What a continuation of the main process does to the chain, the answers  *)
(* and the preview: it stages nothing, and a preview that is kept pays     *)
(* what it paid,                                                           *)
StagesNothing ==
    /\ \/ chain' = chain
       \/ chain # <<>> /\ chain' = Tail(chain)
    /\ \A w \in Clients : reply'[w] # reply[w] => reply'[w].outcome # "preview"
    /\ pendingProposal' # None =>
        /\ pendingProposal # None
        /\ pendingProposal'.operation = pendingProposal.operation
        /\ pendingProposal'.requestKey = pendingProposal.requestKey

(* or it answers the running operation with the preview that was asked for. *)
StagesRunning ==
    /\ chain # <<>> /\ chain' = Tail(chain)
    /\ \A w \in Clients \ {Head(chain)} : reply'[w] = reply[w]
    /\ pendingProposal'.operation = KindOf(Running)
    /\ pendingProposal'.requestKey = Running.key

(* An answer goes to the client whose operation runs.                      *)
LEMMA ReplyEffect ==
    ASSUME AdapterInv, chain # <<>>,
           NEW outcome \in {"preview", "txids", "cancelled", "error"},
           NEW feeZat \in Fees \cup {None}, Reply(outcome, feeZat)
    PROVE  /\ asked' = asked
           /\ chain' = Tail(chain)
           /\ \A w \in Clients \ {Head(chain)} : reply'[w] = reply[w]
           /\ reply'[Head(chain)].outcome = outcome
<1>1. Head(chain) \in Clients
  BY RunningTyped
<1>2. reply \in [Clients -> Replies \cup {None}]
  BY DEF AdapterInv, AdapterTypeOK
<1> QED
  BY <1>1, <1>2 DEF Reply

(* The continuations that call native answer nobody.                       *)
LEMMA GoesOnEffect ==
    ASSUME AdapterInv,
           \/ StageDiscards \/ BalanceFails \/ Proposes \/ ProposeCleansUp
           \/ ConfirmDiscards \/ ConfirmCalls \/ ConfirmReleases \/ CancelDiscards
    PROVE  asked' = asked /\ StagesNothing
<1>1. UNCHANGED <<asked, reply, chain>>
  BY DEF StageDiscards, BalanceFails, Proposes, ProposeCleansUp, ConfirmDiscards, ConfirmCalls,
     ConfirmReleases, CancelDiscards, GoesOn
<1>2. CASE ConfirmCalls
  <2>1. pendingProposal \in PendingProposals /\ pendingProposal # None
    BY <1>2 DEF ConfirmCalls, AdapterInv, AdapterTypeOK
  <2>2. pendingProposal' = [pendingProposal EXCEPT !.display = FALSE]
    BY <1>2 DEF ConfirmCalls
  <2>3. /\ pendingProposal'.operation = pendingProposal.operation
        /\ pendingProposal'.requestKey = pendingProposal.requestKey
    BY <2>1, <2>2 DEF PendingProposals
  <2> QED
    BY <1>1, <2>1, <2>3 DEF StagesNothing
<1>3. CASE ~ConfirmCalls
  <2>1. pendingProposal' \in {pendingProposal, None}
    BY <1>3 DEF StageDiscards, BalanceFails, Proposes, ProposeCleansUp, ConfirmDiscards,
       ConfirmReleases, CancelDiscards
  <2> QED
    BY <1>1, <2>1 DEF StagesNothing
<1> QED
  BY <1>2, <1>3

(* Those that answer without a preview.                                    *)
LEMMA AnswerEffect ==
    ASSUME AdapterInv,
           \/ DiscardRejected \/ DiscardMismatch \/ DiscardEnds \/ CleanupEnds
           \/ ConfirmThrows \/ ReleaseEnds \/ ConfirmReturns
    PROVE  asked' = asked /\ StagesNothing
<1>1. chain # <<>>
  BY DEF DiscardRejected, DiscardMismatch, DiscardEnds, Discarded, CleanupEnds, ConfirmThrows,
     ReleaseEnds, ConfirmReturns, Begins, Awaits, AdapterInv, ChainFits
<1>2. PICK outcome \in {"txids", "cancelled", "error"}, feeZat \in Fees \cup {None} :
        Reply(outcome, feeZat)
  <2>1. CASE ConfirmReturns
    <3>1. Result \in Results
      BY <2>1, ResultFits DEF ConfirmReturns
    <3> QED
      BY <2>1, <3>1 DEF ConfirmReturns, Results
  <2> QED
    BY <2>1 DEF DiscardRejected, DiscardMismatch, DiscardEnds, CleanupEnds, ConfirmThrows,
       ReleaseEnds
<1>3. /\ asked' = asked /\ chain' = Tail(chain)
      /\ \A w \in Clients \ {Head(chain)} : reply'[w] = reply[w]
      /\ reply'[Head(chain)].outcome = outcome
  BY <1>1, <1>2, ReplyEffect
<1>4. pendingProposal' \in {pendingProposal, None}
  BY DEF DiscardRejected, DiscardMismatch, DiscardEnds, CleanupEnds, ConfirmThrows,
     ReleaseEnds, ConfirmReturns
<1> QED
  BY <1>1, <1>3, <1>4 DEF StagesNothing

(* Those that answer with a preview, the one staged before or a new one.   *)
LEMMA PreviewEffect ==
    ASSUME AdapterInv, StagesAgain \/ ProposeReturns
    PROVE  asked' = asked /\ StagesRunning
<1>1. CASE StagesAgain
  <2>1. /\ chain # <<>> /\ SamePreview /\ pendingProposal' = pendingProposal
        /\ Reply("preview", pendingProposal.feeZat)
    BY <1>1 DEF StagesAgain, Begins
  <2>2. pendingProposal.feeZat \in Fees
    BY <2>1 DEF SamePreview, AdapterInv, AdapterTypeOK, PendingProposals
  <2> QED
    BY <2>1, <2>2, ReplyEffect DEF SamePreview, StagesRunning
<1>2. CASE ProposeReturns
  <2>1. /\ Awaits("propose") /\ Result.outcome = "preview" /\ Reply("preview", Result.fee)
        /\ pendingProposal'.operation = KindOf(Running)
        /\ pendingProposal'.requestKey = Running.key
    BY <1>2 DEF ProposeReturns
  <2>2. chain # <<>> /\ Result.fee \in Fees
    BY <2>1, ResultFits
  <2> QED
    BY <2>1, <2>2, ReplyEffect DEF StagesRunning
<1> QED
  BY <1>1, <1>2

(* Every continuation.                                                     *)
LEMMA ContinueEffect ==
    ASSUME AdapterInv, Continue
    PROVE  asked' = asked /\ (StagesNothing \/ StagesRunning)
BY GoesOnEffect, AnswerEffect, PreviewEffect DEF Continue

-----------------------------------------------------------------------------
(* Steps of the main process                                               *)

(* The parts of SendInv that are about the renderer.                       *)
PageInv == SendTypeOK /\ SenderFits /\ OthersFit /\ QueueFits /\ ListFits

(* What waits in the chain, and what the order of it is worth.             *)
LEMMA ChainTyped ==
    ASSUME SendInv
    PROVE  /\ chain \in Seq(Clients)
           /\ \A i \in 1 .. Len(chain) : asked[chain[i]] # None /\ reply[chain[i]] = None
BY DEF SendInv, AdapterInv, AdapterTypeOK, ChainFits

(* When the first of the chain is answered, those behind it move up.       *)
LEMMA TailFits ==
    ASSUME SendInv, chain # <<>>, chain' = Tail(chain), UNCHANGED <<sending, asked>>
    PROVE  QueueFits'
<1>1. chain \in Seq(Clients) /\ Len(chain') = Len(chain) - 1 /\ Len(chain) \in Nat
  BY ChainTyped
<1>2. \A i \in 1 .. Len(chain') : chain'[i] = chain[i + 1]
  BY <1>1
<1>3. Others' = Others /\ flow' = flow /\ stray' = stray
  BY DEF Others, sending
<1> SUFFICES ASSUME flow \in {"staging", "authorizing", "confirming"}, ~stray,
                    NEW i \in 1 .. Len(chain'), chain'[i] \in Others
             PROVE  flow = "staging" /\ \E j \in i + 1 .. Len(chain') : chain'[j] = Sender
  BY <1>3 DEF QueueFits
<1>4. i + 1 \in 1 .. Len(chain) /\ chain[i + 1] \in Others
  BY <1>1, <1>2
<1>5. PICK j \in (i + 1) + 1 .. Len(chain) : chain[j] = Sender
  BY <1>4 DEF SendInv, QueueFits
<1>6. j - 1 \in i + 1 .. Len(chain') /\ chain'[j - 1] = Sender
  BY <1>1, <1>2, <1>5
<1>7. flow = "staging"
  BY <1>4 DEF SendInv, QueueFits
<1> QED
  BY <1>6, <1>7

(* Whose preview is staged while the send is under confirmation.           *)
LEMMA RunningSend ==
    ASSUME SendInv, StagesRunning, UNCHANGED <<sending, asked>>, KindOf(Running) = "send",
           UnderConfirmation', ~stray
    PROVE  Running.key = shown
<1>1. chain \in Seq(Clients) /\ chain # <<>> /\ Head(chain) = chain[1] /\ Head(chain) \in Clients
      /\ 1 \in 1 .. Len(chain)
  BY ChainTyped DEF StagesRunning
<1>2. Running # None /\ Running.op = "send"
  BY <1>1, RunningTyped DEF SendInv, KindOf
<1> SUFFICES ASSUME Running.key # shown PROVE FALSE
  OBVIOUS
<1>3. chain[1] \in Others
  BY <1>1, <1>2, ChainTyped DEF Others, Running
<1>4. flow \in {"staging", "authorizing", "confirming"}
  BY DEF UnderConfirmation, sending
<1>5. flow = "staging" /\ \E j \in 1 .. Len(chain) : chain[j] = Sender
  BY <1>1, <1>3, <1>4 DEF SendInv, QueueFits
<1>6. reply[Sender] = None
  BY <1>5, ChainTyped
<1>7. Head(chain) # Sender
  BY <1>2, <1>5 DEF SendInv, SenderFits, SendRequest, Running
<1>8. reply'[Sender] = None
  BY <1>6, <1>7 DEF StagesRunning
<1> QED
  BY <1>5, <1>8 DEF UnderConfirmation, sending

(* A continuation of the main process.                                     *)
LEMMA ContinuePageInv ==
    ASSUME SendInv, AdapterTypeOK', Continue, UNCHANGED renderer
    PROVE  PageInv'
<1>1. UNCHANGED <<flow, shown, stray, shielding>> /\ asked' = asked
  BY ContinueEffect DEF renderer, sending, SendInv
<1>2. SendTypeOK' /\ SenderFits' /\ OthersFit'
  BY <1>1 DEF SendInv, SendTypeOK, SenderFits, OthersFit
<1>3. QueueFits'
  <2>1. CASE chain' = chain
    BY <1>1, <2>1 DEF SendInv, QueueFits, Others
  <2>2. CASE chain # <<>> /\ chain' = Tail(chain)
    BY <1>1, <2>2, TailFits DEF sending
  <2> QED
    BY <2>1, <2>2, ContinueEffect DEF SendInv, StagesNothing, StagesRunning
<1>4. CASE StagesNothing
  <2>1. ListFits'
    BY <1>1, <1>4 DEF StagesNothing, SendInv, ListFits, UnderConfirmation
  <2> QED
    BY <1>2, <1>3, <2>1 DEF PageInv
<1>5. CASE StagesRunning
  <2>1. ASSUME pendingProposal'.operation = "send", UnderConfirmation', ~stray
        PROVE  pendingProposal'.requestKey = shown
    <3>1. KindOf(Running) = "send" /\ pendingProposal'.requestKey = Running.key
      BY <1>5, <2>1 DEF StagesRunning
    <3> QED
      BY <1>1, <1>5, <2>1, <3>1, RunningSend DEF sending
  <2>2. ListFits'
    BY <1>1, <2>1 DEF ListFits
  <2> QED
    BY <1>2, <1>3, <2>2 DEF PageInv
<1> QED
  BY <1>4, <1>5, ContinueEffect DEF SendInv

(* A step that leaves the renderer, its requests and the preview.          *)
LEMMA BesidePageInv ==
    ASSUME SendInv, AdapterTypeOK', UNCHANGED <<renderer, pendingProposal, asked, reply, chain>>
    PROVE  PageInv'
<1>1. UNCHANGED <<flow, shown, stray, shielding>>
  BY DEF renderer, sending
<1>2. SendTypeOK' /\ SenderFits' /\ OthersFit'
  BY <1>1 DEF SendInv, SendTypeOK, SenderFits, OthersFit
<1>3. QueueFits' /\ ListFits'
  BY <1>1 DEF SendInv, QueueFits, Others, ListFits, UnderConfirmation
<1> QED
  BY <1>2, <1>3 DEF PageInv

(* Every step of the main process. The manager's deletion, which would ask *)
(* for a cancellation, does not begin from this page.                      *)
LEMMA MainInv ==
    ASSUME SendInv, AdapterTypeOK', Main
    PROVE  PageInv'
<1>1. UNCHANGED renderer
  BY DEF Main
<1>2. CASE Continue
  BY <1>1, <1>2, ContinuePageInv
<1>3. CASE DeleteStops \/ DeletesNative
  BY <1>3 DEF DeleteStops, DeletesNative, Read, SendInv, OthersFit, AdapterInv, ChainFits
<1>4. CASE ManagerEnds \/ \E op \in {"open", "create"} : OpensWallet(op)
  <2>1. UNCHANGED <<pendingProposal, asked, reply, chain>>
    BY <1>4 DEF ManagerEnds, OpensWallet, Manages
  <2> QED
    BY <1>1, <2>1, BesidePageInv
<1>5. CASE (\E c \in Callers : NativeStep(c)) \/ UNCHANGED adapter
  <2>1. UNCHANGED <<pendingProposal, asked, reply, chain>>
    BY <1>5 DEF NativeStep, adapter
  <2> QED
    BY <1>1, <2>1, BesidePageInv
<1> QED
  BY <1>2, <1>3, <1>4, <1>5 DEF Main, ManagerContinues

-----------------------------------------------------------------------------
(* Steps of the renderer                                                   *)

(* What a request and the reading of an answer change.                     *)
LEMMA RequestEffect ==
    ASSUME SendInv, NEW w \in Clients, NEW operation, Request(w, operation)
    PROVE  /\ asked[w] = None /\ reply[w] = None
           /\ asked'[w] = operation
           /\ \A v \in Clients \ {w} : asked'[v] = asked[v]
           /\ chain' = Append(chain, w)
           /\ UNCHANGED <<pendingProposal, reply>>
BY DEF Request, Ask, SendInv, AdapterInv, AdapterTypeOK, ChainFits

LEMMA AnswerReadEffect ==
    ASSUME SendInv, NEW w \in Clients, ReadReply(w)
    PROVE  /\ reply[w] # None /\ asked[w] # None
           /\ asked'[w] = None /\ reply'[w] = None
           /\ \A v \in Clients \ {w} : asked'[v] = asked[v] /\ reply'[v] = reply[v]
           /\ UNCHANGED <<pendingProposal, chain>>
BY DEF ReadReply, Read, SendInv, AdapterInv, AdapterTypeOK, ChainFits

(* A request joins the chain behind the send: it may be for another list   *)
(* only if that is recorded.                                               *)
LEMMA AppendFits ==
    ASSUME SendInv, NEW w \in Clients, NEW operation, Request(w, operation),
           UNCHANGED <<flow, shown>>, stray' = stray \/ stray' = TRUE,
           ~stray' /\ flow \in {"staging", "authorizing", "confirming"} => w \notin Others'
    PROVE  QueueFits'
<1>1. /\ \A v \in Clients \ {w} : asked'[v] = asked[v]
      /\ asked[w] = None
      /\ chain' = Append(chain, w)
  BY RequestEffect
<1>2. /\ chain \in Seq(Clients) /\ Len(chain) \in Nat /\ Len(chain') = Len(chain) + 1
      /\ \A i \in 1 .. Len(chain) : chain'[i] = chain[i]
      /\ chain'[Len(chain) + 1] = w
  BY <1>1, ChainTyped
<1> SUFFICES ASSUME flow \in {"staging", "authorizing", "confirming"}, ~stray',
                    NEW i \in 1 .. Len(chain'), chain'[i] \in Others'
             PROVE  flow = "staging" /\ \E j \in i + 1 .. Len(chain') : chain'[j] = Sender
  BY DEF QueueFits
<1>3. i \in 1 .. Len(chain) /\ chain[i] \in Others'
  BY <1>2
<1>4. chain[i] \in Clients \ {w}
  BY <1>1, <1>2, <1>3, ChainTyped
<1>5. chain[i] \in Others
  BY <1>1, <1>3, <1>4 DEF Others
<1>6. flow = "staging" /\ \E j \in i + 1 .. Len(chain) : chain[j] = Sender
  BY <1>3, <1>5 DEF SendInv, QueueFits
<1> QED
  BY <1>2, <1>6

(* An answer that is read leaves the chain as it is.                       *)
LEMMA AnswerReadFits ==
    ASSUME SendInv, NEW w \in Clients, ReadReply(w), UNCHANGED <<flow, shown, stray>>
    PROVE  QueueFits'
<1>1. /\ asked'[w] = None /\ chain' = chain
      /\ \A v \in Clients \ {w} : asked'[v] = asked[v]
  BY AnswerReadEffect
<1>2. \A v \in Others' : v \in Others
  BY <1>1 DEF Others
<1> QED
  BY <1>1, <1>2 DEF SendInv, QueueFits

(* Effects and cancellations.                                              *)
LEMMA PageStepInv ==
    ASSUME SendInv, AdapterTypeOK', Page
    PROVE  PageInv'
<1>1. PICK e \in Effects : (\E key \in Keys : Previews(e, key)) \/ Cancels(e) \/ ReadsQuietly(e)
  BY DEF Page
<1>2. e \in Clients /\ e # Sender /\ e # Manager /\ e \notin Shielders
  OBVIOUS
<1>3. UNCHANGED <<flow, shown, shielding>>
  BY <1>1 DEF Previews, Cancels, ReadsQuietly, renderer, sending
<1>4. \/ stray' = stray
      \/ stray' = TRUE /\ flow \in {"staging", "authorizing", "confirming"}
  BY <1>1 DEF Previews, Cancels, ReadsQuietly, renderer, sending, SendInv, SendTypeOK
<1>5. SendTypeOK'
  <2>1. CASE stray' = stray
    BY <1>3, <2>1 DEF SendInv, SendTypeOK
  <2>2. CASE stray' = TRUE /\ flow \in {"staging", "authorizing", "confirming"}
    BY <1>3, <2>2 DEF SendInv, SendTypeOK
  <2> QED
    BY <1>4, <2>1, <2>2
<1>6. CASE ReadsQuietly(e)
  <2>1. ReadReply(e) /\ stray' = stray
    BY <1>6 DEF ReadsQuietly, renderer, sending
  <2>2. SenderFits' /\ OthersFit' /\ ListFits'
    BY <1>2, <1>3, <2>1, AnswerReadEffect DEF SendInv, SenderFits, OthersFit, ListFits, UnderConfirmation
  <2>3. QueueFits'
    BY <1>2, <1>3, <2>1, AnswerReadFits
  <2> QED
    BY <1>5, <2>2, <2>3 DEF PageInv
<1>7. ASSUME NEW key \in Keys, Previews(e, key) PROVE PageInv'
  <2>1. /\ Request(e, SendRequest(key))
        /\ ~stray' /\ flow \in {"staging", "authorizing", "confirming"} => key = shown
    BY <1>7 DEF Previews
  <2>2. ~stray' /\ flow \in {"staging", "authorizing", "confirming"} => e \notin Others'
    BY <1>2, <1>3, <2>1, RequestEffect DEF Others, SendRequest
  <2>3. QueueFits'
    BY <1>2, <1>3, <1>4, <2>1, <2>2, AppendFits
  <2>4. SenderFits' /\ OthersFit' /\ ListFits'
    BY <1>2, <1>3, <1>4, <2>1, RequestEffect DEF SendInv, SenderFits, OthersFit, ListFits,
       UnderConfirmation
  <2> QED
    BY <1>5, <2>3, <2>4 DEF PageInv
<1>8. CASE Cancels(e)
  <2>1. Request(e, CancelOperation) /\ stray' = stray
    BY <1>8 DEF Cancels, renderer, sending
  <2>2. e \notin Others'
    BY <1>2, <2>1, RequestEffect DEF Others, CancelOperation
  <2>3. QueueFits'
    BY <1>2, <1>3, <2>1, <2>2, AppendFits
  <2>4. SenderFits' /\ OthersFit' /\ ListFits'
    BY <1>2, <1>3, <2>1, RequestEffect DEF SendInv, SenderFits, OthersFit, ListFits,
       UnderConfirmation
  <2> QED
    BY <1>5, <2>3, <2>4 DEF PageInv
<1> QED
  BY <1>1, <1>6, <1>7, <1>8

(* The Shield button.                                                      *)
LEMMA ShieldStepInv ==
    ASSUME SendInv, AdapterTypeOK', Shield
    PROVE  PageInv'
<1>1. UNCHANGED <<flow, shown, stray>>
  BY DEF Shield, sending
<1>2. PICK s \in Shielders :
        \/ ShieldAsked(s) \/ ShieldStaged(s) \/ ShieldAuthorized(s)
        \/ ShieldNotAuthorized(s) \/ ShieldEnds(s)
  BY DEF Shield
<1>3. s \in Clients /\ s # Sender /\ s # Manager /\ s \notin Effects
  OBVIOUS
<1>4. PICK after \in Progress : shielding' = [shielding EXCEPT ![s] = after]
  BY <1>2 DEF ShieldAsked, ShieldStaged, ShieldAuthorized, ShieldNotAuthorized, ShieldEnds,
     Shielding, Progress
<1>5. SendTypeOK'
  BY <1>1, <1>4 DEF SendInv, SendTypeOK
<1>6. CASE ShieldStaged(s) \/ ShieldEnds(s)
  <2>1. ReadReply(s)
    BY <1>6 DEF ShieldStaged, ShieldEnds
  <2>2. SenderFits' /\ OthersFit' /\ ListFits'
    BY <1>1, <1>3, <2>1, AnswerReadEffect DEF SendInv, SenderFits, OthersFit, ListFits, UnderConfirmation
  <2>3. QueueFits'
    BY <1>1, <1>3, <2>1, AnswerReadFits
  <2> QED
    BY <1>5, <2>2, <2>3 DEF PageInv
<1>7. CASE ShieldAsked(s) \/ ShieldAuthorized(s)
  <2>1. PICK operation \in {ShieldRequest, ConfirmRequest} : Request(s, operation)
    BY <1>7 DEF ShieldAsked, ShieldAuthorized
  <2>2. s \notin Others'
    BY <1>3, <2>1, RequestEffect DEF Others, ShieldRequest, ConfirmRequest
  <2>3. QueueFits'
    BY <1>1, <1>3, <2>1, <2>2, AppendFits
  <2>4. SenderFits' /\ OthersFit' /\ ListFits'
    BY <1>1, <1>3, <2>1, RequestEffect DEF SendInv, SenderFits, OthersFit, ListFits,
       UnderConfirmation
  <2> QED
    BY <1>5, <2>3, <2>4 DEF PageInv
<1>8. CASE ShieldNotAuthorized(s)
  <2>1. UNCHANGED <<asked, reply, chain, pendingProposal>>
    BY <1>8 DEF ShieldNotAuthorized, adapterVars, adapter
  <2>2. SenderFits' /\ OthersFit' /\ QueueFits' /\ ListFits'
    BY <1>1, <2>1 DEF SendInv, SenderFits, OthersFit, QueueFits, Others, ListFits,
       UnderConfirmation
  <2> QED
    BY <1>5, <2>2 DEF PageInv
<1> QED
  BY <1>2, <1>6, <1>7, <1>8

(* The send asks for its staging: whoever waits for another list is ahead. *)
LEMMA VerifiedInv ==
    ASSUME SendInv, AdapterTypeOK', Verified
    PROVE  PageInv'
<1>1. /\ flow = "verifying" /\ flow' = "staging" /\ UNCHANGED <<shown, stray, shielding>>
      /\ Request(Sender, SendRequest(shown))
  BY DEF Verified, Flow
<1>2. /\ asked'[Sender] = SendRequest(shown)
      /\ \A v \in Clients \ {Sender} : asked'[v] = asked[v]
      /\ chain' = Append(chain, Sender)
      /\ reply' = reply /\ reply[Sender] = None
  BY <1>1, RequestEffect
<1>3. SendTypeOK' /\ SenderFits' /\ OthersFit' /\ ListFits'
  <2>1. SendTypeOK'
    BY <1>1 DEF SendInv, SendTypeOK, Progress
  <2>2. SenderFits' /\ ListFits'
    BY <1>1, <1>2 DEF SenderFits, ListFits, UnderConfirmation
  <2>3. OthersFit'
    BY <1>2 DEF SendInv, OthersFit
  <2> QED
    BY <2>1, <2>2, <2>3
<1>4. Sender \notin Others'
  BY <1>1, <1>2 DEF Others, SendRequest
<1>5. /\ Len(chain) \in Nat /\ Len(chain') = Len(chain) + 1
      /\ chain'[Len(chain) + 1] = Sender
  BY <1>2, ChainTyped
<1>6. ASSUME NEW i \in 1 .. Len(chain'), chain'[i] \in Others'
      PROVE  \E j \in i + 1 .. Len(chain') : chain'[j] = Sender
  <2>1. i # Len(chain) + 1
    BY <1>4, <1>5, <1>6
  <2>2. Len(chain) + 1 \in i + 1 .. Len(chain')
    BY <1>5, <2>1
  <2> QED
    BY <1>5, <2>2
<1> QED
  BY <1>1, <1>3, <1>6 DEF PageInv, QueueFits

(* It reads that answer: nobody was ahead of it any more.                  *)
LEMMA StagingAnsweredInv ==
    ASSUME SendInv, AdapterTypeOK', StagingAnswered, reply[Sender].outcome = "preview"
    PROVE  PageInv'
<1>1. /\ flow = "staging" /\ flow' = "authorizing" /\ UNCHANGED <<shown, stray, shielding>>
      /\ ReadReply(Sender)
  BY DEF StagingAnswered, Flow
<1>2. /\ reply[Sender] # None /\ asked'[Sender] = None
      /\ \A v \in Clients \ {Sender} : asked'[v] = asked[v]
      /\ UNCHANGED <<pendingProposal, chain>>
  BY <1>1, AnswerReadEffect
<1>3. SendTypeOK' /\ SenderFits' /\ OthersFit'
  BY <1>1, <1>2 DEF SendInv, SendTypeOK, Progress, SenderFits, OthersFit
<1>4. ListFits'
  BY <1>1, <1>2 DEF SendInv, ListFits, UnderConfirmation
<1>5. ASSUME NEW i \in 1 .. Len(chain), chain[i] \in Others', ~stray
      PROVE  FALSE
  <2>1. chain[i] \in Others
    BY <1>1, <1>2, <1>5 DEF Others
  <2>2. PICK j \in i + 1 .. Len(chain) : chain[j] = Sender
    BY <1>1, <1>5, <2>1 DEF SendInv, QueueFits
  <2>3. j \in 1 .. Len(chain)
    BY <2>2, ChainTyped
  <2> QED
    BY <1>2, <2>2, <2>3, ChainTyped
<1> QED
  BY <1>1, <1>2, <1>3, <1>4, <1>5 DEF PageInv, QueueFits

(* It asks for the confirmation.                                           *)
LEMMA AuthorizedInv ==
    ASSUME SendInv, AdapterTypeOK', Authorized
    PROVE  PageInv'
<1>1. /\ flow = "authorizing" /\ flow' = "confirming" /\ UNCHANGED <<shown, stray, shielding>>
      /\ Request(Sender, ConfirmRequest)
  BY DEF Authorized, Flow
<1>2. /\ asked[Sender] = None /\ asked'[Sender] = ConfirmRequest
      /\ \A v \in Clients \ {Sender} : asked'[v] = asked[v]
      /\ chain' = Append(chain, Sender)
      /\ UNCHANGED <<pendingProposal, reply>>
  BY <1>1, RequestEffect
<1>3. SendTypeOK' /\ SenderFits' /\ OthersFit'
  BY <1>1, <1>2 DEF SendInv, SendTypeOK, Progress, SenderFits, OthersFit
<1>4. ListFits'
  BY <1>1, <1>2 DEF SendInv, ListFits, UnderConfirmation
<1>5. Sender \notin Others' /\ \A v \in Others' : v \in Others
  BY <1>1, <1>2 DEF Others, ConfirmRequest
<1>6. ASSUME NEW i \in 1 .. Len(chain'), chain'[i] # Sender
      PROVE  i \in 1 .. Len(chain) /\ chain'[i] = chain[i]
  BY <1>2, <1>6, ChainTyped
<1>7. ~stray => \A i \in 1 .. Len(chain) : chain[i] \notin Others
  BY <1>1 DEF SendInv, QueueFits
<1> QED
  BY <1>1, <1>3, <1>4, <1>5, <1>6, <1>7 DEF PageInv, QueueFits

(* It ends, or waits for the user.                                         *)
LEMMA FlowEndsInv ==
    ASSUME SendInv, AdapterTypeOK',
           \/ SendButton \/ NotVerified \/ NotAuthorized \/ ConfirmAnswered
           \/ StagingAnswered /\ reply[Sender].outcome # "preview"
    PROVE  PageInv'
<1>1. /\ UNCHANGED shielding
      /\ \/ flow = "idle" /\ flow' = "verifying" /\ shown' \in Keys /\ stray' = stray
         \/ flow' = "idle" /\ shown' = None /\ stray' = FALSE
  BY DEF SendButton, NotVerified, NotAuthorized, ConfirmAnswered, StagingAnswered, SendEnds, Flow
<1>2. SendTypeOK'
  <2>1. stray' = FALSE
    BY <1>1 DEF SendInv, SendTypeOK
  <2> QED
    BY <1>1, <2>1 DEF SendInv, SendTypeOK, Progress
<1>3. QueueFits' /\ ListFits'
  BY <1>1 DEF QueueFits, ListFits, UnderConfirmation
<1>4. /\ asked'[Sender] = None
      /\ \A v \in Clients \ {Sender} : asked'[v] = asked[v]
  <2>1. CASE ConfirmAnswered \/ StagingAnswered
    <3>1. ReadReply(Sender)
      BY <2>1 DEF ConfirmAnswered, StagingAnswered
    <3> QED
      BY <3>1, AnswerReadEffect
  <2>2. CASE SendButton \/ NotVerified \/ NotAuthorized
    BY <2>2 DEF SendButton, NotVerified, NotAuthorized, SendEnds, Flow, adapterVars, adapter,
       SendInv, SenderFits
  <2> QED
    BY <2>1, <2>2
<1>5. SenderFits' /\ OthersFit'
  BY <1>1, <1>4 DEF SendInv, SenderFits, OthersFit
<1> QED
  BY <1>2, <1>3, <1>5 DEF PageInv

-----------------------------------------------------------------------------
(* The theorems                                                            *)

(* The page opens with nothing asked for.                                  *)
LEMMA SendInitInv == SendInit => SendInv
<1> SUFFICES ASSUME SendInit PROVE SendInv
  OBVIOUS
<1>1. AdapterInv /\ AdapterTypeOK
  BY AdapterInitInv DEF SendInit, AdapterInv
<1>2. /\ flow = "idle" /\ shown = None /\ stray = FALSE
      /\ shielding = [s \in Shielders |-> "idle"]
      /\ asked = Fresh
  BY DEF SendInit, AdapterInit
<1>3. SendTypeOK
  BY <1>1, <1>2 DEF SendTypeOK, Progress
<1>4. SenderFits /\ OthersFit /\ QueueFits /\ ListFits
  BY <1>2 DEF SenderFits, OthersFit, QueueFits, ListFits, UnderConfirmation, Fresh
<1> QED
  BY <1>1, <1>3, <1>4 DEF SendInv

(* The invariant is inductive.                                             *)
LEMMA SendNextInv == SendInv /\ [SendNext]_sendVars => SendInv'
<1> SUFFICES ASSUME SendInv, [SendNext]_sendVars PROVE SendInv'
  OBVIOUS
<1>1. AdapterInv' /\ AdapterTypeOK'
  <2>1. AdapterInv'
    BY SendStepIsAdapterStep, AdapterNextInv DEF SendInv
  <2> QED
    BY <2>1 DEF AdapterInv
<1>2. PageInv'
  <2>1. CASE UNCHANGED sendVars
    BY <1>1, <2>1, BesidePageInv DEF sendVars, adapterVars, adapter
  <2>2. CASE Main
    BY <1>1, <2>2, MainInv
  <2>3. CASE Page
    BY <1>1, <2>3, PageStepInv
  <2>4. CASE Shield
    BY <1>1, <2>4, ShieldStepInv
  <2>5. CASE Send
    BY <1>1, <2>5, VerifiedInv, StagingAnsweredInv, AuthorizedInv, FlowEndsInv DEF Send
  <2> QED
    BY <2>1, <2>2, <2>3, <2>4, <2>5 DEF SendNext
<1> QED
  BY <1>1, <1>2 DEF SendInv, PageInv

(* SendInv holds in every state of every behaviour.                        *)
THEOREM SendInvariant == SendSpec => []SendInv
BY SendInitInv, SendNextInv, PTL DEF SendSpec

(* A list is remembered exactly while it is being sent, and the record of  *)
(* another preview only between the send's requests.                       *)
THEOREM SendTypeCorrect == SendSpec => []SendTypeOK
<1>1. SendInv => SendTypeOK
  BY DEF SendInv
<1> QED
  BY <1>1, SendInvariant, PTL

(* A payment list that the send's confirmation signs is the one the user   *)
(* reviewed, unless the page asked for the preview of another one between  *)
(* the two calls of sendTransaction: however many effects, shieldings and  *)
(* cancellations run beside it, and whatever is queued ahead of it.        *)
THEOREM PaysReviewed == SendSpec => []PaysReviewedList
<1>1. SendInv => PaysReviewedList
  BY DEF SendInv, ListFits, UnderConfirmation, PaysReviewedList, AdapterInv, AwaitFits
<1> QED
  BY <1>1, SendInvariant, PTL

(* The renderer uses the main process as ProposalAdapter lets its clients  *)
(* use it, so what is proved of the main process and of native holds of it. *)
THEOREM SendImplementsAdapter == SendSpec => AdapterSpec
<1>1. SendInit => AdapterInit
  BY DEF SendInit
<1>2. SendInv /\ [SendNext]_sendVars => [AdapterNext]_adapterVars
  BY SendStepIsAdapterStep DEF SendInv
<1> QED
  BY <1>1, <1>2, SendInvariant, PTL DEF SendSpec, AdapterSpec
================================================================================
