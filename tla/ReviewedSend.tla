----------------------------- MODULE ReviewedSend -----------------------------
(***************************************************************************)
(* The renderer over the main process: sendTransaction of rpc.ts, behind   *)
(* the confirmation modal and the device authentication, and what else the *)
(* renderer does with proposals beside it: the effect that previews the    *)
(* Send page's payment list on every render, the Shield button's own flow  *)
(* and the effect of the shielding fee, and the cancellations that nothing *)
(* waits for.                                                              *)
(*                                                                         *)
(* The list on the page is not a variable: it is edited, cleared by a send *)
(* and replaced by a payment link at any time, the modal open or not, and  *)
(* an effect still asks for the list of an earlier render. So any list may *)
(* be under review, and any list may be previewed, in every state.         *)
(***************************************************************************)
EXTENDS ProposalAdapter

CONSTANTS
    Sender,      \* the Send button; one send of it runs at a time
    Shielders,   \* runs of the Shield button, and of the shielding fee's effect
    Effects      \* runs of the preview effect, and cancellations

ASSUME RendererAssumption ==
    /\ Clients = {Sender, Manager} \cup Shielders \cup Effects
    /\ Sender \notin {Manager} \cup Shielders \cup Effects
    /\ Manager \notin Shielders \cup Effects
    /\ Shielders \cap Effects = {}

VARIABLES
    flow,        \* where the send is
    shown,       \* the list the modal showed at the click, or None
    stray,       \* history: the page had another list previewed since it was staged
    shielding    \* where each shielding is

sending == <<flow, shown, stray>>
renderer == <<sending, shielding>>
sendVars == <<adapterVars, renderer>>

(* "authorizing": the main process has the user authorize the confirmation *)
(* before it goes into the chain.                                          *)
Progress == {"idle", "staging", "authorizing", "confirming"}

(* "verifying": the send button itself waits for the settings and for the  *)
(* user's authentication. A list is remembered while it is being sent.     *)
SendTypeOK ==
    /\ AdapterTypeOK
    /\ flow \in Progress \cup {"verifying"}
    /\ shown \in Keys \cup {None}
    /\ shown = None <=> flow = "idle"
    /\ stray \in BOOLEAN
    /\ stray => flow \in {"staging", "authorizing", "confirming"}
    /\ shielding \in [Shielders -> Progress]

SendInit ==
    /\ AdapterInit
    /\ flow = "idle"
    /\ shown = None
    /\ stray = FALSE
    /\ shielding = [s \in Shielders |-> "idle"]

SendRequest(key) == [op |-> "send", key |-> key]
ShieldRequest == [op |-> "shield", key |-> None]
ConfirmRequest == [op |-> "confirm", key |-> None]
CancelOperation == [op |-> "cancel", key |-> None]

-----------------------------------------------------------------------------
(* Effects.                                                                *)

(* The effect of a render of the page, whatever the send flow does.        *)
Previews(e, key) ==
    /\ Request(e, SendRequest(key))
    /\ stray' = (stray \/ (flow \in {"staging", "authorizing", "confirming"} /\ key # shown))
    /\ UNCHANGED <<flow, shown, shielding>>

(* The modal's cancel button, the one of the Shield button's dialog, and   *)
(* every change of route. A send under way is not stopped.                 *)
Cancels(e) ==
    /\ Request(e, CancelOperation)
    /\ UNCHANGED renderer

(* The answer is a fee to display, or is not looked at.                    *)
ReadsQuietly(e) ==
    /\ ReadReply(e)
    /\ UNCHANGED renderer

Page ==
    \E e \in Effects : (\E key \in Keys : Previews(e, key)) \/ Cancels(e) \/ ReadsQuietly(e)

-----------------------------------------------------------------------------
(* The send.                                                               *)

Flow(before, after) ==
    /\ flow = before
    /\ flow' = after

SendButton ==
    /\ Flow("idle", "verifying")
    /\ shown' \in Keys
    /\ UNCHANGED <<stray, shielding, adapterVars>>

(* Mutant: what was reviewed outlives a send that was refused.             *)
SendEndsUncleared(before) ==
    /\ Flow(before, "idle")
    /\ stray' = FALSE
    /\ UNCHANGED shown

SendEnds(before) ==
    /\ Flow(before, "idle")
    /\ shown' = None
    /\ stray' = FALSE

NotVerified ==
    /\ SendEnds("verifying")
    /\ UNCHANGED <<shielding, adapterVars>>

(* sendTransaction stages the payment list of the click once more,         *)
Verified ==
    /\ Flow("verifying", "staging")
    /\ Request(Sender, SendRequest(shown))
    /\ UNCHANGED <<shown, stray, shielding>>

(* looks at the answer for an error only,                                  *)
StagingAnswered ==
    /\ ReadReply(Sender)
    /\ IF reply[Sender].outcome = "preview"
       THEN Flow("staging", "authorizing") /\ UNCHANGED <<shown, stray>>
       ELSE SendEnds("staging")
    /\ UNCHANGED shielding

(* and asks for the confirmation, which names no proposal.                 *)
Authorized ==
    /\ Flow("authorizing", "confirming")
    /\ Request(Sender, ConfirmRequest)
    /\ UNCHANGED <<shown, stray, shielding>>

NotAuthorized ==
    /\ SendEnds("authorizing")
    /\ UNCHANGED <<shielding, adapterVars>>

ConfirmAnswered ==
    /\ ReadReply(Sender)
    /\ SendEnds("confirming")
    /\ UNCHANGED shielding

Send ==
    \/ SendButton \/ NotVerified \/ Verified \/ StagingAnswered
    \/ Authorized \/ NotAuthorized \/ ConfirmAnswered

-----------------------------------------------------------------------------
(* The shielding: the Shield button proposes one, looks at the answer for  *)
(* an error only, and confirms whatever is staged by then. The effect of   *)
(* the fee stops at the answer.                                            *)

Shielding(s, before, after) ==
    /\ shielding[s] = before
    /\ shielding' = [shielding EXCEPT ![s] = after]

ShieldAsked(s) ==
    /\ Shielding(s, "idle", "staging")
    /\ Request(s, ShieldRequest)

ShieldStaged(s) ==
    /\ ReadReply(s)
    /\ reply[s].outcome = "preview"
    /\ Shielding(s, "staging", "authorizing")

ShieldAuthorized(s) ==
    /\ Shielding(s, "authorizing", "confirming")
    /\ Request(s, ConfirmRequest)

ShieldNotAuthorized(s) ==
    /\ Shielding(s, "authorizing", "idle")
    /\ UNCHANGED adapterVars

ShieldEnds(s) ==
    /\ ReadReply(s)
    /\ shielding[s] \in {"staging", "confirming"}
    /\ Shielding(s, shielding[s], "idle")

Shield ==
    /\ \E s \in Shielders :
        \/ ShieldAsked(s) \/ ShieldStaged(s) \/ ShieldAuthorized(s)
        \/ ShieldNotAuthorized(s) \/ ShieldEnds(s)
    /\ UNCHANGED sending

-----------------------------------------------------------------------------
(* The main process and native, as before. From this page the wallet is    *)
(* not deleted, and a page does not outlive its process.                   *)
Main ==
    /\ \/ Continue
       \/ ManagerContinues
       \/ \E op \in {"open", "create"} : OpensWallet(op)
       \/ \E c \in Callers : NativeStep(c)
       \/ (\E p \in pending : Resolve(p)) /\ UNCHANGED adapter
    /\ UNCHANGED renderer

SendNext == Page \/ Send \/ Shield \/ Main

SendSpec == SendInit /\ [][SendNext]_sendVars

-----------------------------------------------------------------------------
(* A payment list that the confirmation of the send button signs is the    *)
(* one the user reviewed, unless the page itself asked for the preview of  *)
(* another list between the two calls of sendTransaction: not one staged   *)
(* earlier, and none because of a shielding, a cancellation or a wallet    *)
(* that is opened meanwhile.                                               *)
PaysReviewedList ==
    /\ await = "confirm" /\ Head(chain) = Sender /\ flow = "confirming"
    /\ pendingProposal.operation = "send"
    /\ ~stray
    => pendingProposal.requestKey = shown

(* What makes it inductive. The send awaits the operation it has asked     *)
(* for, and only then.                                                     *)
SenderFits ==
    asked[Sender] = CASE flow = "staging"    -> SendRequest(shown)
                      [] flow = "confirming" -> ConfirmRequest
                      [] OTHER               -> None

OthersFit ==
    /\ asked[Manager] = None
    /\ \A s \in Shielders : asked[s] \in {None, ShieldRequest, ConfirmRequest}
    /\ \A e \in Effects : asked[e] \in {None, CancelOperation} \cup {SendRequest(k) : k \in Keys}

(* Clients that wait for the preview of another list.                      *)
Others == {w \in Clients : asked[w] # None /\ asked[w].op = "send" /\ asked[w].key # shown}

(* Once the send has asked for its staging, they are ahead of it.          *)
QueueFits ==
    flow \in {"staging", "authorizing", "confirming"} /\ ~stray =>
        \A i \in 1 .. Len(chain) : chain[i] \in Others =>
            flow = "staging" /\ \E j \in i + 1 .. Len(chain) : chain[j] = Sender

(* The list under review was staged, and no other since.                   *)
UnderConfirmation ==
    \/ flow \in {"authorizing", "confirming"}
    \/ flow = "staging" /\ reply[Sender] # None /\ reply[Sender].outcome = "preview"

ListFits ==
    UnderConfirmation /\ ~stray /\ pendingProposal # None /\ pendingProposal.operation = "send" =>
        pendingProposal.requestKey = shown

SendInv ==
    /\ AdapterInv
    /\ SendTypeOK
    /\ SenderFits
    /\ OthersFit
    /\ QueueFits
    /\ ListFits
===============================================================================
