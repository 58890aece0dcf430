----------------------------- MODULE ReviewedFee -----------------------------
(***************************************************************************)
(* ReviewedSend with the fee that the Send page and its modal show.        *)
(*                                                                         *)
(* The page keeps the fee of the preview answered last, and would show it  *)
(* with a list that has just replaced the previewed one. Here the Send     *)
(* button is clicked only when the fee is that of the list shown, so that  *)
(* a violation does not rest on that delay.                                *)
(***************************************************************************)
EXTENDS ReviewedSend

VARIABLES
    sendFee,    \* the fee on the page and the list it was previewed for, or None
    feeShown    \* the fee that the modal showed at the click, or None

feeVars == <<sendVars, sendFee, feeShown>>

FeeInit ==
    /\ SendInit
    /\ sendFee = None
    /\ feeShown = None

(* An error clears the fee.                                                *)
PreviewAnswered(e) ==
    /\ asked[e] # None /\ asked[e].op = "send"
    /\ ReadsQuietly(e)
    /\ sendFee' = IF reply[e].outcome = "preview"
                  THEN [list |-> asked[e].key, fee |-> reply[e].fee]
                  ELSE None
    /\ UNCHANGED feeShown

(* The modal is cancelled, or the page is left and its fee with it.        *)
ModalCancelled(e) ==
    /\ Cancels(e)
    /\ sendFee' \in {sendFee, None}
    /\ UNCHANGED feeShown

FeeClicked ==
    /\ sendFee # None
    /\ SendButton
    /\ shown' = sendFee.list
    /\ feeShown' = sendFee.fee
    /\ UNCHANGED sendFee

(* A transaction sent clears the page.                                     *)
SendAnswered ==
    /\ ConfirmAnswered
    /\ sendFee' = IF reply[Sender].outcome = "txids" THEN None ELSE sendFee
    /\ UNCHANGED feeShown

FeeUnchanged ==
    /\ \/ \E e \in Effects : \/ \E key \in Keys : Previews(e, key)
                             \/ (asked[e] = CancelOperation /\ ReadsQuietly(e))
       \/ NotVerified \/ Verified \/ StagingAnswered \/ Authorized \/ NotAuthorized
       \/ Shield \/ Main
    /\ UNCHANGED <<sendFee, feeShown>>

FeeNext ==
    \/ \E e \in Effects : PreviewAnswered(e) \/ ModalCancelled(e)
    \/ FeeClicked \/ SendAnswered
    \/ FeeUnchanged

FeeSpec == FeeInit /\ [][FeeNext]_feeVars

-----------------------------------------------------------------------------
(* The fee of a confirmed transaction is the fee the modal showed, unless  *)
(* the page had another list previewed between the calls of                *)
(* sendTransaction.                                                        *)
ConfirmsReviewedFee ==
    flow = "confirming" /\ ~stray /\ reply[Sender] # None /\ reply[Sender].outcome = "txids" =>
        reply[Sender].fee = feeShown
===============================================================================
