--------------------------- MODULE ProposalLifecycle ---------------------------
(***************************************************************************)
(* What the proposal registry promises: one transaction is staged at a     *)
(* time, under an identifier no earlier one had; it may be withdrawn until *)
(* it is signed; once signed it is sent, at the fee that was previewed, as *)
(* often as needed, and is dropped only when the node has decided on it or *)
(* when the record of it stands in the wallet database alone.              *)
(***************************************************************************)
EXTENDS Integers

CONSTANTS Fees, None, MaxGeneration, MaxEpoch

VARIABLES
    slot,      \* the proposal in force, or None
    last,      \* the last identifier given: process start and generation
    sent,      \* what was handed to the node
    verdicts   \* what the node decided

vars == <<slot, last, sent, verdicts>>

Kinds == {"send", "shield_coinbase"}

Init ==
    /\ slot = None
    /\ last = <<1, 0>>
    /\ sent = {}
    /\ verdicts = {}

Stage(kind, fee) ==
    /\ slot = None
    /\ last[2] < MaxGeneration
    /\ last' = <<last[1], last[2] + 1>>
    /\ slot' = [id |-> last', kind |-> kind, fee |-> fee, signed |-> FALSE]
    /\ UNCHANGED <<sent, verdicts>>

(* Withdrawn, unsignable, or signed with no way back to its bytes: what    *)
(* was not sent is not sent under this identifier any more.                *)
Release ==
    /\ slot # None
    /\ ~slot.signed
    /\ slot' = None
    /\ UNCHANGED <<last, sent, verdicts>>

Sign ==
    /\ slot # None
    /\ ~slot.signed
    /\ slot' = [slot EXCEPT !.signed = TRUE]
    /\ UNCHANGED <<last, sent, verdicts>>

Send ==
    /\ slot # None
    /\ slot.signed
    /\ sent' = sent \cup {[id |-> slot.id, fee |-> slot.fee, reviewed |-> slot.fee]}
    /\ UNCHANGED <<slot, last, verdicts>>

Decide(answer) ==
    /\ slot # None
    /\ \E t \in sent : t.id = slot.id
    /\ slot' = None
    /\ verdicts' = verdicts \cup {[id |-> slot.id, answer |-> answer]}
    /\ UNCHANGED <<last, sent>>

Restart ==
    /\ last[1] < MaxEpoch
    /\ slot' = None
    /\ last' = <<last[1] + 1, 0>>
    /\ UNCHANGED <<sent, verdicts>>

Next ==
    \/ \E kind \in Kinds, fee \in Fees : Stage(kind, fee)
    \/ Release \/ Sign \/ Send
    \/ \E answer \in {"broadcast", "rejected"} : Decide(answer)
    \/ Restart

Spec == Init /\ [][Next]_vars
===============================================================================
