-------------------------------- MODULE Amounts --------------------------------
(***************************************************************************)
(* The way of an amount from a payment link or the keyboard to the wallet  *)
(* core: a JavaScript number of WEC (src/utils/uris.ts, Send.tsx), the     *)
(* checks of the page (ToAddrBox.tsx), zatoshis (getSendManyJSON.ts), the  *)
(* canonical decimal string of the main process                            *)
(* (wcashZingoNativeAdapter.js) and zatoshis again (wcash.rs).             *)
(*                                                                         *)
(* An amount of the page is counted in tenths of a zatoshi: what is finer  *)
(* behaves like one of them. A decimal string is a record of its whole     *)
(* part and of the digits after the point, their number and their value.   *)
(***************************************************************************)
EXTENDS Naturals

CONSTANTS
    Decimals,   \* of a WEC: 8
    Supply,     \* the supply cap, in WEC: 21 000 000
    Plain,      \* tenths of a zatoshi from which a number is written without exponent
    Refused

ASSUME AmountsAssumption ==
    /\ Decimals \in Nat \ {0} /\ Supply \in Nat \ {0} /\ Plain \in Nat
    /\ Refused \notin Nat \cup [whole : Nat, places : Nat, digits : Nat]

(* The powers of ten: what a place of a decimal string is worth.          *)
Place[n \in Nat] == IF n = 0 THEN 1 ELSE 10 * Place[n - 1]

Zatoshis == Place[Decimals]
MaxMoney == Supply * Zatoshis
MaxTenths == 10 * MaxMoney

-----------------------------------------------------------------------------
(* The page                                                                *)

(* parseZcashURI, updateToField: not above the supply cap.                 *)
Accepted(tenths) == tenths <= MaxTenths

(* ToAddrBox: zero is no error here, and decimals are counted in the text  *)
(* of the number, which has an exponent when it is small.                  *)
FieldError(tenths, available) ==
    /\ tenths # 0
    /\ \/ tenths > available
       \/ tenths < 10
       \/ tenths % 10 # 0 /\ tenths >= Plain

(* getSendManyJSON: toFixed(0), where a half may have been rounded before. *)
SendMany(tenths) ==
    LET down == tenths \div 10
    IN  CASE tenths % 10 < 5 -> {down}
          [] tenths % 10 = 5 -> {down, down + 1}
          [] OTHER -> {down + 1}

-----------------------------------------------------------------------------
(* The main process: toCanonicalAmount                                     *)

(* Mutant: the fraction is not padded with zeros on the left.              *)
DecimalUnpadded(zat) ==
    LET fraction == zat % Zatoshis
        places == CHOOSE n \in 0 .. Decimals :
                    /\ fraction < Place[n]
                    /\ \A k \in 0 .. n - 1 : fraction >= Place[k]
    IN  [whole |-> zat \div Zatoshis, places |-> places, digits |-> fraction]

(* Eight digits, without the zeros on the right.                           *)
Decimal(zat) ==
    LET fraction == zat % Zatoshis
        places == CHOOSE n \in 0 .. Decimals :
                    /\ fraction % Place[Decimals - n] = 0
                    /\ \A k \in 0 .. n - 1 : fraction % Place[Decimals - k] # 0
    IN  [whole |-> zat \div Zatoshis, places |-> places,
         digits |-> fraction \div Place[Decimals - places]]

ToCanonicalAmount(zat) ==
    IF zat < 1 \/ zat > MaxMoney THEN Refused ELSE Decimal(zat)

-----------------------------------------------------------------------------
(* Native: parse_canonical_wcash_amount                                    *)
ParseCanonical(decimal) ==
    LET zat == decimal.whole * Zatoshis + decimal.digits * Place[Decimals - decimal.places]
    IN  IF \/ decimal.places > Decimals
           \/ decimal.places > 0 /\ decimal.digits % 10 = 0
           \/ zat = 0 \/ zat > MaxMoney
        THEN Refused ELSE zat
================================================================================
