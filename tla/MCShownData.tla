------------------------------ MODULE MCShownData ------------------------------
(* Constants for model-checking ShownData.                                 *)
EXTENDS ShownData, TLC

CONSTANTS t1, k1, c1

MCTask == {t1}
MCTick == {k1}
MCConfigures == {c1}
MCFetches == DOMAIN Calls

View(kind, wallets, height, failed) ==
    [fetches |-> {kind}, wallets |-> wallets, height |-> height, failures |-> failed]

MCViews == {
    \* one of whose reads is answered from the cache: a wallet after another
    View("balance", 2, 1, 0),
    \* a call to the server before the reads
    View("history", 1, 1, 1),
    View("addresses", 1, 1, 1),
    \* two reads that tell how far the wallet is scanned: a block is mined
    View("info", 1, 2, 0)}
===============================================================================
