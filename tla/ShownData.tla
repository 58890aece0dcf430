------------------------------ MODULE ShownData ------------------------------
(***************************************************************************)
(* What the user is shown: the fetches of src/src/rpc/rpc.ts (balance,     *)
(* history, addresses, info), the answers the adapter gives them from      *)
(* native reads or from lastBalance (public/wcashZingoNativeAdapter.js),   *)
(* and what else changes the data meanwhile: synchronizations, leaving a   *)
(* wallet, deleting it and making another.                                 *)
(*                                                                         *)
(* A fetch is several calls, each an IPC message answered later, and shows *)
(* what it gathered when the last one is answered. The reads wait for      *)
(* WCASH_RUNTIME; while a synchronization runs, the adapter answers a      *)
(* balance from lastBalance instead. Messages keep their order: the calls  *)
(* a tick of the interval makes at once arrive together.                   *)
(***************************************************************************)
EXTENDS SyncTask, Integers, Sequences, Functions

CONSTANTS
    Ticks,        \* runTaskPromises that can be under way at once
    Configures,   \* configure calls that can be
    Fetches,      \* the fetches considered
    MaxWallets,   \* bound: wallets made one after the other; the last is kept
    MaxHeight,    \* bound: blocks of the chain
    MaxFailures,  \* bound: reads that fail though the wallet is open, and panics
    Views         \* what a behaviour looks at: some of Fetches, within its bounds

(* The calls of each fetch, in their order. "server" is                    *)
(* get_latest_block_server; "height", "balance" and "info" need a balance. *)
Calls == [history   |-> <<"server", "list", "height">>,
          addresses |-> <<"receivers", "receivers">>,
          balance   |-> <<"balance", "balance">>,
          info      |-> <<"info", "height">>]

NeedsBalance(call) == call \in {"height", "balance", "info"}

(* A call whose failure ends its fetch with nothing shown. zingolibValueTransfers, *)
(* fetchWalletHeight and getInfoObject go on with [], 0 and an error instead. *)
Ends(call) == call \in {"server", "receivers", "balance"}

Slots == Ticks \cup Configures

(* What a read behind WCASH_RUNTIME tells: whose data, scanned how far,    *)
(* and the chain's height as of the last synchronization.                  *)
Summaries == [wallet : 1 .. MaxWallets, scanned : 1 .. MaxHeight, tip : 1 .. MaxHeight]
Answers == Summaries \cup {None}

(* The fetches do not wait for each other, so a behaviour follows some of  *)
(* them, in a world as large as they need.                                 *)
ViewRecords == [fetches : SUBSET Fetches, wallets : 1 .. MaxWallets,
                height : 1 .. MaxHeight, failures : 0 .. MaxFailures]

ASSUME DataAssumption ==
    /\ Fetches \subseteq DOMAIN Calls
    /\ Ticks \cap Configures = {}
    /\ MaxWallets \in Nat \ {0} /\ MaxHeight \in Nat \ {0} /\ MaxFailures \in Nat
    /\ None \notin Summaries
    /\ Views \subseteq ViewRecords

VARIABLES
    chain,        \* the height of the chain
    database,     \* the wallet's database, or None
    made,         \* wallets made so far
    failures,     \* reads that have failed, and panics
    carried,      \* the summary each ended synchronization carries
    lastBalance,  \* the adapter's cache
    fetch,        \* per slot and fetch: the next call, its native read, answers
    launching,    \* the ticks whose poll makes them call run_sync
    todo,         \* per configure: the fetches it still makes, or None
    timer,        \* updateTimerID is set
    session,      \* "loading", "open", or the call doDelete makes next
    shown,        \* per fetch: the answers last shown
    view          \* what this behaviour looks at; it never changes

readVars == <<lastBalance, fetch, failures>>
pageVars == <<launching, todo, timer, session, shown, view>>
dataVars == <<chain, database, made, carried, readVars, pageVars>>
allVars == <<syncVars, dataVars>>

Sessions == {"loading", "open", "stop", "deinitialize", "delete", "await"}

(* next: the call it makes next or awaits; worker: of the native read for  *)
(* that call, and its answer, None when it failed.                         *)
Idle == [next |-> 0, worker |-> "none", answer |-> None, got |-> <<>>]

DataTypeOK ==
    /\ SyncTypeOK
    /\ chain \in 1 .. MaxHeight
    /\ database \in Answers
    /\ made \in 0 .. MaxWallets
    /\ failures \in 0 .. MaxFailures
    /\ carried \in [Tasks -> Answers]
    /\ lastBalance \in Answers
    /\ fetch \in [Slots -> [Fetches -> [next : Nat, worker : {"none", "asked", "done"},
                                       answer : Answers, got : Seq(Answers)]]]
    /\ \A k \in Slots, f \in Fetches :
        /\ fetch[k][f].next \in {0, Len(fetch[k][f].got) + 1}
        /\ fetch[k][f].next = 0 => fetch[k][f] = Idle
        /\ fetch[k][f].next <= Len(Calls[f]) + 1
        /\ fetch[k][f].worker # "none" => fetch[k][f].next \in DOMAIN Calls[f]
    /\ launching \subseteq Ticks
    /\ todo \in [Configures -> {None} \cup SUBSET Fetches]
    /\ timer \in BOOLEAN
    /\ session \in Sessions
    /\ shown \in [Fetches -> Seq(Answers)]
    /\ \A f \in Fetches : Len(shown[f]) \in {0, Len(Calls[f])}
    /\ view \in ViewRecords

Nothing == [f \in Fetches |-> <<>>]

DataInit ==
    /\ SyncInit
    /\ chain = 1
    /\ database = None
    /\ made = 0
    /\ failures = 0
    /\ carried = [t \in Tasks |-> None]
    /\ lastBalance = None
    /\ fetch = [k \in Slots |-> [f \in Fetches |-> Idle]]
    /\ launching = {}
    /\ todo = [c \in Configures |-> None]
    /\ timer = FALSE
    /\ session = "loading"
    /\ shown = Nothing
    /\ view \in Views

-----------------------------------------------------------------------------
(* One fetch.                                                              *)

(* currentBalance                                                          *)
Cached(call, phase) ==
    /\ NeedsBalance(call)
    /\ phase = "running"
    /\ lastBalance # None

(* The next call of a fetch arrives at the adapter. get_latest_block_server *)
(* answers from the cache too, or with 1 if the endpoint accepts a         *)
(* connection; other answers wait for a native read.                       *)
Arrived(f, s, phase) ==
    IF Calls[f][s.next] = "server" \/ Cached(Calls[f][s.next], phase)
    THEN [s EXCEPT !.next = @ + 1, !.got = Append(@, lastBalance)]
    ELSE [s EXCEPT !.worker = "asked"]

Started(f, phase) == Arrived(f, [Idle EXCEPT !.next = 1], phase)

At(k, f) == fetch[k][f]

Becomes(k, f, s) == fetch' = [fetch EXCEPT ![k][f] = s]

CallArrives(k, f) ==
    /\ At(k, f).next \in DOMAIN Calls[f]
    /\ At(k, f).worker = "none"
    /\ Becomes(k, f, Arrived(f, At(k, f), syncState))
    /\ UNCHANGED <<syncVars, chain, database, made, carried, lastBalance, failures, pageVars>>

(* The endpoint does not accept a connection.                              *)
ProbeFails(k, f) ==
    /\ At(k, f).got = <<None>>
    /\ f = "history"
    /\ Becomes(k, f, Idle)
    /\ UNCHANGED <<syncVars, chain, database, made, carried, lastBalance, failures, pageVars>>

Reads(k, f, result) ==
    /\ At(k, f).worker = "asked"
    /\ Unlocked
    /\ Becomes(k, f, [At(k, f) EXCEPT !.worker = "done", !.answer = result])
    /\ UNCHANGED <<syncVars, chain, database, made, carried, lastBalance, pageVars>>

(* wcash_balance, wcash_receivers, wcash_confirmed_transactions            *)
ReadSucceeds(k, f) ==
    /\ runtime = "open"
    /\ database # None
    /\ Reads(k, f, database)
    /\ UNCHANGED failures

(* The wallet is not open, or its database cannot be read.                 *)
ReadRefused(k, f) ==
    /\ runtime # "open" \/ database = None
    /\ Reads(k, f, None)
    /\ UNCHANGED failures

ReadFails(k, f) ==
    /\ failures < view.failures
    /\ failures' = failures + 1
    /\ Reads(k, f, None)

(* Mutant: the first answer of a fetch is lost when the next one comes.    *)
AnsweredLast(s) ==
    [Idle EXCEPT !.next = s.next + 1, !.got = <<s.answer>>]

Answered(s) ==
    [Idle EXCEPT !.next = s.next + 1, !.got = Append(s.got, s.answer)]

(* The continuation of a native read: a balance is kept as lastBalance.    *)
ReadReturns(k, f) ==
    LET s == At(k, f)
        call == Calls[f][s.next]
    IN  /\ s.worker = "done"
        /\ lastBalance' = IF NeedsBalance(call) /\ s.answer # None THEN s.answer ELSE lastBalance
        /\ Becomes(k, f, IF s.answer = None /\ Ends(call) THEN Idle ELSE Answered(s))
        /\ UNCHANGED <<syncVars, chain, database, made, carried, failures, pageVars>>

(* fnSetTotalBalance and the other setters.                                *)
Shows(k, f) ==
    /\ At(k, f).next > Len(Calls[f])
    /\ shown' = [shown EXCEPT ![f] = At(k, f).got]
    /\ Becomes(k, f, Idle)
    /\ UNCHANGED <<syncVars, chain, database, made, carried, lastBalance, failures,
                   launching, todo, timer, session, view>>

FetchStep(k, f) ==
    \/ CallArrives(k, f) \/ ProbeFails(k, f)
    \/ ReadSucceeds(k, f) \/ ReadRefused(k, f) \/ ReadFails(k, f)
    \/ ReadReturns(k, f) \/ Shows(k, f)

AllIdle(k) == \A f \in Fetches : At(k, f) = Idle

-----------------------------------------------------------------------------
(* runTaskPromises and configure.                                          *)

(* The poll arrives first: what it consumed, the balances see as idle.     *)
TickFires(k) ==
    /\ timer
    /\ AllIdle(k)
    /\ k \notin launching
    /\ IF syncState \in {"complete", "failed"}
       THEN PollConsumes /\ UNCHANGED launching
       ELSE UNCHANGED syncVars /\ launching' = launching \cup {k}
    /\ fetch' = [fetch EXCEPT ![k] =
        [f \in Fetches |-> IF f \in view.fetches THEN Started(f, syncState') ELSE Idle]]
    /\ UNCHANGED <<chain, database, made, carried, lastBalance, failures,
                   todo, timer, session, shown, view>>

RefreshSync(k) ==
    /\ k \in launching
    /\ launching' = launching \ {k}
    /\ \/ \E t \in Tasks : SyncLaunched(t)
       \/ LaunchThrows
       \/ syncState = "running" /\ UNCHANGED syncVars
    /\ UNCHANGED <<chain, database, made, carried, readVars, todo, timer, session, shown,
                   view>>

(* configure makes its fetches one after the other and sets the interval.  *)
Place == [history |-> 1, addresses |-> 2, balance |-> 3, info |-> 4]

ConfigureFetches(c) ==
    /\ todo[c] # None
    /\ AllIdle(c)
    /\ \E f \in todo[c] :
        /\ \A g \in todo[c] : Place[f] <= Place[g]
        /\ todo' = [todo EXCEPT ![c] = @ \ {f}]
        /\ Becomes(c, f, Started(f, syncState))
    /\ UNCHANGED <<syncVars, chain, database, made, carried, lastBalance, failures,
                   launching, timer, session, shown, view>>

ConfigureEnds(c) ==
    /\ todo[c] = {}
    /\ AllIdle(c)
    /\ todo' = [todo EXCEPT ![c] = None]
    /\ timer' = TRUE
    /\ UNCHANGED <<syncVars, chain, database, made, carried, readVars, launching, session, shown,
                   view>>

-----------------------------------------------------------------------------
(* The chain and the synchronizations.                                     *)

BlockMined ==
    /\ chain < view.height
    /\ chain' = chain + 1
    /\ UNCHANGED <<syncVars, database, made, carried, readVars, pageVars>>

(* A synchronization that succeeds has scanned to the tip and carries the  *)
(* balance there; one that fails may have got anywhere, and learnt the tip. *)
DataSyncEnds(t) ==
    /\ SyncEnds(t)
    /\ database' \in
        IF task'[t] = "succeeded"
        THEN {[database EXCEPT !.scanned = chain, !.tip = chain]}
        ELSE {database} \cup {[database EXCEPT !.scanned = h, !.tip = chain] :
                              h \in database.scanned .. chain}
    /\ carried' = [carried EXCEPT ![t] = IF task'[t] = "succeeded" THEN database' ELSE None]
    /\ UNCHANGED <<chain, made, readVars, pageVars>>

DataWorkerStep(t) ==
    \/ DataSyncEnds(t)
    \/ (SyncBegins(t) \/ SyncRefused(t) \/ SyncDrops(t)) /\ UNCHANGED dataVars

DataSyncPanics(t) ==
    /\ SyncPanics(t)
    /\ failures < view.failures
    /\ failures' = failures + 1
    /\ carried' = [carried EXCEPT ![t] = None]
    /\ UNCHANGED <<chain, database, made, lastBalance, fetch, pageVars>>

(* Mutant: the result is left to the poll.                                 *)
DataSettlesUnkept(t) ==
    /\ Settles(t)
    /\ carried' = [carried EXCEPT ![t] = None]
    /\ UNCHANGED <<chain, database, made, readVars, pageVars>>

(* The result of a synchronization is the cached balance.                  *)
DataSettles(t) ==
    /\ Settles(t)
    /\ lastBalance' = IF syncState' = "complete" THEN carried[t] ELSE lastBalance
    /\ carried' = [carried EXCEPT ![t] = None]
    /\ UNCHANGED <<chain, database, made, fetch, failures, pageVars>>

-----------------------------------------------------------------------------
(* What the user does.                                                     *)

Moves(from, to) ==
    /\ session = from
    /\ session' = to
    /\ UNCHANGED <<chain, carried, fetch, failures, launching, view>>

(* submitAction: wcash_create or wcash_restore; then the wallet is loaded. *)
WalletMade ==
    /\ Moves("loading", "loading")
    /\ database = None
    /\ made < view.wallets
    /\ RuntimeStored
    /\ made' = made + 1
    /\ \E h \in 1 .. chain : database' = [wallet |-> made', scanned |-> h, tip |-> h]
    /\ shown' = Nothing
    /\ timer' = FALSE
    /\ UNCHANGED <<lastBalance, todo>>

(* The loading screen: initFromB64, runRPCConfigure.                       *)
WalletLoaded(c) ==
    /\ Moves("loading", "open")
    /\ database # None
    /\ todo[c] = None
    /\ RuntimeStored
    /\ todo' = [todo EXCEPT ![c] = view.fetches]
    /\ UNCHANGED <<database, made, lastBalance, timer, shown>>

(* navigateToLoadingScreenChangingWallet. Fetches under way go on.         *)
WalletLeft ==
    /\ Moves("open", "loading")
    /\ shown' = Nothing
    /\ timer' = FALSE
    /\ UNCHANGED <<syncVars, database, made, lastBalance, todo>>

(* doDelete                                                                *)
RemovalBegins ==
    /\ Moves("open", "stop")
    /\ made < view.wallets
    /\ timer' = FALSE
    /\ UNCHANGED <<syncVars, database, made, lastBalance, todo, shown>>

RemovalStops ==
    /\ Moves("stop", "deinitialize")
    /\ StopRequested
    /\ UNCHANGED <<database, made, lastBalance, todo, timer, shown>>

RemovalDeinitializes ==
    /\ Moves("deinitialize", "delete")
    /\ \/ Deinitialized /\ lastBalance' = None
       \/ UNCHANGED <<syncVars, lastBalance>>
    /\ UNCHANGED <<database, made, todo, timer, shown>>

RemovalDeletes ==
    /\ Moves("delete", "await")
    /\ DeleteStops
    /\ UNCHANGED <<database, made, lastBalance, todo, timer, shown>>

(* wcash_delete closes the runtime and removes the files.                  *)
DatabaseRemoved ==
    /\ DeleteCloses
    /\ database' = None
    /\ UNCHANGED <<chain, made, carried, readVars, pageVars>>

(* Refused before anything was removed: the page stays.                    *)
RemovalFails ==
    /\ Moves("await", "open")
    /\ deletion = "unlocking"
    /\ DeleteFails
    /\ UNCHANGED <<database, made, lastBalance, todo, timer, shown>>

(* To another wallet, or, when none is left, back to the page.             *)
RemovalEnds ==
    /\ Moves("await", "loading")
    /\ DeleteEnds
    /\ lastBalance' = None
    /\ shown' \in {shown, Nothing}
    /\ UNCHANGED <<database, made, todo, timer>>

UserStep ==
    \/ WalletMade \/ WalletLeft
    \/ \E c \in Configures : WalletLoaded(c)
    \/ RemovalBegins

RemovalStep ==
    RemovalStops \/ RemovalDeinitializes \/ RemovalDeletes \/ RemovalFails \/ RemovalEnds

-----------------------------------------------------------------------------
DataNext ==
    \/ \E k \in Slots, f \in Fetches : FetchStep(k, f)
    \/ \E k \in Ticks : TickFires(k) \/ RefreshSync(k)
    \/ \E c \in Configures : ConfigureFetches(c) \/ ConfigureEnds(c)
    \/ \E t \in Tasks : DataWorkerStep(t) \/ DataSyncPanics(t) \/ DataSettles(t)
    \/ BlockMined
    \/ UserStep
    \/ RemovalStep \/ DatabaseRemoved

DataSpec == DataInit /\ [][DataNext]_allVars

(* The interval fires while it is set, every call is answered, and the     *)
(* wallet core ends what it began. Nothing is assumed of the user or of    *)
(* the chain, nor that a synchronization ever succeeds.                    *)
DataFairness ==
    /\ WF_allVars(\E k \in Ticks : TickFires(k))
    /\ \A k \in Ticks : WF_allVars(RefreshSync(k))
    /\ \A k \in Slots : WF_allVars(\E f \in Fetches : FetchStep(k, f))
    /\ \A t \in Tasks : WF_allVars(DataWorkerStep(t) \/ DataSettles(t))

DataFairSpec == DataSpec /\ DataFairness

-----------------------------------------------------------------------------
(* An open wallet and a running synchronization have their database: while *)
(* wcash_delete removes the files, nobody scans into them, and the wallet  *)
(* made next is not the one a former synchronization writes to.            *)
OpenHasDatabase ==
    runtime = "open" \/ ~Unlocked => database # None

(* What is shown is what the open wallet's database holds, once that       *)
(* changes no more, the interval is set and synchronizations succeed again *)
(* and again: nothing a former wallet left in the cache or in an answer    *)
(* under way, and no fetch that ended late, keeps old data on the screen.  *)
ShownCatchesUp ==
    /\ <>[](timer /\ runtime = "open")
    /\ <>[][FALSE]_database
    /\ []<>(syncState = "complete")
    => <>[](\A f \in view.fetches : \A i \in DOMAIN Calls[f] :
                shown[f] # <<>> /\ shown[f][i] = database)
===============================================================================
