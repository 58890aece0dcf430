------------------------------- MODULE AppWindow -------------------------------
(***************************************************************************)
(* The life of the application's one window: payment links that reach it   *)
(* in every phase (handleZcashUri and get-pending-uri of electron.js, the  *)
(* Sidebar), the pages and the loading screen under them, the amount on    *)
(* the Send page, and the exit: the close handler, the flush of the        *)
(* renderer, the cleanup of the pending proposal, the failsafe.            *)
(*                                                                         *)
(* Links are told apart by name; the ones that carry the same amount are   *)
(* different links.                                                        *)
(***************************************************************************)
EXTENDS Amounts

CONSTANTS
    Links,
    AmountOf,       \* the amount of each link, in tenths of a zatoshi
    Typed,          \* amounts the user types
    Balance,        \* what is spendable, in tenths of a zatoshi
    CleanupTicks,   \* 750 ms: releasePendingProposalBeforeExit
    FlushTicks,     \* 800 ms: appquittingListener
    FailsafeTicks,  \* 3 s: the close handler
    None

ASSUME WindowAssumption ==
    /\ AmountOf \in [Links -> Nat]
    /\ Typed \subseteq Nat /\ Balance \in Nat
    /\ CleanupTicks \in Nat \ {0} /\ FlushTicks \in Nat \ {0}
    /\ CleanupTicks + FlushTicks < FailsafeTicks
    /\ FailsafeTicks \in Nat
    /\ None \notin Links \cup Nat

Ticks == 0 .. FailsafeTicks

VARIABLES
    page,      \* what the window shows; the Sidebar is part of "pages" only
    wallet,    \* what currentWallet, its open error, readOnly and wallets say
    load       \* LoadingScreen: the load under way

VARIABLES
    arrived,   \* the links so far
    pending,   \* pendingZcashUri
    asked,     \* consumePending awaits get-pending-uri: what it will do
    parked,    \* pendingUriRef of the Sidebar
    parsing,   \* links payURI is at
    acted,     \* history: how often each link has led to a page or to an error
    toaddr     \* the amount of the Send page

VARIABLES
    closing,   \* ticks since waitingForClose was set, or None
    quitting,  \* how far the renderer's answer is
    heard,     \* history: when the renderer took up appquitting
    waited,    \* ticks in the present wait of the answer
    cleanup,   \* exitProposalCleanup
    cleanupAge \* ticks it has taken

screen == <<page, wallet, load>>
held == <<pending, asked, parked, parsing>>
links == <<arrived, held, acted, toaddr>>
exit == <<closing, quitting, heard, waited, cleanup, cleanupAge>>
windowVars == <<screen, links, exit>>

WindowTypeOK ==
    /\ page \in {"none", "boot", "locked", "loading", "pages", "exited"}
    /\ wallet \in {"unknown", "ready", "watch", "none", "failed", "watch failed"}
    /\ load \in BOOLEAN
    /\ arrived \subseteq Links
    /\ pending \in Links \cup {None}
    /\ asked \in {"no", "pay", "refuse"}
    /\ parked \in Links \cup {None}
    /\ parked # None => page \in {"pages", "exited"}
    /\ parsing \subseteq Links
    /\ acted \in [Links -> 0 .. 2]
    /\ toaddr \in Nat
    /\ closing \in Ticks \cup {None}
    /\ quitting \in {"no", "flushing", "releasing"}
    /\ heard \in Ticks \cup {None}
    /\ waited \in 0 .. FlushTicks + CleanupTicks
    /\ cleanup \in {"no", "running", "ended"}
    /\ cleanupAge \in Ticks

WindowInit ==
    /\ page = "none" /\ wallet = "unknown" /\ load = FALSE
    /\ arrived = {}
    /\ pending = None /\ asked = "no" /\ parked = None /\ parsing = {}
    /\ acted = [l \in Links |-> 0]
    /\ toaddr = 0
    /\ closing = None /\ quitting = "no" /\ heard = None /\ waited = 0
    /\ cleanup = "no" /\ cleanupAge = 0

Open == closing = None

-----------------------------------------------------------------------------
(* Links in the Sidebar                                                    *)

Known == {"ready", "watch", "none"}

(* A payment, or a message that there is nothing to pay from.              *)
Pays(link, way) ==
    /\ parsing' = IF way = "pay" THEN parsing \cup {link} ELSE parsing
    /\ acted' = IF way = "pay" THEN acted ELSE [acted EXCEPT ![link] = @ + 1]

WayOf(w) == IF w = "ready" THEN "pay" ELSE "refuse"

(* Mutant: nothing is done for a watch-only wallet.                        *)
ConsumesForOwners(w) ==
    IF w \notin Known \ {"watch"}
    THEN UNCHANGED <<asked, parked, parsing, acted>>
    ELSE IF parked # None
    THEN Pays(parked, WayOf(w)) /\ parked' = None /\ UNCHANGED asked
    ELSE /\ asked' = IF asked = "no" THEN WayOf(w) ELSE asked
         /\ UNCHANGED <<parked, parsing, acted>>

(* The effect of currentWallet, its open error and wallets, which runs     *)
(* when the Sidebar is mounted and when one of them changes. A request     *)
(* under way is answered first, and later ones then find nothing.          *)
Consumes(w) ==
    IF w \notin Known
    THEN UNCHANGED <<asked, parked, parsing, acted>>
    ELSE IF parked # None
    THEN Pays(parked, WayOf(w)) /\ parked' = None /\ UNCHANGED asked
    ELSE /\ asked' = IF asked = "no" THEN WayOf(w) ELSE asked
         /\ UNCHANGED <<parked, parsing, acted>>

(* Mutant: the main process keeps the link it answers with.                *)
PendingStays ==
    /\ Open /\ asked # "no"
    /\ IF pending = None THEN UNCHANGED <<parsing, acted>> ELSE Pays(pending, asked)
    /\ asked' = "no" /\ parked' = None
    /\ UNCHANGED <<screen, arrived, pending, toaddr, exit>>

PendingAnswered ==
    /\ Open /\ asked # "no"
    /\ IF pending = None THEN UNCHANGED <<parsing, acted>> ELSE Pays(pending, asked)
    /\ pending' = None
    /\ asked' = "no" /\ parked' = None
    /\ UNCHANGED <<screen, arrived, toaddr, exit>>

(* payURI, after parseZcashURI: the Send page, whatever the page was.      *)
LinkParsed(link) ==
    /\ Open /\ link \in parsing
    /\ acted' = [acted EXCEPT ![link] = @ + 1]
    /\ IF Accepted(AmountOf[link])
       THEN /\ toaddr' = AmountOf[link]
            /\ page' = "pages"
            /\ IF page = "pages" \/ wallet \notin Known THEN UNCHANGED asked
               ELSE asked' = IF asked = "no" THEN WayOf(wallet) ELSE asked
       ELSE UNCHANGED <<toaddr, page, asked>>
    /\ parsing' = parsing \ {link}
    /\ UNCHANGED <<wallet, load, arrived, pending, parked, exit>>

-----------------------------------------------------------------------------
(* Links from the system: handleZcashUri                                   *)

LinkBeforeWindow(link) ==
    /\ page = "none"
    /\ pending' = link
    /\ UNCHANGED <<asked, parked, parsing, acted>>

(* The window is there and the Sidebar is not: nobody listens.             *)
LinkUnheard ==
    /\ page \in {"boot", "locked", "loading"}
    /\ UNCHANGED <<held, acted>>

(* payuri looks at readOnly before it looks at the open error.             *)
LinkHeard(link) ==
    /\ page = "pages"
    /\ IF wallet \in Known \cup {"watch failed"}
       THEN Pays(link, WayOf(wallet)) /\ UNCHANGED parked
       ELSE parked' = link /\ UNCHANGED <<parsing, acted>>
    /\ UNCHANGED <<pending, asked>>

LinkArrives(link) ==
    /\ Open /\ link \notin arrived
    /\ arrived' = arrived \cup {link}
    /\ LinkBeforeWindow(link) \/ LinkUnheard \/ LinkHeard(link)
    /\ UNCHANGED <<screen, toaddr, exit>>

-----------------------------------------------------------------------------
(* The pages                                                               *)

WindowCreated ==
    /\ page = "none"
    /\ page' = "boot"
    /\ UNCHANGED <<wallet, load, links, exit>>

LockDecided ==
    /\ Open /\ page = "boot"
    /\ \/ page' = "locked" /\ UNCHANGED load
       \/ page' = "loading" /\ load' = TRUE
    /\ UNCHANGED <<wallet, links, exit>>

Unlocked ==
    /\ Open /\ page = "locked"
    /\ page' = "loading" /\ load' = TRUE
    /\ UNCHANGED <<wallet, links, exit>>

(* The loading screen names the wallet before it opens it, with readOnly   *)
(* as it was. The Sidebar notices it where a link has led from the loading *)
(* screen to the Send page.                                                *)
WalletNamed ==
    /\ Open /\ load
    /\ wallet' \in IF wallet \in {"ready", "watch"} THEN {wallet} ELSE {"ready", "watch"}
    /\ IF page = "pages" THEN Consumes(wallet') ELSE UNCHANGED <<asked, parked, parsing, acted>>
    /\ UNCHANGED <<page, load, arrived, pending, toaddr, exit>>

(* A failed load leaves readOnly as it was.                                *)
Failed(w) == IF w \in {"watch", "watch failed"} THEN "watch failed" ELSE "failed"

(* navigateToDashboard mounts the Sidebar; where it is mounted already, it *)
(* does not see readOnly change.                                           *)
LoadEnds ==
    /\ Open /\ load
    /\ load' = FALSE
    /\ wallet' \in {"ready", "watch", "none", Failed(wallet)}
    /\ page' = "pages"
    /\ IF page = "loading" \/ wallet' = "none" THEN Consumes(wallet')
       ELSE UNCHANGED <<asked, parked, parsing, acted>>
    /\ UNCHANGED <<arrived, pending, toaddr, exit>>

(* navigateToLoadingScreenChangingWallet takes the open error away before  *)
(* it leaves: the Sidebar may see that or not. A parked link goes with the *)
(* Sidebar, and the Send page is emptied.                                  *)
WalletChanges ==
    /\ Open /\ page = "pages" /\ ~load
    /\ page' = "loading" /\ load' = TRUE
    /\ wallet' = CASE wallet = "failed" -> "ready"
                    [] wallet = "watch failed" -> "watch"
                    [] OTHER -> wallet
    /\ \/ parked' = None /\ UNCHANGED <<asked, parsing, acted>>
       \/ wallet # wallet' /\ Consumes(wallet')
    /\ toaddr' = 0
    /\ UNCHANGED <<arrived, pending, exit>>

(* Bound: before the first link, which would only replace it.              *)
Types(amount) ==
    /\ Open /\ page = "pages" /\ arrived = {}
    /\ Accepted(amount)
    /\ toaddr' = amount
    /\ UNCHANGED <<screen, arrived, held, acted, exit>>

-----------------------------------------------------------------------------
(* The exit                                                                *)

(* The adapter is there as soon as the loading screen has used it. Bound:  *)
(* before the first link, since the exit looks at none.                    *)
Closes ==
    /\ Open /\ page # "none" /\ arrived = {}
    /\ closing' = 0
    /\ IF page \in {"loading", "pages"}
       THEN cleanup' = "running" ELSE UNCHANGED cleanup
    /\ UNCHANGED <<screen, links, quitting, heard, waited, cleanupAge>>

Closing == ~Open /\ page # "exited"

CleanupEnds ==
    /\ Closing /\ cleanup = "running"
    /\ cleanup' = "ended"
    /\ UNCHANGED <<screen, links, closing, quitting, heard, waited, cleanupAge>>

(* appquittingListener, as soon as the renderer gets to it.                *)
Hears ==
    /\ Closing /\ quitting = "no"
    /\ quitting' = "flushing"
    /\ heard' = closing
    /\ waited' = 0
    /\ UNCHANGED <<screen, links, closing, cleanup, cleanupAge>>

(* Mutant: appquitdone does not look after the proposal.                   *)
FlushedUnreleased ==
    /\ Closing /\ quitting = "flushing"
    /\ quitting' = "releasing"
    /\ waited' = CleanupTicks
    /\ UNCHANGED <<screen, links, closing, heard, cleanup, cleanupAge>>

(* The wallet is saved or the cap is reached: appquitdone joins the        *)
(* cleanup under way, or begins another one.                               *)
Flushed ==
    /\ Closing /\ quitting = "flushing"
    /\ quitting' = "releasing"
    /\ waited' = 0
    /\ IF cleanup = "running" THEN UNCHANGED <<cleanup, cleanupAge>>
       ELSE cleanup' = "running" /\ cleanupAge' = 0
    /\ UNCHANGED <<screen, links, closing, heard>>

Exits ==
    /\ page' = "exited"
    /\ UNCHANGED <<wallet, load, links, exit>>

Released ==
    /\ Closing /\ quitting = "releasing"
    /\ cleanup = "ended" \/ waited = CleanupTicks
    /\ Exits

(* Mutant: the failsafe asks whether the renderer has answered.            *)
FailsafeForSilent ==
    /\ Closing /\ closing = FailsafeTicks /\ heard # None
    /\ Exits

Failsafe ==
    /\ Closing /\ closing = FailsafeTicks
    /\ Exits

(* Mutant: the wait for the wallet to be saved has no cap.                 *)
TimePassesUncapped ==
    /\ Closing /\ closing < FailsafeTicks
    /\ ~(quitting = "releasing" /\ waited = CleanupTicks)
    /\ closing' = closing + 1
    /\ waited' = IF quitting = "no" THEN 0 ELSE waited + 1
    /\ cleanupAge' = IF cleanup = "running" THEN cleanupAge + 1 ELSE cleanupAge
    /\ UNCHANGED <<screen, links, quitting, heard, cleanup>>

(* A timer that is due fires before more time passes.                      *)
TimePasses ==
    /\ Closing /\ closing < FailsafeTicks
    /\ ~(quitting = "flushing" /\ waited = FlushTicks)
    /\ ~(quitting = "releasing" /\ waited = CleanupTicks)
    /\ closing' = closing + 1
    /\ waited' = IF quitting = "no" THEN 0 ELSE waited + 1
    /\ cleanupAge' = IF cleanup = "running" THEN cleanupAge + 1 ELSE cleanupAge
    /\ UNCHANGED <<screen, links, quitting, heard, cleanup>>

WindowNext ==
    \/ \E link \in Links : LinkArrives(link) \/ LinkParsed(link)
    \/ PendingAnswered
    \/ WindowCreated \/ LockDecided \/ Unlocked \/ WalletNamed \/ LoadEnds \/ WalletChanges
    \/ \E amount \in Typed : Types(amount)
    \/ Closes \/ CleanupEnds \/ Hears \/ Flushed \/ Released \/ Failsafe \/ TimePasses

WindowSpec == WindowInit /\ [][WindowNext]_windowVars

(* The main process answers, parsing ends, time passes and timers fire.    *)
WindowFairSpec ==
    /\ WindowSpec
    /\ WF_windowVars(PendingAnswered)
    /\ \A link \in Links : WF_windowVars(LinkParsed(link))
    /\ WF_windowVars(TimePasses)
    /\ WF_windowVars(Flushed)
    /\ WF_windowVars(Released)
    /\ WF_windowVars(Failsafe)

-----------------------------------------------------------------------------
(* No link is paid or refused twice, however often the Sidebar is mounted, *)
(* the wallet changes and get-pending-uri is asked for.                    *)
LinkActedOnce == \A link \in Links : acted[link] <= 1

(* "Consume any pending wcash: URI once the app knows its wallet state": a *)
(* link of before the window is acted on as soon as there are pages over a *)
(* wallet in a known state, a watch-only wallet and no wallet included,    *)
(* and so is one that payURI has begun with.                               *)
KnownWalletActs ==
    \A link \in Links :
        \/ link \in parsing
        \/ pending = link /\ page = "pages" /\ wallet \in Known
        ~> acted[link] > 0 \/ ~Open

(* What the page lets pass reaches the wallet core as the nearest number   *)
(* of zatoshis: the string of the main process is canonical, in range and  *)
(* of the same value.                                                      *)
AmountIsExact ==
    toaddr # 0 /\ ~FieldError(toaddr, Balance) =>
        \A zat \in SendMany(toaddr) :
            LET sent == ToCanonicalAmount(zat)
            IN  /\ sent # Refused /\ ParseCanonical(sent) = zat
                /\ toaddr <= 10 * zat + 5 /\ 10 * zat <= toaddr + 5

(* A renderer that takes up appquitting in time is not cut off by the      *)
(* failsafe: it flushes, and the cleanup of the proposal has ended or had  *)
(* its 750 ms.                                                             *)
OrderlyExit ==
    [][/\ page # "exited" /\ page' = "exited"
       /\ heard # None /\ heard + FlushTicks + CleanupTicks < FailsafeTicks
       => /\ quitting = "releasing"
          /\ cleanup = "ended" \/ cleanupAge >= CleanupTicks]_windowVars

(* What makes them inductive: a link is in one place at a time, and the    *)
(* waits of the exit add up.                                               *)
LinksFit ==
    \A link \in Links :
        /\ acted[link] <= 1
        /\ link \in parsing => acted[link] = 0 /\ pending # link /\ parked # link
        /\ pending = link => acted[link] = 0 /\ parked # link
        /\ parked = link => acted[link] = 0
        /\ link \notin arrived =>
              acted[link] = 0 /\ pending # link /\ parked # link /\ link \notin parsing

ExitFits ==
    /\ Open => cleanup = "no"
    /\ heard = None <=> quitting = "no"
    /\ IF Open THEN quitting = "no" /\ cleanupAge = 0 ELSE cleanupAge <= closing
    /\ quitting = "flushing" => waited <= FlushTicks /\ closing = heard + waited
    /\ quitting = "releasing" =>
          /\ waited <= CleanupTicks /\ closing <= heard + FlushTicks + waited
          /\ cleanup = "ended" \/ (cleanup = "running" /\ cleanupAge >= waited)

(* The Send page holds what it accepted.                                   *)
AmountFits == Accepted(toaddr)

WindowInv == WindowTypeOK /\ LinksFit /\ ExitFits

(* A window that is closed goes, with or without an answer.                *)
CloseExits == ~Open ~> page = "exited"
================================================================================
