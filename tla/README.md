# Wcash Wallet desktop: TLA+ models and proofs

This directory specifies the parts of the wallet where order, failure and
concurrency decide whether money is handled correctly, checks small instances
with TLC, and proves the core for every instance with TLAPS. Paths below are
relative to the repository (`src/` here is its root).

## The system

The application is an Electron program in three layers.

| Component | Where | State it keeps | Operations |
|---|---|---|---|
| Native registry | `src/native/src/wcash.rs` | the open runtime, the active proposal and its generation counter, the active sync, each behind a mutex; the wallet database on disk | propose (send, shield), confirm, cancel, create, restore, open, delete, sync, stop, queries |
| Main-process adapter | `src/public/wcashZingoNativeAdapter.js` | the previewed proposal, a promise chain, the last balance, the sync state, the recovery credential in the keychain | the renderer's method contract (`send`, `shield`, `confirm`, `cancel_transaction_proposal`, `init_*`, `delete_wallet`, `run_sync`, `poll_sync`, ...) |
| Main process | `src/public/electron.js`, `src/public/sensitiveNativePolicy.js` | wallet list, settings, authentication setting and grants, mixnet child, close state | IPC handlers, exit |
| Renderer services | `src/src/rpc/rpc.ts`, `src/src/root/Routes.tsx` | timers, server health, the migration driver's flag | periodic refresh, send, shield, rescan, drain |
| Renderer pages | `src/src/components` | what is shown | send, review, confirm, wallet management |
| Wallet core, node, chain | outside the repository | locked inputs, signed and pending transactions; what was broadcast | external: modelled as the code above uses them |

They interact so. A page calls the adapter over IPC. The adapter runs proposal
operations one after the other in a promise chain and calls the exported native
functions. Each of these is a promise whose work runs on a Neon worker thread,
under a mutex held until the work is done. `wcash_delete`, `wcash_open`,
`wcash_create` and `wcash_restore` are called outside the chain. The renderer
runs effects and timers that call the adapter on their own, and it shows
what the answers say. Confirming carries no argument: the adapter signs the
preview it holds, after the main process has authenticated the user.

Hard behaviours, by component, and what correctness means there:

* **Registry**: error paths while a proposal is staged, signed or broadcast;
  ambiguous broadcasts and retries; panics; a stop at any point. Locks belong to
  the staged proposal; only the reviewed fee is sent; a signed transaction is
  neither forgotten nor replaced; no identifier is decided on twice.
* **Adapter**: continuations interleaved with native tasks and with the wallet
  manager; a cleanup that fails; rejected operations. Preview and native
  proposal agree; whatever may have been signed can be retried; every operation
  is answered.
* **Send page**: effects, route changes and the Shield button between review and
  confirmation. What is confirmed is what was reviewed.
* **Sync**: a completion that arrives after stop, deletion or a second start.
* **Wallet lifecycle**: credential, database and list change in separate steps,
  with failures and stops between them and a load beside a submission. No wallet
  is on disk without its seed; the loading screen finds the wallet, and ends or
  says that the wallet could not start.
* **Device authentication**: a setting with a cache over two stores, prompts that
  may not return, grants that expire and are used once. A call is asked for
  exactly when it has no grant; nobody waits for ever.
* **Window**: payment links in every phase, from before the window to its exit;
  three overlapping deadlines at the exit. A link is acted on once; an amount
  arrives as it was reviewed; the exit is orderly and certain.
* **Scheduler**: overlapping ticks of the refresh and the flows that stop it. The
  refresh comes back.
* **Shown data**: fetches of several calls, each answered late, from a cache or
  behind a lock, while the wallet changes. The screen catches up with the open
  wallet.

`PROJECT.json` lists these hazards at their lines, with the properties that
cover them or the reason none does yet.

## Modules

```
ProposalLifecycle     what a previewed proposal promises (abstract)
      ^ implemented by
ProposalRegistry      native/src/wcash.rs: the registry and its database
      ^ EXTENDS                     ^ EXTENDS
ProposalAdapter       the adapter   ProposalRegistryProofs   the proofs
      ^ EXTENDS      ^ EXTENDS            ^ EXTENDS
ReviewedSend         ProposalAdapterProofs: both
(the Send page, rpc.ts, Routes.tsx)
      ^ EXTENDS      ^ EXTENDS      (ReviewedSendProofs EXTENDS ProposalAdapterProofs too)
ReviewedFee    ReviewedSendProofs
(with the fees shown)

SyncTask              syncState over the native reservation of synchronizations
      ^ EXTENDS
RefreshLoop           the renderer's periodic refresh and what stops it
      ^ EXTENDS
RefreshLoopProofs     the proofs about both

SyncTask
      ^ EXTENDS
ShownData             the fetches of rpc.ts, lastBalance, what the user is shown
      ^ EXTENDS
ShownDataProofs

WalletLifecycle       database, keychain, wallet list; the two pages that drive them
      ^ EXTENDS
WalletLifecycleProofs

DeviceAuth            the setting, its prompts, the sensitive operations, the grants
      ^ EXTENDS
DeviceAuthProofs

Amounts               the conversions of an amount, as operators
      ^ EXTENDS
AppWindow             payment links, the pages under them, the exit
      ^ EXTENDS
AppWindowProofs
```

**ProposalRegistry.** `runtime`, `active` and `nextGeneration` are the Rust
statics; `mutex` and `poisoned` are the registry's `Mutex`; `task[c]` is the
native promise caller `c` awaits: its request, how far its work has got
(`phase`) and its result. `database`, `locks` and `pending` are what the wallet
core keeps on disk; `sent` and `verdicts` record what the node was given and
what it decided. A function that works under the mutex is cut where it calls the
wallet core or the node, because the process may stop or panic there and because
callers that do not use the mutex (`open`, `create`, `restore`) run in between.
`ProposeBegin`, `StageProposal` and so on are the segments of `propose_send` and
`propose_shield_coinbase`; `ConfirmBegin` to `Answered` those of
`confirm_proposal`, one action for each outcome of the calculation in the code's
`match`. `Replaced`/`NotReplaced` are `cancel_replaceable_proposal`. An action
that refuses is enabled whenever the code may refuse, for a reason in the model
or outside it (a wrong phrase, a wallet that is not at the tip). Fees are opaque
values; the wallet core may return any fee.

**ProposalAdapter.** `pendingProposal` is the variable of that name; `chain` is
`proposalOperations` as the sequence of clients whose operations wait or run;
`await` is the native call the running operation awaits. An action is what one
continuation does up to the next native call. `asked` and `reply` are the
clients' promises. `manager` is the wallet manager: it deletes (first in the
chain, then outside it), opens and creates. `initNew`, `initFromSeed` and
`initFromB64` are one action, `OpensWallet`, since only their native call
touches this state. `display` tells whether the adapter still shows the balance
it read before the preview (`displaySpendableZat`).

**ReviewedSend.** `flow` is where the user's send is, from the click on the send
button to the answer of the confirmation, and `shown` the list the modal showed
at the click. The button waits for the settings and for authentication
("verifying"), `sendTransaction` stages the list once more and then confirms;
`Authorized` is the handler of `confirm` in the main process, which enqueues it
only after the user was authenticated. Closing the modal, leaving the page or
changing its list does not stop a send. Beside it run the clients of `Effects`:
the effect of `ToAddrBox.tsx:138-238`, which depends on a function made anew by
each render and so asks for the preview of the page's list on every one
(`Previews`), in any state of the send and for any list, since a payment link or
the user replaces the list at any time; and the cancellations that nothing waits
for. A client of `Shielders` is a run of the Shield button, which stages a
shielding and confirms whatever is staged by then, or of the effect that only
wants its fee. `stray` is a history variable: a preview of another list was
asked for since the send asked for its staging. The effect awaits the kind of
the address before it asks, which only adds to the lists that may be asked for.

**ReviewedFee** adds `sendFee`, the fee on the page, and `feeShown`, the one in
the modal at the click. The button is clicked only when the fee is that of the
list shown.

**ProposalLifecycle** is the abstract machine: one slot, identifiers never given
twice, `Stage`, `Release` (unsigned only), `Sign`, `Send` (at the previewed
fee), `Decide`, `Restart`. The refinement mapping in `ProposalRegistry` reads
the slot off `active` and the process start.

**SyncTask.** `active` is `ACTIVE_SYNC.active`, `task[t]` how far a native
synchronization has got: reserved by the event loop, in the wallet core with
`WCASH_RUNTIME` locked, unlocked, its reservation dropped, its completion run.
`syncState` is the adapter's phase, which the completion writes whatever
`deinitialize` or `deleteWallet` wrote meanwhile. `deletion` is `wcash_delete`
from its `cancel_active_sync` to the end of `deleteWallet`. Its specification
lets the adapter's methods be called in any order. The generation of a
synchronization is the element of `Tasks` it uses: it is compared for equality
only, so an element is used again once its completion has run; the overflow of
the `u64` counter is left out.

**RefreshLoop.** `timer` is `updateTimerID`, `tick` the overlapping
`fetchSyncPoll` calls, each with the IPC message it sends next: a tick decides
on an answer that may be old when `run_sync` arrives. `configuring` counts the
`configure` calls that have not set the interval yet; `flows` and `removal` are
what stops the interval: `sendTransaction`, `refreshSync(true)`, a navigation to
the loading screen, `doDelete`. `opened` is a history variable for `RefreshRuns`.
Every step is a step of `SyncTask` or leaves its variables alone.

**ShownData.** The same synchronization task under what the refresh carries. A
fetch (`history`, `addresses`, `balance`, `info`) is the calls of its function in
`rpc.ts`; `fetch[k][f]` is how far the tick or `configure` `k` has got with it:
the call it makes or awaits, the native read for that call, and the answers
gathered, which are shown together at the end (the setters of `Routes.tsx`).
An answer is whose data were read, how far they were scanned and the chain's
height known then. `Cached` is the branch of `currentBalance` that answers from
`lastBalance` while a synchronization runs; the continuation of any other balance
query, and of a synchronization (`carried`), writes `lastBalance`, whatever
wallet is open by then. A tick is one action with the first call of each of its
fetches, since the messages it sends at once keep their order. `database` is the
wallet's, `made` counts the wallets; the user makes, loads, leaves and deletes
them, and `doDelete` is cut at its awaits (`session`). A fetch of a wallet that
was left goes on. `send`'s own use of `lastBalance` is `display` in
`ProposalAdapter`.

**WalletLifecycle.** `database`, `credential`, `wallets` and `currentId` are
what outlives the process: the SQLite file, the keychain entry, `wallets.json`
and a setting. `page` is the submission of `AddNewWallet.tsx` under way and the
await it is at: `nextWalletName`, then `initNew` or `initFromSeed` of the
adapter with its four steps (refusal, credential, native creation, credential
again) and its cleanup, then the two steps of `createNextWallet`; or the steps
of `doSave`, or of `doDelete` with `deleteWallet` of the adapter. `load` is
`doFirstTimeSetup`: it chooses an entry, compares the list with the disk,
repairs the list, names the wallet, looks for it, opens it or forgets it and
starts over. `addWallet`, `updateWallet` and `removeWallet` are a read
(`Begins`) and a write (`ListWritten`), so that two of them lose a change. A
load starts beside a submission, since the sidebar stays usable. A call that
fails goes where its `catch` is: the pages report it (`CreateCatches`,
`DeleteCatches`, `FileRefused`), `doSave` has none (`SaveRejected`), the loading
screen reports it as the open error (`LoadCatches`) or, before it has chosen a
wallet to open, says that the wallet could not start and stays ("rejected",
`LoadingScreen.tsx:139-155`): the sidebar is not shown there, and only a
restart, or a page whose submission is still under way, leaves it. A file name
is a number, since names are compared and counted only; seeds are opaque.
`alone` is a history field of the load that tells whether a submission ran when
it chose. The branch of a release without a list needs a wallet file that no
build of this chain has written.

**DeviceAuth.** `cache` is `_requireAuthCache`; `kept` is what `getRequireAuth`
would find in the keychain and in settings.json, where nothing counts as "on".
Each read and each write of the keychain may fail, and each write of
settings.json (`SaveFallsBack`, `SaveRejected`). `heldBy` is a history variable:
the stores the setting in use was read from or last saved in. `asking[a]` is how
far `verifyDeviceAuthentication` is for one of its callers: the lock screen, the
seed modal, the send button, the setting, and each sensitive call. `due` are the
calls on their way to the main process, `staging` a send between the user's
agreement and its `confirm`, `saving` the value the modal of the setting saves.
`grants[m]` is the time a grant has left. `proof` is a history variable: it says
when a prompt for an operation last succeeded, and that no call has used this
up. A platform that cannot ask, or whose probe does not answer in time, counts
as success there, as it does in the code.

What its properties say, and no more: `AskedOnce`, that a call is asked for
exactly when there is no unspent, unexpired grant for its method (a send staged
for longer than a grant lives, or beside which a shielding confirms, is asked
for twice); `SwitchedOffByUser`, that no save switches the protection off which
was not asked for; `CacheIsStored`, that the setting in use is the one found
where it was last read or saved. When the keychain could be read but a write to
it failed, the next process that reads it uses the setting before: the code
promises nothing there. `NobodyIsStranded` leaves out the modal of the setting,
of which it says that the prompt ends: after a refused or timed-out prompt the
modal stays in "saving", with its button disabled, until a restart
(`AppSecurityModal.tsx:37-42`).

**Amounts** and **AppWindow.** An amount of the page is counted in tenths of a
zatoshi, so that what is finer than a zatoshi, half of one, and rounding exist;
a decimal string is its whole part and its digits, whose last is worth
`Place[Decimals - places]`. `AppWindow` follows a link
from the system through `pendingZcashUri`, the Sidebar's `pendingUriRef`
(`parked`), the request for pending links (`asked`) and `payURI` (`parsing`) to
a page or an error (`acted`, a history variable). `wallet` sums up what
`currentWallet`, its open error, `readOnly` and `wallets` tell the Sidebar.
`closing` is the time since the window was told to close; `quitting` is how far
the renderer's answer is, `cleanup` the cancellation of the pending proposal that
the close handler and `appquitdone` share.

Definitions named as a mutant in their comment are seeded faults, one for each
property; no specification uses them.

## Runs

| Run | Module, cfg | Shows |
|---|---|---|
| `registry` | `MCProposalRegistry` | one caller, two processes one after the other, two proposals in each, two fees: types, `LocksMatchProposal`, `OnlyReviewedFeeSent`, `AtMostOneVerdict`, `CalculatedAwaitsVerdict` |
| `adapter` | `MCProposalAdapter` | the chain and the wallet manager as the two callers, two proposals, two fees, one process: the registry's inductive invariant `IInv`, `NoForeignProposal`, `CalculatedIsRetryable`, `SignedIsNotSpendable` |
| `adapter_answers` | `MCProposalAdapterAnswers.cfg` | the same over two processes, one proposal in each, one fee: `ImplementsLifecycle` and `EveryOperationAnswered` |
| `reviewed_send` | `MCReviewedSend` | a send, a preview effect and a shielding at once, two payment lists, one fee, two proposals: `PaysReviewedList` |
| `reviewed_fee` | `MCReviewedFee` | one payment list, two fees; violated: `ConfirmsReviewedFee` |
| `refresh_loop` | `MCRefreshLoop` | two overlapping ticks, two outstanding synchronizations, one flow beside a deletion: `StopReachesSync`, `RunningWillComplete`, `ClosedIsNotSynced`, `SyncsGoOn`, `SendResumes` |
| `refresh_rescan` | `MCRefreshLoopRescan.cfg` | violated: `RefreshRuns` |
| `shown_data` | `MCShownData` | one kind of data at a time, each with what can disturb it: `OpenHasDatabase`, `ShownCatchesUp` |
| `wallets` | `MCWalletLifecycle` | two seeds, one name the user may type and one more, two stops or failing calls: `SeedKept`, `LoadFindsWallet`, `LoadEnds` |
| `wallet_delete` | `MCWalletDeletable.cfg` | violated: `ShownIsDeletable` |
| `device_auth` | `MCDeviceAuth` | every flow at once, failing stores, restarts: `CacheIsStored`, `AskedOnce`, `SwitchedOffByUser`, `NobodyIsStranded` |
| `app_window` | `MCAppWindow` | three links, eleven typed amounts, ticks of 250 ms: `LinkActedOnce`, `KnownWalletActs`, `AmountIsExact`, `OrderlyExit`, `CloseExits` |

Every run checks for deadlock except `wallets`, `app_window` and `shown_data`: a
wallet at rest has no step left at the bounds on ids and stops, the process ends
with its window, and without an interval (a poisoned `WCASH_RUNTIME` cannot be
loaded again) nothing is fetched.

Bounds. `MaxGeneration` stands for `u64::MAX`: it bounds the proposals of one
process, and at the bound the code's own refusal is taken. Two generations are
the least with which an identifier can be stale (a cancellation or confirmation
for the first while the second is active). Two process starts are the least with
which an identifier can recur. Two callers are the two that exist: the chain and
the wallet manager; they wait for one another's mutex in the runs of the
adapter. Two fees tell a reviewed fee from another; two payment lists the
reviewed one from another. In `reviewed_send` the fee is not looked at, so there
is one; in `reviewed_fee` the list is not, so there is one. There is one send of
the send button at a time, one shielding and one effect in these runs, any
number of shieldings and effects in the proofs; an edit whose address is still
being looked up at the click is left out, and from this page no wallet is
deleted. Fees and payment lists are only compared for equality, so they are
symmetric in the safety runs. The liveness run has no symmetry, and one fee: a
confirmation at another fee is answered like any other failed one there.

For the refresh, two outstanding synchronizations are the least with which a late
completion meets a later launch, two ticks the least that overlap, and
`MaxConfigures` bounds the flows that run or whose `configure` is under way: one,
beside a deletion and what an earlier flow left. More flows at once only set and
clear the interval more often.

For what is shown, one tick, one `configure` and one synchronization: a tick and
a `configure` are the two fetches of one kind that overlap, across a wallet
change too. Fetches do not wait for each other and share only `lastBalance`, so
a behaviour follows one of them (`view`, chosen at the start), in a world as
large as it needs: the balance, whose reads the cache answers, over two wallets,
the least with which data of a former one remain; the info, with two reads, over
two blocks, the least with which one read is older than the other; history and
addresses, whose calls can be refused, with one failure or panic.

For the wallets, two seeds tell the wallet's own from another, and two names (4
and 5) are the least with which a name is taken; the default
entry adds the id 1. The user types one of them; the other is chosen by the code. `MaxFaults`
bounds the stops of the process and the failing calls to disk and keychain
together: two, so that the recovery after the first meets a second. Refusals
that follow from the state are not counted. The run of the violation needs no
stop. A grant that lives two ticks is fresh, in its last tick or gone, which is
all its handler can find. In the window, 250 ms is the greatest common measure
of 750 ms and 3 s, and 800 ms takes the tick above (3, 4 and 12 ticks). Of the
links one comes before the window, one later, and one asks for more than the
supply. Links and typed amounts, and links and the exit, do not look at each
other, so amounts are typed and the window is closed before the first link only,
and a parsing that ends after the exit has begun is left out; a wallet is
changed when no load is under way, as its pages allow. A WEC has 100 zatoshis
and the supply is 2: amounts with zeros on either side of the digits, the least,
the greatest and those beyond exist there too.

Fairness. In `adapter_answers`: weak fairness of the continuations: the event
loop runs what is due. Weak fairness of the native tasks: a worker thread, the
mutex and the node's answer or an error come in the end (every RPC of the wallet
core ends; a task that never returned would hold the chain for good). Nothing is
assumed of users, of the chain, or of restarts. In `refresh_loop`: weak fairness
of the interval while it is set, of each tick's messages, of each
synchronization's worker and completion (the wallet core reaches the tip, fails
or notices its cancellation), of `configure` and of the end of a send. Nothing
is assumed of the other flows, of deletions or of the user; `SyncsGoOn` speaks
of behaviours in which the interval stays set. In `shown_data`: the interval
fires while it is set, every call and native read is answered, and a
synchronization ends. `ShownCatchesUp` speaks of behaviours in which the open
wallet's database no longer changes, the interval stays set and some
synchronization succeeds again and again. The last is needed: where every
synchronization fails, each between the poll of a tick and its `run_sync`, the
phase is "running" whenever a balance is asked for, and what `lastBalance` held
is shown for ever. In `wallets`: the calls of the loading screen are answered,
by a result or an error, and its writes of the list end; nothing is assumed of
submissions. In `device_auth`: the main process handles what it is sent, a
staging ends, and, on the platforms where `withAuthTimeout` is used (`Timed`),
probes and prompts end. That the keychain answers is not assumed. In
`app_window`: the main process answers, parsing ends, timers fire; a renderer
need not take up `appquitting`, and the cleanup need not end. Nothing is assumed
of the user anywhere.

**The violations.** `reviewed_fee`: `sendTransaction`
(`src/src/rpc/rpc.ts:841-893`) stages the list a second time, looks at the
answer for an error only and calls `confirm`, which names no proposal.
`Send.tsx:70-76` calls `shield` whenever the transparent balance changes, and so
does the Shield button; that discards a previewed send. The trace: a send is
previewed and reviewed; a shielding is asked for between the send's second
staging and its `confirm`, which then signs the shielding proposal, and the page
reports it as the send. In another order the send is staged again at a new fee.
The adapter's check of the fee compares with the preview being confirmed, not
with the one reviewed. `PaysReviewedList` holds beside it: no *send* of another
list is confirmed by the send button, as long as the page does not itself ask
for the preview of another list meanwhile (`stray`). Where it does, that list is
signed; no text of the repository speaks of this, and the fee is reported where
no such preview is in play.

`refresh_rescan`: the menu item Rescan Wallet clears the interval, the adapter
rejects `run_rescan`, which this build does not implement, and `configure`, which
would set the interval again, is skipped by the rejection (`rpc.ts:471-509`). The
open wallet shows a zero balance and is not refreshed until a send, a reload or
a restart.

`wallet_delete`: a wallet is created under the name "wcash-wallet-4.dat". The
load that follows finds a database and no default entry, and adds one, "Main
Wallet", without a file name. Selected, it opens the same database. Deleted, it
is removed from the list, and `doDelete` sends "wcash-wallet.dat" for the
missing name (`AddNewWallet.tsx:539-545`), which `deleteWallet` compares with
the name in the credential and refuses: the wallet and its credential stay. The
next load adds the entry again. Nothing is lost (`SeedKept`, `LoadFindsWallet`),
but this entry cannot be deleted.

## Proofs

`ProposalRegistryProofs` proves, for any callers, fees, bounds on generations
and on process starts:

* `Inductive`: `Spec => []IInv`;
* `TypeCorrect`, `LocksCorrect`, `ReviewedFee`, `OneVerdict`: the invariants the
  runs check;
* `CalculatedKept`: the action property `CalculatedAwaitsVerdict`;
* `Refinement`: `Spec => Lifecycle!Spec`.

The only assumptions of `ProposalRegistryProofs` are `ConstantsAssumption`: the
bounds are positive naturals and `None` is no fee, caller, request, result or
record. TLC evaluates it on every run.

The argument. The invariants alone are not inductive: that a signing failure
releases the right lock needs to know that the task in phase "calculate" still
faces the staged proposal it found. `HolderFits` says what the holder of the
mutex may rely on in each phase, and it is kept because any other task either
waits for the mutex or leaves the registry alone. `IdentifiersGiven` says that
locks and verdicts belong to identifiers already given and that no verdict is on
the active one; it makes `AtMostOneVerdict` inductive, with a new generation
being greater than all earlier ones and a new process having a new first
component. `WaitsForRequest` types what a waiting task was asked. There is one
lemma for each action or group of actions that treats the registry alike
(`RefusalsInv` covers every error path that changes nothing), and `NextInv`
collects them. The refinement has one lemma for each abstract action.

`ProposalAdapterProofs` proves, for any clients, payment lists, fees and bounds:

* `AdapterInvariant`: `AdapterSpec => []AdapterInv`;
* `AdapterTypeCorrect`, `PreviewIsNative`, `CalculatedRetryable` and
  `SignedNotSpendable`: the invariants of the run `adapter`;
* `AdapterImplementsRegistry`: `AdapterSpec => Spec`, so that everything proved
  of the registry holds under the adapter;
* `AdapterImplementsLifecycle`: its refinement of `ProposalLifecycle` too, which
  the run `adapter_answers` checks.

`AdapterInv` relates the two sides over an outstanding call. That native and the
main process never hold different proposals needs to know, when a proposal is
staged or signed, what the main process holds: only the caller inside the promise
chain asks for either (`ManagerFits` and `TaskFits` say what the wallet manager's
task can be doing), and while it awaits a proposal the main process holds none,
while it awaits a confirmation exactly the one it named, undisplayed
(`AwaitFits`). `AnswerFits` says what a settled answer that has not been read
implies of the registry (a cancellation that was not refused leaves nothing
staged), and is kept because the other caller can only remove the proposal.
`ChainFits` keeps the head of the chain the operation that runs. There is one
lemma for each continuation, and one for each kind of native step
(`NativeInv`). The assumptions are `ConstantsAssumption` and
`AdapterAssumption`: the two callers differ, and `None` is no payment list,
operation or preview.

`ReviewedSendProofs` proves, for any payment lists, fees and bounds, with any
number of preview effects, cancellations and shieldings, and the wallet manager,
in any order beside the send:

* `SendInvariant`: `SendSpec => []SendInv`;
* `SendTypeCorrect` and `PaysReviewed`: the invariants of `reviewed_send`;
* `SendImplementsAdapter`: `SendSpec => AdapterSpec`, so that what is proved of
  the adapter and of the registry holds for the flows of the renderer.

`PaysReviewedList` speaks of the moment a send is signed, long after the list
was reviewed, and the adapter may have discarded or replaced its preview
meanwhile. `SenderFits` says which operation of the user's send is asked for in
each state of `flow`; `OthersFit`, what the other clients may have asked for,
among it the previews of any list and the confirmations of the Shield button.
Such a preview may be waiting in the chain when the send asks for its staging;
`QueueFits` says that it is then ahead of the staging, and that none is left
when the staging was answered, unless one was asked for since (`stray`).
`ListFits` ties this to the main process: from the answer of the second staging
until the confirmation is answered (`UnderConfirmation`), a previewed send has
the list under review. The fee cannot be in it: `reviewed_fee` is the
counterexample. `RendererAssumption` says that the clients of the renderer are
different ones.

`RefreshLoopProofs` proves, for any number of outstanding synchronizations,
ticks and flows:

* `SyncInvariant`: `SyncSpec => []SyncInv`;
* `LoopImplementsSync`: `LoopSpec => SyncSpec`;
* `StopReaches`, `RunningCompletes`, `ClosedNotSynced`: the invariants of
  `refresh_loop`, from these two;
* `LoopTypeCorrect`: the loop's own type invariant. `CountsFit` bounds the
  flows that run and the `configure` calls under way together: a flow that ends may
  begin a `configure`, so the bound on the calls alone is not inductive.

`SyncInv` adds `ReservationIsActive`: the registry names a synchronization
exactly from its reservation to the drop of the reservation. `StopReachesSync`
needs it, since a worker between unlocking and dropping still blocks a launch. The
assumptions are that `None` is no synchronization and, for the loop's type,
that `MaxConfigures` is a natural.

`ShownDataProofs` proves, for any ticks, `configure` calls, synchronizations,
fetches, wallets and blocks: `DataImplementsSync` (`DataSpec => SyncSpec`), the
type invariant (`DataTypeCorrect`), which says that a fetch has one answer for
each call before the one it makes and shows all of them or none, and
`OpenHasDatabase` (`OpenHas`). The two invariants are inductive together: what a
synchronization writes when it ends has the type of a database only if the one
it began on is still there, which holds because `wcash_delete` waits for
`WCASH_RUNTIME`.

`WalletLifecycleProofs` proves `SeedKept` (`SeedIsKept`) and the type invariant
for any seeds and bounds. The wallet and its seed alone are not inductive: that
a creation may write a database needs the credential of the same submission to
be there, and that `deleteWallet` may remove the credential needs the database
to be gone. `SubmissionFits` says this for each await of a submission, and it is
kept because one submission runs at a time and a load writes neither database
nor credential. There is one lemma for the steps of each page. `FindsWallet`
proves the action property `LoadFindsWallet`. `AloneFits` follows a load that
was alone when it chose: no submission has begun since, no write of the list is
under way when it compares the list with the disk, and when it settles, a wallet
that is on disk is in the list or in the write before it.

`DeviceAuthProofs` proves, for any lifetime of a grant: the type invariant,
`CacheIsStored`, `AskedOnce` and `SwitchedOffByUser`. The strengthening is
`GrantsFit` (a grant is there exactly while the agreement it stands for is
unspent and not too old), `CallsFit` (a call is sent once before it is handled),
`SavesFit` (one save at most, and what its stage says of the stores) and
`BootFits`. The three ends of a save share the lemma `SavedInInv`.

`AppWindowProofs` proves, for any links, amounts and deadlines of which the
first two fit into the third: the type invariant, `LinkActedOnce`,
`AmountIsExact` and `OrderlyExit`. `LinksFit` says that a link that has not been
acted on is in one place at most, and `ExitFits` relates the clocks of the exit:
when the answer came, how long its present wait has lasted and how old the
cleanup is. `AmountsExact` holds for any number of decimals and any supply. It
needs that `Place` solves its recursive equation, which is proved without an
induction rule: the least length up to which no solution exists, or the least
place where two differ, is a contradiction (`Least` is the well-foundedness of
the naturals for a set). Then `DecimalExact` says that the digits and the zeros
left out give the fraction back, and that the shortest such string does not end
in zero, which the parser of `wcash.rs` would refuse; `SentExact`, that rounding
to a zatoshi stays in range; `AmountsFit`, that the page holds no amount above
the supply.

The assumptions are those of the modules (`DataAssumption`,
`LifecycleAssumption`, `BoundAssumption`, `AuthAssumption`, `AmountsAssumption`,
`WindowAssumption`), which TLC evaluates in the runs.

Only model-checked: liveness, since fairness and ENABLED are beyond the prover
(`EveryOperationAnswered`, `SyncsGoOn`, `SendResumes`, `ShownCatchesUp`,
`LoadEnds`, `NobodyIsStranded`, `KnownWalletActs`, `CloseExits`). Every safety
property of a passing run is proved. The three violations are
counterexamples of TLC.

## Not modelled

* The wallet core's own algorithms (note selection, signing, scanning), and the
  node: external, reduced to their outcomes.
* `wcash_rebroadcast_pending` and `wcash_pending_transactions`: exported, but no
  method of the adapter calls the first, and the second changes nothing. A signed transaction
  that outlives its process is therefore only in `pending`, where it ends by
  being mined or by expiring.
* The companion files of the database, a crash in the middle of their removal,
  and the birthday in the credential.
* Two submissions at once. `isSubmittingRef` belongs to one mounted page
  (`AddNewWallet.tsx:71`), so a page left and opened again while its submission runs may submit
  a second seed. When the second passes its check before the first has created the database, its
  `storeCredential` overwrites the credential and its creation then fails, since the database
  exists; the first's last `storeCredential`, with the birthday, puts its own seed
  back. A stop of the process before that, or a store of the second after it, leaves the
  database with the credential of another seed. `SeedKept` therefore speaks of one
  submission at a time.
* What this build cannot reach. The Orchard drain and the private migration: the
  adapter answers the drain's plan with zero and refuses the migration's. The
  choice of a server, its health probes and its automatic change: the adapter
  accepts one endpoint. The mixnet, the import of another installation and the
  change of the wallet folder: switched off by the profiles. The recovery of a
  wallet from a release without a list: no build of this chain wrote one. A split
  memo: the page refuses memos of that length.
* The grammar of payment links, the platform dialogs, packaging, layout, and
  the legacy bindings of `native/src/lib.rs`. This is most of the source: the
  map covers what decides, and the rest of the pages shows it.

## What is left

* The confirmations that are shown (`rpc.ts:746-785`): they are counted from two heights
  asked for before and after the history, so that a transaction of a block scanned
  meanwhile is shown with none until the next refresh. `shown.history` holds the
  three answers; no run looks at the difference.
* Two submissions at once in `WalletLifecycle`, once it is settled what they
  should do; `apprestart` in `AppWindow`.
