---------------------------- MODULE WalletLifecycle ----------------------------
(***************************************************************************)
(* Creating, restoring, opening and deleting the wallet. A wallet is three *)
(* things that change in separate steps: the database on disk              *)
(* (native/src/wcash.rs), the recovery credential in the keychain          *)
(* (public/wcashZingoNativeAdapter.js) and an entry in the list of wallets *)
(* (public/electron.js). Two pages of the renderer drive them: the one     *)
(* that adds and deletes wallets (AddNewWallet.tsx) and the loading screen *)
(* (LoadingScreen.tsx), which chooses an entry, repairs the list and opens *)
(* the database. The user can leave the first page while its submission    *)
(* runs, so a load runs beside it. The process may stop between any two    *)
(* steps.                                                                  *)
(*                                                                         *)
(* A build serves one chain at one endpoint: the lists and names of the    *)
(* other chains are empty, and a request for another endpoint is refused.  *)
(***************************************************************************)
EXTENDS Naturals

CONSTANTS
    Seeds,        \* recovery phrases
    Typed,        \* names of files that the user may type
    MaxId,        \* bound: the greatest id a wallet is given
    MaxFaults,    \* bound: stops of the process, and calls of the storage or the
                  \* keychain that fail where a page goes on with their answer
    None

(* A file name: 0 is the empty one, n > 3 is "wcash-wallet-n.dat".         *)
NoName == 0
Names == {NoName} \cup 4 .. MaxId

(* "wcash-wallet.dat", which no wallet is created with.                    *)
DefaultName == 1

(* Mainnet, testnet and regtest have ids 1 to 3; this chain has the first. *)
Ids == {1} \cup 4 .. MaxId
Entries == [id : Ids, fileName : Names, file : BOOLEAN]
MainWallet == [id |-> 1, fileName |-> NoName, file |-> FALSE]

Credentials == [seed : Seeds, walletName : 4 .. MaxId]

ASSUME LifecycleAssumption ==
    /\ None \notin Seeds \cup Entries \cup Credentials
    /\ \A list \in SUBSET Entries : None # list
    /\ MaxId \in Nat /\ MaxId > 3
    /\ Typed \subseteq 4 .. MaxId
    /\ MaxFaults \in Nat

VARIABLES
    database,    \* the seed of the wallet database on disk, or None
    credential,  \* the keychain entry, or None
    wallets,     \* wallets.json
    currentId,   \* the setting currentwalletid, or None
    faults

disk == <<database, credential, wallets, currentId, faults>>

VARIABLES
    opened,      \* WCASH_RUNTIME is open
    shown,       \* the renderer's currentWallet
    known,       \* the renderer's list of wallets
    writes,      \* the list that the main process is about to write, by page
    page,        \* a submission of AddNewWallet
    load         \* the loading screen; alone: no submission ran when it chose;
                 \* "rejected": the screen stays, with a message over it

session == <<opened, shown, known, writes, page, load>>
walletVars == <<disk, session>>

PageSteps ==
    {"idle", "name", "init", "store", "create", "birthday", "cleanup", "reopen",
     "file", "add", "select", "forget", "delete", "erase", "leave", "save"}
LoadSteps ==
    {"idle", "choose", "all", "probe", "settle", "exists", "forget", "open", "opening", "rejected"}

Pages ==
    [at : PageSteps, kind : {"none", "new", "seed", "file"}, seed : Seeds \cup {None},
     n : 1 .. MaxId, entry : Entries \cup {None}, left : SUBSET Entries]
Loads == [at : LoadSteps, current : Entries \cup {None}, wallets : SUBSET Entries, alone : BOOLEAN]

NewLoad == [at |-> "choose", current |-> None, wallets |-> {}, alone |-> FALSE]
NoLoad == [NewLoad EXCEPT !.at = "idle"]
NoPage == [at |-> "idle", kind |-> "none", seed |-> None, n |-> 3, entry |-> None, left |-> {}]

WalletTypeOK ==
    /\ database \in Seeds \cup {None}
    /\ credential \in Credentials \cup {None}
    /\ wallets \in SUBSET Entries
    /\ currentId \in Ids \cup {None}
    /\ faults \in 0 .. MaxFaults
    /\ opened \in BOOLEAN
    /\ shown \in Entries \cup {None}
    /\ known \in SUBSET Entries
    /\ writes \in [{"page", "load"} -> (SUBSET Entries) \cup {None}]
    /\ page \in Pages
    /\ load \in Loads

(* The first start. LoadingScreen also knows the state before there was a  *)
(* list ("MIGRATION"); the setting it goes by is written by the first load *)
(* that ends, before a wallet can be created.                              *)
WalletInit ==
    /\ database = None
    /\ credential = None
    /\ wallets = {}
    /\ currentId = None
    /\ faults = 0
    /\ opened = FALSE
    /\ shown = None
    /\ known = {}
    /\ writes = [who \in {"page", "load"} |-> None]
    /\ page = NoPage
    /\ load = NewLoad

-----------------------------------------------------------------------------
(* The adapter's questions.                                                *)

(* walletExists                                                            *)
Exists(name) ==
    /\ database # None
    /\ name = NoName \/ credential = None \/ credential.walletName = name

(* The check of the name in initFromB64 and deleteWallet.                  *)
NameMatches(name) ==
    name = NoName \/ credential = None \/ credential.walletName = name

-----------------------------------------------------------------------------
(* addWallet, updateWallet and removeWallet read the list, and write the   *)
(* changed one when the storage has answered, unless the storage fails.    *)

Without(list, id) == {e \in list : e.id # id}

Begins(who, list) == writes' = [writes EXCEPT ![who] = list]

Written(who) == writes[who] = None

Lost(who) == writes' = [writes EXCEPT ![who] = None]

ListWritten(who) ==
    /\ ~Written(who)
    /\ wallets' = writes[who]
    /\ writes' = [writes EXCEPT ![who] = None]
    /\ UNCHANGED <<database, credential, currentId, faults, opened, shown, known, page, load>>

Fault == faults < MaxFaults /\ faults' = faults + 1

-----------------------------------------------------------------------------
(* AddNewWallet: submitAction, one submission at a time (isSubmittingRef). *)

At(step) == page.at = step /\ Written("page")
Goes(step) == page' = [page EXCEPT !.at = step]

(* A load begins unless one is on the screen already, which stays.         *)
LoadAfter ==
    load' = IF load.at = "idle" THEN NewLoad ELSE load

(* closeModal shows the dashboard, also in the place of a loading screen   *)
(* that has been rejected.                                                 *)
Dashboard ==
    load' = IF load.at = "rejected" THEN NoLoad ELSE load

(* Mutant: the last id of the default wallets is not left out.             *)
FollowsTooLow(n) ==
    /\ n > 2
    /\ \A e \in known : e.id < n
    /\ n = 3 \/ \E e \in known : e.id = n - 1

(* nextWalletName begins after the greatest id of the renderer's list and  *)
(* after those of the default wallets.                                     *)
Follows(n) ==
    /\ n > 3
    /\ \A e \in known : e.id < n
    /\ n = 4 \/ \E e \in known : e.id = n - 1

CreateBegins(kind, seed) ==
    /\ At("idle") /\ load.at = "idle"
    /\ \E n \in 1 .. MaxId :
        /\ Follows(n)
        /\ page' = [NoPage EXCEPT !.at = "name", !.kind = kind, !.seed = seed, !.n = n]
    /\ UNCHANGED <<disk, opened, shown, known, writes, load>>

NameTaken ==
    /\ At("name")
    /\ Exists(page.n)
    /\ page.n < MaxId
    /\ page' = [page EXCEPT !.n = @ + 1]
    /\ UNCHANGED <<disk, opened, shown, known, writes, load>>

(* doRestoreFileWallet keeps the name the user has typed.                  *)
NameFound ==
    /\ At("name")
    /\ ~Exists(page.n)
    /\ \E name \in (IF page.kind = "file" THEN Typed ELSE {page.n}) :
        page' = [page EXCEPT
            !.at = IF page.kind = "file" THEN "file" ELSE "init",
            !.entry = [id |-> page.n, fileName |-> name, file |-> page.kind = "file"]]
    /\ UNCHANGED <<disk, opened, shown, known, writes, load>>

(* The catch of the creating flows: a call or the storage fails, before or *)
(* after the list is written and the entry shown. The setting is the last  *)
(* that is saved.                                                          *)
CreateCatches ==
    /\ Fault
    /\ page.at \in {"name", "select"}
    /\ \/ UNCHANGED <<shown, known>>
       \/ At("select") /\ known' = wallets /\ shown' \in {page.entry}
    /\ Lost("page")
    /\ page' = [NoPage EXCEPT !.at = "reopen"]
    /\ UNCHANGED <<database, credential, wallets, currentId, opened, load>>

(* initNew and initFromSeed refuse, or another endpoint, an invalid phrase *)
(* or birthday, or the keychain does not answer.                           *)
InitRefused ==
    /\ At("init") \/ At("store")
    /\ page' = [NoPage EXCEPT !.at = "reopen"]
    /\ UNCHANGED <<disk, opened, shown, known, writes, load>>

(* Only initNew asks whether there is a credential already.                *)
InitChecked ==
    /\ At("init")
    /\ database = None
    /\ page.kind = "new" => credential = None
    /\ Goes("store")
    /\ UNCHANGED <<disk, opened, shown, known, writes, load>>

(* Mutant: the credential is stored when the database has been created.    *)
CredentialStoredLater ==
    /\ At("store")
    /\ Goes("create")
    /\ UNCHANGED <<disk, opened, shown, known, writes, load>>

(* storeCredential, before the database exists.                            *)
CredentialStored ==
    /\ At("store")
    /\ credential' = [seed |-> page.seed, walletName |-> page.n]
    /\ Goes("create")
    /\ UNCHANGED <<database, wallets, currentId, faults, opened, shown, known, writes, load>>

(* wcash_create and wcash_restore.                                         *)
DatabaseCreated ==
    /\ At("create")
    /\ database = None
    /\ database' = page.seed
    /\ opened' = TRUE
    /\ Goes("birthday")
    /\ UNCHANGED <<credential, wallets, currentId, faults, shown, known, writes, load>>

(* No connection, or there is a database; or the runtime's lock is         *)
(* poisoned, and a database is left.                                       *)
CreateFails ==
    /\ At("create")
    /\ database' \in {database} \cup {seed \in {page.seed} : database = None}
    /\ Goes("cleanup")
    /\ UNCHANGED <<credential, wallets, currentId, faults, opened, shown, known, writes, load>>

(* The credential again, with the birthday of the wallet.                  *)
BirthdayStored ==
    /\ At("birthday")
    /\ credential' = [seed |-> page.seed, walletName |-> page.n]
    /\ Goes("add")
    /\ UNCHANGED <<database, wallets, currentId, faults, opened, shown, known, writes, load>>

BirthdayFails ==
    /\ At("birthday")
    /\ Goes("cleanup")
    /\ UNCHANGED <<disk, opened, shown, known, writes, load>>

(* The credential is removed when no database was created, unless the      *)
(* keychain fails.                                                         *)
CleansUp ==
    /\ At("cleanup")
    /\ credential' \in {credential} \cup {c \in {None} : database = None}
    /\ page' = [NoPage EXCEPT !.at = "reopen"]
    /\ UNCHANGED <<database, wallets, currentId, faults, opened, shown, known, writes, load>>

(* loadCurrentWallet of the page: opens what was shown before.             *)
Reopens ==
    /\ At("reopen")
    /\ opened' \in {opened} \cup
        {o \in {TRUE} : shown # None /\ database # None /\ NameMatches(shown.fileName)}
    /\ page' = NoPage
    /\ UNCHANGED <<disk, shown, known, writes, load>>

(* init_from_b64 of a typed name opens the one database there is.          *)
FileOpened ==
    /\ At("file")
    /\ database # None /\ NameMatches(page.entry.fileName)
    /\ opened' = TRUE
    /\ Goes("add")
    /\ UNCHANGED <<disk, shown, known, writes, load>>

FileRefused ==
    /\ At("file")
    /\ page' = [NoPage EXCEPT !.at = "reopen"]
    /\ UNCHANGED <<disk, opened, shown, known, writes, load>>

(* createNextWallet                                                        *)
EntryAdded ==
    /\ At("add")
    /\ Begins("page", wallets \cup {page.entry})
    /\ Goes("select")
    /\ UNCHANGED <<disk, opened, shown, known, load>>

EntrySelected ==
    /\ At("select")
    /\ known' = wallets
    /\ shown' = page.entry
    /\ currentId' = page.n
    /\ page' = NoPage
    /\ LoadAfter
    /\ UNCHANGED <<database, credential, wallets, faults, opened, writes>>

-----------------------------------------------------------------------------
(* doSave: the entry is written and shown, and opened again if need be.    *)

SaveBegins ==
    /\ At("idle") /\ load.at = "idle"
    /\ shown # None
    /\ Begins("page", Without(wallets, shown.id) \cup {shown})
    /\ page' = [NoPage EXCEPT !.at = "save", !.entry = shown]
    /\ UNCHANGED <<disk, opened, shown, known, load>>

SaveEnds ==
    /\ At("save")
    /\ known' = wallets
    /\ shown' = page.entry
    /\ page' = NoPage
    /\ LoadAfter \/ Dashboard
    /\ UNCHANGED <<disk, opened, writes>>

(* The storage fails.                                                      *)
SaveRejected ==
    /\ Fault
    /\ page.at = "save"
    /\ Lost("page")
    /\ page' = NoPage
    /\ UNCHANGED <<database, credential, wallets, currentId, opened, shown, known, load>>

-----------------------------------------------------------------------------
(* doDelete                                                                *)

(* Nothing is deleted when the adapter does not find the wallet.           *)
DeleteBegins ==
    /\ At("idle") /\ load.at = "idle"
    /\ shown # None
    /\ Exists(shown.fileName)
    /\ Begins("page", Without(wallets, shown.id))
    /\ page' = [NoPage EXCEPT !.at = "forget", !.entry = shown]
    /\ UNCHANGED <<disk, opened, shown, known, load>>

EntryForgotten ==
    /\ At("forget")
    /\ currentId' = None
    /\ known' = wallets
    /\ page' = [page EXCEPT !.at = IF page.entry.file THEN "leave" ELSE "delete", !.left = wallets]
    /\ UNCHANGED <<database, credential, wallets, faults, opened, shown, writes, load>>

(* The catch of doDelete: the storage fails, before the database is        *)
(* deleted.                                                                *)
DeleteCatches ==
    /\ Fault
    /\ page.at = "forget"
    /\ Lost("page")
    /\ currentId' \in {currentId, None}
    /\ page' = NoPage
    /\ UNCHANGED <<database, credential, wallets, opened, shown, known, load>>

(* The name that is sent for an entry.                                     *)
SentName(entry) == IF entry.fileName = NoName THEN DefaultName ELSE entry.fileName

(* The name does not match, the preview cannot be discarded, a proposal is *)
(* signed, or the files cannot be removed, when the runtime is closed.     *)
DeleteRefused ==
    /\ At("delete")
    /\ opened' \in {opened} \cup {o \in {FALSE} : NameMatches(SentName(page.entry))}
    /\ page' = NoPage
    /\ UNCHANGED <<disk, shown, known, writes, load>>

(* wcash_delete                                                            *)
DatabaseDeleted ==
    /\ At("delete")
    /\ NameMatches(SentName(page.entry))
    /\ database' = None
    /\ opened' = FALSE
    /\ Goes("erase")
    /\ UNCHANGED <<credential, wallets, currentId, faults, shown, known, writes, load>>

(* "Keep the recovery credential until that succeeds".                     *)
CredentialErased ==
    /\ At("erase")
    /\ database = None
    /\ credential' = None
    /\ Goes("leave")
    /\ UNCHANGED <<database, wallets, currentId, faults, opened, shown, known, writes, load>>

(* The keychain does not remove the credential.                            *)
EraseFails ==
    /\ At("erase")
    /\ page' = NoPage
    /\ UNCHANGED <<disk, opened, shown, known, writes, load>>

DeleteEnds ==
    /\ At("leave")
    /\ shown' = None
    /\ page' = NoPage
    /\ IF page.left # {} THEN LoadAfter ELSE Dashboard
    /\ UNCHANGED <<disk, opened, known, writes>>

-----------------------------------------------------------------------------
(* The sidebar: SelectWallet, also while a submission runs.                *)
Select(entry) ==
    /\ load.at = "idle"
    /\ shown # None
    /\ entry \in known
    /\ currentId' = entry.id
    /\ LoadAfter
    /\ UNCHANGED <<database, credential, wallets, faults, opened, shown, known, writes, page>>

-----------------------------------------------------------------------------
(* LoadingScreen: loadCurrentWallet and doFirstTimeSetup.                  *)

LoadAt(step) == load.at = step /\ Written("load")

(* The entry of the setting, or else the first one.                        *)
LoadChooses ==
    /\ LoadAt("choose")
    /\ LET named == {e \in wallets : e.id = currentId}
           first == {e \in wallets : \A other \in wallets : e.id <= other.id}
           from == IF named # {} THEN named ELSE first
       IN  IF from = {}
           THEN /\ load' = [load EXCEPT !.at = "all", !.current = None, !.alone = page.at = "idle"]
                /\ UNCHANGED writes
           ELSE \E e \in from :
                /\ load' = [load EXCEPT !.at = "all", !.current = e, !.alone = page.at = "idle"]
                /\ Begins("load", Without(wallets, e.id) \cup {e})
    /\ UNCHANGED <<disk, opened, shown, known, page>>

LoadReadsList ==
    /\ LoadAt("all")
    /\ load' = [load EXCEPT !.at = "probe", !.wallets = wallets]
    /\ UNCHANGED <<disk, opened, shown, known, writes, page>>

(* Mutant: "not exists default wallet, trying to recover it" does not add  *)
(* the entry.                                                              *)
LoadDropsMissing ==
    /\ LoadAt("probe")
    /\ load' = [load EXCEPT !.at = "settle", !.wallets = {}]
    /\ LET listed == \E e \in load.wallets : e.id = 1
       IN  CASE ~Exists(NoName) /\ listed -> Begins("load", Without(wallets, 1))
             [] OTHER -> UNCHANGED writes
    /\ UNCHANGED <<disk, opened, shown, known, page>>

(* The default entry stands for whatever database there is: it is added    *)
(* when it is missing, and removed when there is no database.              *)
LoadRecovers ==
    /\ LoadAt("probe")
    /\ load' = [load EXCEPT !.at = "settle", !.wallets = {}]
    /\ LET listed == \E e \in load.wallets : e.id = 1
       IN  CASE Exists(NoName) /\ ~listed -> Begins("load", wallets \cup {MainWallet})
             [] ~Exists(NoName) /\ listed -> Begins("load", Without(wallets, 1))
             [] OTHER -> UNCHANGED writes
    /\ UNCHANGED <<disk, opened, shown, known, page>>

(* The settings are saved; without a chosen entry, any that is listed now  *)
(* is taken. Without entries the load ends.                                *)
LoadSettles ==
    /\ LoadAt("settle")
    /\ known' = wallets
    /\ \E e \in (IF load.current # None \/ wallets = {} THEN {load.current} ELSE wallets) :
        /\ currentId' = IF e = None THEN None ELSE e.id
        /\ shown' = e
        /\ load' = IF e = None THEN NoLoad ELSE [load EXCEPT !.at = "exists", !.current = e]
    /\ UNCHANGED <<database, credential, wallets, faults, opened, writes, page>>

(* Mutant: the entry of a wallet that is not found is kept.                *)
LoadKeepsEntry ==
    /\ LoadAt("exists")
    /\ IF Exists(load.current.fileName)
       THEN /\ load' = [load EXCEPT !.at = "open"]
            /\ UNCHANGED writes
       ELSE /\ load' = [load EXCEPT !.at = "forget"]
            /\ UNCHANGED writes
    /\ UNCHANGED <<disk, opened, shown, known, page>>

LoadLooks ==
    /\ LoadAt("exists")
    /\ IF Exists(load.current.fileName)
       THEN /\ load' = [load EXCEPT !.at = "open"]
            /\ UNCHANGED writes
       ELSE /\ load' = [load EXCEPT !.at = "forget"]
            /\ Begins("load", Without(wallets, load.current.id))
    /\ UNCHANGED <<disk, opened, shown, known, page>>

(* The entry is forgotten and the screen starts over.                      *)
LoadForgets ==
    /\ LoadAt("forget")
    /\ currentId' = None
    /\ known' = wallets
    /\ shown' = None
    /\ load' = NewLoad
    /\ UNCHANGED <<database, credential, wallets, faults, opened, writes, page>>

(* initFromB64, up to wcash_open, which reads the database.                *)
LoadOpens ==
    /\ LoadAt("open")
    /\ database # None /\ NameMatches(load.current.fileName)
    /\ load' = [load EXCEPT !.at = "opening"]
    /\ UNCHANGED <<disk, opened, shown, known, writes, page>>

(* store_runtime, whatever became of the database meanwhile.               *)
LoadOpened ==
    /\ LoadAt("opening")
    /\ opened' = TRUE
    /\ load' = NoLoad
    /\ UNCHANGED <<disk, shown, known, writes, page>>

(* currentWalletOpenError                                                  *)
LoadFails ==
    /\ LoadAt("open") \/ LoadAt("opening")
    /\ load' = NoLoad
    /\ UNCHANGED <<disk, opened, shown, known, writes, page>>

(* The same for a call that fails once an entry is chosen.                 *)
LoadCatches ==
    /\ Fault
    /\ load.at \in {"exists", "forget"}
    /\ Lost("load")
    /\ currentId' \in {currentId} \cup {id \in {None} : load.at = "forget"}
    /\ load' = NoLoad
    /\ UNCHANGED <<database, credential, wallets, opened, shown, known, page>>

(* "Wcash Wallet could not start": a call fails before that. loadingDone   *)
(* is not set, and there is no sidebar to leave the screen by.             *)
LoadRejected ==
    /\ Fault
    /\ load.at \in {"choose", "all", "probe", "settle"}
    /\ Lost("load")
    /\ currentId' \in {currentId} \cup
        {id \in {IF load.current = None THEN None ELSE load.current.id} : load.at = "settle"}
    /\ load' = [NewLoad EXCEPT !.at = "rejected"]
    /\ UNCHANGED <<database, credential, wallets, opened, shown, known, page>>

-----------------------------------------------------------------------------
(* The process stops, in whatever way, and starts again.                   *)
Restart ==
    /\ Fault
    /\ opened' = FALSE
    /\ shown' = None
    /\ known' = {}
    /\ writes' = [who \in {"page", "load"} |-> None]
    /\ page' = NoPage
    /\ load' = NewLoad
    /\ UNCHANGED <<database, credential, wallets, currentId>>

(* What a submission does once the user has started it.                    *)
PageStep ==
    \/ NameTaken \/ NameFound \/ CreateCatches
    \/ InitRefused \/ InitChecked \/ CredentialStored
    \/ DatabaseCreated \/ CreateFails \/ BirthdayStored \/ BirthdayFails
    \/ CleansUp \/ Reopens
    \/ FileOpened \/ FileRefused
    \/ EntryAdded \/ EntrySelected
    \/ SaveEnds \/ SaveRejected
    \/ EntryForgotten \/ DeleteCatches \/ DeleteRefused \/ DatabaseDeleted
    \/ CredentialErased \/ EraseFails \/ DeleteEnds

LoadStep ==
    \/ LoadChooses \/ LoadReadsList \/ LoadRecovers \/ LoadSettles
    \/ LoadLooks \/ LoadForgets
    \/ LoadOpens \/ LoadOpened \/ LoadFails
    \/ LoadCatches \/ LoadRejected

WalletNext ==
    \/ \E seed \in Seeds : CreateBegins("new", seed) \/ CreateBegins("seed", seed)
    \/ CreateBegins("file", None)
    \/ SaveBegins \/ DeleteBegins
    \/ PageStep
    \/ \E entry \in Entries : Select(entry)
    \/ LoadStep
    \/ \E who \in {"page", "load"} : ListWritten(who)
    \/ Restart

WalletSpec == WalletInit /\ [][WalletNext]_walletVars

(* The calls of the loading screen are answered, by a result or an error.  *)
(* Nothing is assumed of a submission or of the user.                      *)
WalletFairness ==
    /\ WF_walletVars(LoadStep)
    /\ WF_walletVars(ListWritten("load"))

WalletFairSpec == WalletSpec /\ WalletFairness

-----------------------------------------------------------------------------
(* The seed of the wallet on disk is in the keychain, whenever the process *)
(* stops and whatever fails: the credential is there before the database   *)
(* (initNew, initFromSeed) and goes after it (deleteWallet).               *)
SeedKept ==
    database # None => credential # None /\ credential.seed = database

(* What makes it inductive: how far each submission has got tells what is  *)
(* on disk and in the keychain.                                            *)
CreateSteps == {"name", "init", "store", "create", "birthday", "cleanup", "add", "select"}

SubmissionFits ==
    /\ page.at \in (CreateSteps \ {"name"}) \cup {"file", "forget", "delete", "save"}
        => page.entry \in Entries
    /\ page.at \in CreateSteps \cup {"file"} => page.n > 3
    /\ page.at \in {"name", "init", "store", "create", "birthday", "cleanup"} /\ page.kind # "file"
        => page.seed \in Seeds
    /\ page.at \in {"init", "store", "create", "birthday", "cleanup"} => page.kind # "file"
    /\ page.at \in {"store", "create", "erase"} => database = None
    /\ page.at \in {"create", "birthday", "cleanup"}
        => credential # None /\ credential.seed = page.seed
    /\ page.at = "birthday" => database = page.seed
    /\ page.at = "cleanup" => database \in {None, page.seed}

LoadFits ==
    load.at \in {"exists", "forget", "open", "opening"} => load.current \in Entries

WalletInv ==
    /\ WalletTypeOK
    /\ SeedKept
    /\ SubmissionFits
    /\ LoadFits

(* A load that ends and shows no wallet has seen that none is on disk,     *)
(* whatever list updates were lost and wherever the process stopped before *)
(* ("RECOVERY"). Only a submission beside it can have created one since.   *)
LoadFindsWallet ==
    [][load.at # "idle" /\ load'.at = "idle" /\ shown' = None /\ load.alone
        => database = None]_walletVars

(* What makes it hold: a load that was alone when it chose stays alone, so *)
(* the list it read is the list, and the wallet it saw on disk is listed.  *)
AloneFits ==
    /\ page.at = "idle" => Written("page")
    /\ load.alone /\ load.at # "idle" => page.at = "idle"
    /\ load.alone /\ load.at \in {"exists", "forget", "open", "opening"} => shown # None
    /\ load.alone /\ load.at = "probe" => Written("load") /\ load.wallets = wallets
    /\ load.alone /\ load.at = "settle" /\ database # None =>
        IF Written("load") THEN wallets # {} ELSE writes["load"] # {}

(* "A wrong answer the user can report beats a window that does nothing":  *)
(* the loading screen ends or says that it could not, however often it     *)
(* starts over.                                                            *)
LoadEnds ==
    load.at \notin {"idle", "rejected"} ~> load.at \in {"idle", "rejected"}

(* "in order to delete it completely": doDelete of a wallet that was not   *)
(* added from a file is not refused for the name it sends.                 *)
ShownIsDeletable ==
    load.at = "idle" /\ page.at = "idle" /\ shown # None /\ opened =>
        shown.file \/ NameMatches(SentName(shown))
================================================================================
