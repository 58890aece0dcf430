------------------------- MODULE WalletLifecycleProofs -------------------------
(***************************************************************************)
(* The seed of the wallet on disk is in the keychain, and a load finds the *)
(* wallet, for any seeds and any number of ids and faults.                 *)
(***************************************************************************)
EXTENDS WalletLifecycle, TLAPS

LEMMA MainIsEntry == MainWallet \in Entries
BY DEF MainWallet, Entries, Ids, Names, NoName

LEMMA NothingIsIdle ==
    /\ NoPage \in Pages /\ NoPage.at = "idle"
    /\ NewLoad \in Loads /\ NewLoad.at = "choose"
    /\ NoLoad \in Loads /\ NoLoad.at = "idle"
    /\ LET reopening == [NoPage EXCEPT !.at = "reopen"]
       IN  reopening \in Pages /\ reopening.at = "reopen"
    /\ LET rejected == [NewLoad EXCEPT !.at = "rejected"]
       IN  rejected \in Loads /\ rejected.at = "rejected" /\ rejected.alone = FALSE
<1>1. NoPage \in Pages /\ NoPage.at = "idle"
  BY LifecycleAssumption DEF NoPage, Pages, PageSteps
<1>2. NewLoad \in Loads /\ NewLoad.at = "choose" /\ NewLoad.alone = FALSE
  BY DEF NewLoad, Loads, LoadSteps
<1>3. "reopen" \in PageSteps /\ "rejected" \in LoadSteps /\ "idle" \in LoadSteps
  BY DEF PageSteps, LoadSteps
<1>4. NoLoad \in Loads /\ NoLoad.at = "idle"
  BY <1>2, <1>3 DEF NoLoad, Loads
<1> QED
  BY <1>1, <1>2, <1>3, <1>4 DEF Pages, Loads

LEMMA InitInv == WalletInit => WalletInv
<1> SUFFICES ASSUME WalletInit PROVE WalletInv
  OBVIOUS
<1>1. /\ database \in Seeds \cup {None} /\ credential \in Credentials \cup {None}
      /\ currentId \in Ids \cup {None} /\ faults \in 0 .. MaxFaults
  BY LifecycleAssumption DEF WalletInit
<1>2. WalletTypeOK
  BY <1>1, NothingIsIdle DEF WalletInit, WalletTypeOK
<1>3. SeedKept /\ SubmissionFits /\ LoadFits
  BY NothingIsIdle DEF WalletInit, SeedKept, SubmissionFits, LoadFits, CreateSteps
<1> QED BY <1>2, <1>3 DEF WalletInv

LEMMA FaultFits ==
    ASSUME WalletInv, Fault
    PROVE  faults' \in 0 .. MaxFaults
BY LifecycleAssumption DEF Fault, WalletInv, WalletTypeOK

LEMMA LoadAfterFits ==
    ASSUME WalletInv, LoadAfter \/ Dashboard
    PROVE  load' \in Loads /\ LoadFits'
BY NothingIsIdle DEF LoadAfter, Dashboard, LoadFits, WalletInv, WalletTypeOK

(* The page's own steps, in the order of the flows.                        *)

LEMMA CreateBeginsInv ==
    ASSUME WalletInv, NEW seed \in Seeds \cup {None}, NEW kind \in {"new", "seed", "file"},
           kind # "file" => seed \in Seeds, CreateBegins(kind, seed)
    PROVE  WalletInv'
<1> USE DEF CreateBegins, Follows, disk
<1>0. page' \in Pages
  BY NothingIsIdle, LifecycleAssumption DEF Pages, PageSteps
<1>1. WalletTypeOK'
  BY <1>0 DEF WalletInv, WalletTypeOK
<1>2. SeedKept'
  BY DEF WalletInv, SeedKept
<1>3. SubmissionFits'
  BY NothingIsIdle DEF WalletInv, SubmissionFits, PageSteps, CreateSteps
<1>4. LoadFits'
  BY DEF WalletInv, LoadFits
<1> QED BY <1>1, <1>2, <1>3, <1>4 DEF WalletInv

LEMMA NameTakenInv ==
    ASSUME WalletInv, NameTaken
    PROVE  WalletInv'
<1> USE DEF NameTaken, At, disk
<1>1. WalletTypeOK'
  BY LifecycleAssumption DEF WalletInv, WalletTypeOK, Pages, PageSteps, SubmissionFits, CreateSteps
<1>2. SeedKept'
  BY DEF WalletInv, SeedKept
<1>3. SubmissionFits'
  BY LifecycleAssumption DEF WalletInv, WalletTypeOK, SubmissionFits, Pages, PageSteps, CreateSteps
<1>4. LoadFits'
  BY DEF WalletInv, LoadFits
<1> QED BY <1>1, <1>2, <1>3, <1>4 DEF WalletInv

LEMMA NameFoundInv ==
    ASSUME WalletInv, NameFound
    PROVE  WalletInv'
<1> USE DEF NameFound, At, disk
<1>1. page.n \in 4 .. MaxId /\ page \in Pages
  BY LifecycleAssumption DEF WalletInv, WalletTypeOK, SubmissionFits, CreateSteps, Pages
<1>2. PICK entry \in Entries :
        page' = [page EXCEPT !.at = IF page.kind = "file" THEN "file" ELSE "init",
                             !.entry = entry]
  <2>1. PICK name \in (IF page.kind = "file" THEN Typed ELSE {page.n}) :
            page' = [page EXCEPT !.at = IF page.kind = "file" THEN "file" ELSE "init",
                        !.entry = [id |-> page.n, fileName |-> name, file |-> page.kind = "file"]]
    OBVIOUS
  <2>2. name \in 4 .. MaxId
    BY <1>1, LifecycleAssumption
  <2>3. [id |-> page.n, fileName |-> name, file |-> page.kind = "file"] \in Entries
    BY <1>1, <2>2 DEF Entries, Ids, Names
  <2> QED
    BY <2>1, <2>3
<1>3. page' \in Pages
  BY <1>1, <1>2 DEF Pages, PageSteps
<1>4. WalletTypeOK' /\ SeedKept'
  BY <1>3 DEF WalletInv, WalletTypeOK, SeedKept
<1>5. SubmissionFits'
  BY <1>1, <1>2 DEF WalletInv, SubmissionFits, Pages, PageSteps, CreateSteps
<1>6. LoadFits'
  BY DEF WalletInv, LoadFits
<1> QED BY <1>4, <1>5, <1>6 DEF WalletInv

LEMMA InitInvs ==
    ASSUME WalletInv, InitRefused \/ InitChecked
    PROVE  WalletInv'
<1> USE DEF InitRefused, InitChecked, At, Goes, disk
<1>1. WalletTypeOK'
  BY NothingIsIdle DEF WalletInv, WalletTypeOK, Pages, PageSteps, SubmissionFits
<1>2. SeedKept'
  BY DEF WalletInv, SeedKept
<1>3. SubmissionFits'
  <2>1. CASE InitRefused
    BY <2>1, NothingIsIdle DEF SubmissionFits, CreateSteps
  <2>2. CASE InitChecked
    BY <2>2 DEF WalletInv, WalletTypeOK, SubmissionFits, Pages, PageSteps, CreateSteps
  <2> QED
    BY <2>1, <2>2
<1>4. LoadFits'
  BY DEF WalletInv, LoadFits
<1> QED BY <1>1, <1>2, <1>3, <1>4 DEF WalletInv

(* Before the database is created or after it is listed.                   *)
LEMMA CreateCatchesInv ==
    ASSUME WalletInv, CreateCatches
    PROVE  WalletInv'
<1> USE DEF CreateCatches, At, Lost
<1>1. /\ shown' \in Entries \cup {None} /\ known' \in SUBSET Entries
      /\ writes' \in [{"page", "load"} -> (SUBSET Entries) \cup {None}]
  BY DEF WalletInv, WalletTypeOK, SubmissionFits, CreateSteps
<1>2. WalletTypeOK'
  BY <1>1, FaultFits, NothingIsIdle DEF WalletInv, WalletTypeOK
<1>3. SeedKept'
  BY DEF WalletInv, SeedKept
<1>4. SubmissionFits'
  BY NothingIsIdle DEF SubmissionFits, CreateSteps
<1>5. LoadFits'
  BY DEF WalletInv, LoadFits
<1> QED BY <1>2, <1>3, <1>4, <1>5 DEF WalletInv

LEMMA CredentialStoredInv ==
    ASSUME WalletInv, CredentialStored
    PROVE  WalletInv'
<1> USE DEF CredentialStored, At, Goes
<1>1. page.n \in 4 .. MaxId /\ page.seed \in Seeds /\ page \in Pages
  BY LifecycleAssumption DEF WalletInv, WalletTypeOK, SubmissionFits, CreateSteps, Pages
<1>2. credential' \in Credentials /\ credential' # None /\ credential'.seed = page.seed
  BY <1>1, LifecycleAssumption DEF Credentials
<1>3. page' \in Pages
  BY <1>1 DEF Pages, PageSteps
<1>4. WalletTypeOK'
  BY <1>2, <1>3 DEF WalletInv, WalletTypeOK
<1>5. SeedKept'
  BY <1>2 DEF WalletInv, SubmissionFits, SeedKept
<1>6. SubmissionFits'
  BY <1>1, <1>2 DEF WalletInv, SubmissionFits, Pages, PageSteps, CreateSteps
<1>7. LoadFits'
  BY DEF WalletInv, LoadFits
<1> QED BY <1>4, <1>5, <1>6, <1>7 DEF WalletInv

LEMMA CreateInv ==
    ASSUME WalletInv, DatabaseCreated \/ CreateFails
    PROVE  WalletInv'
<1> USE DEF DatabaseCreated, CreateFails, At, Goes, disk
<1>1. WalletTypeOK'
  BY DEF WalletInv, WalletTypeOK, Pages, PageSteps, SubmissionFits
<1>2. SeedKept'
  BY DEF WalletInv, SeedKept, SubmissionFits
<1>3. SubmissionFits'
  BY DEF WalletInv, WalletTypeOK, SubmissionFits, Pages, PageSteps, CreateSteps
<1>4. LoadFits'
  BY DEF WalletInv, LoadFits
<1> QED BY <1>1, <1>2, <1>3, <1>4 DEF WalletInv

LEMMA BirthdayStoredInv ==
    ASSUME WalletInv, BirthdayStored
    PROVE  WalletInv'
<1> USE DEF BirthdayStored, At, Goes
<1>1. page.n \in 4 .. MaxId /\ page.seed \in Seeds /\ page \in Pages
  BY LifecycleAssumption DEF WalletInv, WalletTypeOK, SubmissionFits, CreateSteps, Pages
<1>2. credential' \in Credentials /\ credential' # None /\ credential'.seed = page.seed
  BY <1>1, LifecycleAssumption DEF Credentials
<1>3. page' \in Pages
  BY <1>1 DEF Pages, PageSteps
<1>4. WalletTypeOK'
  BY <1>2, <1>3 DEF WalletInv, WalletTypeOK
<1>5. SeedKept'
  BY <1>2 DEF WalletInv, SubmissionFits, SeedKept
<1>6. SubmissionFits'
  BY <1>1, <1>2 DEF WalletInv, SubmissionFits, Pages, PageSteps, CreateSteps
<1>7. LoadFits'
  BY DEF WalletInv, LoadFits
<1> QED BY <1>4, <1>5, <1>6, <1>7 DEF WalletInv

LEMMA CleanupInv ==
    ASSUME WalletInv, BirthdayFails \/ CleansUp
    PROVE  WalletInv'
<1> USE DEF BirthdayFails, CleansUp, At, Goes, disk
<1>1. WalletTypeOK'
  BY NothingIsIdle, LifecycleAssumption DEF WalletInv, WalletTypeOK, Pages, PageSteps, SubmissionFits
<1>2. SeedKept'
  BY LifecycleAssumption DEF WalletInv, SeedKept, SubmissionFits
<1>3. SubmissionFits'
  BY NothingIsIdle DEF WalletInv, WalletTypeOK, SubmissionFits, Pages, PageSteps, CreateSteps
<1>4. LoadFits'
  BY DEF WalletInv, LoadFits
<1> QED BY <1>1, <1>2, <1>3, <1>4 DEF WalletInv

LEMMA ReopensInv ==
    ASSUME WalletInv, Reopens
    PROVE  WalletInv'
<1> USE DEF Reopens, disk
<1>1. WalletTypeOK'
  BY NothingIsIdle, LifecycleAssumption DEF WalletInv, WalletTypeOK, Pages, PageSteps, SubmissionFits
<1>2. SeedKept'
  BY DEF WalletInv, SeedKept
<1>3. SubmissionFits'
  BY NothingIsIdle DEF WalletInv, SubmissionFits, CreateSteps
<1>4. LoadFits'
  BY DEF WalletInv, LoadFits
<1> QED BY <1>1, <1>2, <1>3, <1>4 DEF WalletInv

LEMMA FileInv ==
    ASSUME WalletInv, FileOpened \/ FileRefused
    PROVE  WalletInv'
<1> USE DEF FileOpened, FileRefused, At, Goes, disk
<1>1. WalletTypeOK'
  BY NothingIsIdle DEF WalletInv, WalletTypeOK, Pages, PageSteps, SubmissionFits
<1>2. SeedKept'
  BY DEF WalletInv, SeedKept
<1>3. SubmissionFits'
  BY NothingIsIdle DEF WalletInv, WalletTypeOK, SubmissionFits, Pages, PageSteps, CreateSteps
<1>4. LoadFits'
  BY DEF WalletInv, LoadFits
<1> QED BY <1>1, <1>2, <1>3, <1>4 DEF WalletInv

LEMMA EntryAddedInv ==
    ASSUME WalletInv, EntryAdded
    PROVE  WalletInv'
<1> USE DEF EntryAdded, Begins, At, Goes, disk
<1>0. page' \in Pages /\ wallets \cup {page.entry} \in SUBSET Entries
  BY DEF WalletInv, WalletTypeOK, Pages, PageSteps, SubmissionFits, CreateSteps
<1>1. WalletTypeOK'
  BY <1>0 DEF WalletInv, WalletTypeOK
<1>2. SeedKept'
  BY DEF WalletInv, SeedKept
<1>3. SubmissionFits'
  BY DEF WalletInv, WalletTypeOK, SubmissionFits, Pages, PageSteps, CreateSteps
<1>4. LoadFits'
  BY DEF WalletInv, LoadFits
<1> QED BY <1>1, <1>2, <1>3, <1>4 DEF WalletInv

LEMMA EntrySelectedInv ==
    ASSUME WalletInv, EntrySelected
    PROVE  WalletInv'
<1> USE DEF EntrySelected, At
<1>1. WalletTypeOK'
  BY NothingIsIdle, LifecycleAssumption, LoadAfterFits
     DEF WalletInv, WalletTypeOK, Pages, PageSteps, SubmissionFits, CreateSteps, Ids
<1>2. SeedKept'
  BY DEF WalletInv, SeedKept
<1>3. SubmissionFits'
  BY NothingIsIdle DEF WalletInv, SubmissionFits, CreateSteps
<1>4. LoadFits'
  BY LoadAfterFits DEF WalletInv
<1> QED BY <1>1, <1>2, <1>3, <1>4 DEF WalletInv

LEMMA SaveBeginsInv ==
    ASSUME WalletInv, SaveBegins
    PROVE  WalletInv'
<1> USE DEF SaveBegins, Begins, Without, disk
<1>1. WalletTypeOK'
  BY NothingIsIdle, LifecycleAssumption DEF WalletInv, WalletTypeOK, Pages, PageSteps, SubmissionFits
<1>2. SeedKept'
  BY DEF WalletInv, SeedKept
<1>3. SubmissionFits'
  BY NothingIsIdle, LifecycleAssumption
     DEF WalletInv, WalletTypeOK, SubmissionFits, Pages, PageSteps, CreateSteps
<1>4. LoadFits'
  BY DEF WalletInv, LoadFits
<1> QED BY <1>1, <1>2, <1>3, <1>4 DEF WalletInv

LEMMA SaveEndsInv ==
    ASSUME WalletInv, SaveEnds
    PROVE  WalletInv'
<1> USE DEF SaveEnds, At, disk
<1>1. WalletTypeOK'
  BY NothingIsIdle, LifecycleAssumption, LoadAfterFits
     DEF WalletInv, WalletTypeOK, Pages, PageSteps, SubmissionFits
<1>2. SeedKept'
  BY DEF WalletInv, SeedKept
<1>3. SubmissionFits'
  BY NothingIsIdle DEF WalletInv, SubmissionFits, CreateSteps
<1>4. LoadFits'
  BY LoadAfterFits DEF WalletInv
<1> QED BY <1>1, <1>2, <1>3, <1>4 DEF WalletInv

(* A save or a deletion whose list is lost.                                *)
LEMMA ListLostInv ==
    ASSUME WalletInv, SaveRejected \/ DeleteCatches
    PROVE  WalletInv'
<1> USE DEF SaveRejected, DeleteCatches, Lost
<1>1. /\ writes' \in [{"page", "load"} -> (SUBSET Entries) \cup {None}]
      /\ currentId' \in Ids \cup {None} /\ faults' \in 0 .. MaxFaults
  BY FaultFits DEF WalletInv, WalletTypeOK
<1>2. WalletTypeOK'
  BY <1>1, NothingIsIdle DEF WalletInv, WalletTypeOK
<1>3. SeedKept'
  BY DEF WalletInv, SeedKept
<1>4. SubmissionFits'
  BY NothingIsIdle DEF SubmissionFits, CreateSteps
<1>5. LoadFits'
  BY DEF WalletInv, LoadFits
<1> QED BY <1>2, <1>3, <1>4, <1>5 DEF WalletInv

LEMMA DeleteBeginsInv ==
    ASSUME WalletInv, DeleteBegins
    PROVE  WalletInv'
<1> USE DEF DeleteBegins, Begins, Without, disk
<1>1. WalletTypeOK'
  BY NothingIsIdle, LifecycleAssumption DEF WalletInv, WalletTypeOK, Pages, PageSteps, SubmissionFits
<1>2. SeedKept'
  BY DEF WalletInv, SeedKept
<1>3. SubmissionFits'
  BY NothingIsIdle, LifecycleAssumption
     DEF WalletInv, WalletTypeOK, SubmissionFits, Pages, PageSteps, CreateSteps
<1>4. LoadFits'
  BY DEF WalletInv, LoadFits
<1> QED BY <1>1, <1>2, <1>3, <1>4 DEF WalletInv

LEMMA EntryForgottenInv ==
    ASSUME WalletInv, EntryForgotten
    PROVE  WalletInv'
<1> USE DEF EntryForgotten, At
<1>1. WalletTypeOK'
  BY DEF WalletInv, WalletTypeOK, Pages, PageSteps, SubmissionFits
<1>2. SeedKept'
  BY DEF WalletInv, SeedKept
<1>3. SubmissionFits'
  BY DEF WalletInv, WalletTypeOK, SubmissionFits, Pages, PageSteps, CreateSteps
<1>4. LoadFits'
  BY DEF WalletInv, LoadFits
<1> QED BY <1>1, <1>2, <1>3, <1>4 DEF WalletInv

LEMMA DeleteRefusedInv ==
    ASSUME WalletInv, DeleteRefused
    PROVE  WalletInv'
<1> USE DEF DeleteRefused, disk
<1>1. WalletTypeOK'
  BY NothingIsIdle, LifecycleAssumption DEF WalletInv, WalletTypeOK, Pages, PageSteps, SubmissionFits
<1>2. SeedKept'
  BY DEF WalletInv, SeedKept
<1>3. SubmissionFits'
  BY NothingIsIdle DEF WalletInv, SubmissionFits, CreateSteps
<1>4. LoadFits'
  BY DEF WalletInv, LoadFits
<1> QED BY <1>1, <1>2, <1>3, <1>4 DEF WalletInv

LEMMA DatabaseDeletedInv ==
    ASSUME WalletInv, DatabaseDeleted
    PROVE  WalletInv'
<1> USE DEF DatabaseDeleted, At, Goes
<1>1. WalletTypeOK'
  BY DEF WalletInv, WalletTypeOK, Pages, PageSteps, SubmissionFits
<1>2. SeedKept'
  BY DEF WalletInv, SeedKept
<1>3. SubmissionFits'
  BY DEF WalletInv, WalletTypeOK, SubmissionFits, Pages, PageSteps, CreateSteps
<1>4. LoadFits'
  BY DEF WalletInv, LoadFits
<1> QED BY <1>1, <1>2, <1>3, <1>4 DEF WalletInv

LEMMA CredentialErasedInv ==
    ASSUME WalletInv, CredentialErased
    PROVE  WalletInv'
<1> USE DEF CredentialErased, At, Goes
<1>1. WalletTypeOK'
  BY DEF WalletInv, WalletTypeOK, Pages, PageSteps, SubmissionFits
<1>2. SeedKept'
  BY DEF WalletInv, SeedKept
<1>3. SubmissionFits'
  BY DEF WalletInv, WalletTypeOK, SubmissionFits, Pages, PageSteps, CreateSteps
<1>4. LoadFits'
  BY DEF WalletInv, LoadFits
<1> QED BY <1>1, <1>2, <1>3, <1>4 DEF WalletInv

LEMMA EraseFailsInv ==
    ASSUME WalletInv, EraseFails
    PROVE  WalletInv'
<1> USE DEF EraseFails, disk
<1>1. WalletTypeOK'
  BY NothingIsIdle, LifecycleAssumption DEF WalletInv, WalletTypeOK, Pages, PageSteps, SubmissionFits
<1>2. SeedKept'
  BY DEF WalletInv, SeedKept
<1>3. SubmissionFits'
  BY NothingIsIdle DEF WalletInv, SubmissionFits, CreateSteps
<1>4. LoadFits'
  BY DEF WalletInv, LoadFits
<1> QED BY <1>1, <1>2, <1>3, <1>4 DEF WalletInv

LEMMA DeleteEndsInv ==
    ASSUME WalletInv, DeleteEnds
    PROVE  WalletInv'
<1> USE DEF DeleteEnds, disk
<1>1. WalletTypeOK'
  BY NothingIsIdle, LifecycleAssumption, LoadAfterFits
     DEF WalletInv, WalletTypeOK, Pages, PageSteps, SubmissionFits
<1>2. SeedKept'
  BY DEF WalletInv, SeedKept
<1>3. SubmissionFits'
  BY NothingIsIdle DEF WalletInv, SubmissionFits, CreateSteps
<1>4. LoadFits'
  BY LoadAfterFits DEF WalletInv
<1> QED BY <1>1, <1>2, <1>3, <1>4 DEF WalletInv

(* Everything else leaves the database, the credential and the submission. *)

LEMMA SelectInv ==
    ASSUME WalletInv, NEW entry \in Entries, Select(entry)
    PROVE  WalletInv'
<1> USE DEF Select
<1>1. WalletTypeOK'
  BY LoadAfterFits DEF WalletInv, WalletTypeOK, Entries
<1>2. SeedKept'
  BY DEF WalletInv, SeedKept
<1>3. SubmissionFits'
  BY DEF WalletInv, SubmissionFits
<1>4. LoadFits'
  BY LoadAfterFits DEF WalletInv
<1> QED BY <1>1, <1>2, <1>3, <1>4 DEF WalletInv

LEMMA ListWrittenInv ==
    ASSUME WalletInv, NEW who \in {"page", "load"}, ListWritten(who)
    PROVE  WalletInv'
<1> USE DEF ListWritten, Written
<1>1. WalletTypeOK'
  BY DEF WalletInv, WalletTypeOK
<1>2. SeedKept'
  BY DEF WalletInv, SeedKept
<1>3. SubmissionFits'
  BY DEF WalletInv, SubmissionFits
<1>4. LoadFits'
  BY DEF WalletInv, LoadFits
<1> QED BY <1>1, <1>2, <1>3, <1>4 DEF WalletInv

LEMMA LoadChoosesInv ==
    ASSUME WalletInv, LoadChooses
    PROVE  WalletInv'
<1> USE DEF LoadChooses, LoadAt, Begins, Without, disk
<1>0. /\ load' \in Loads /\ load'.at = "all"
      /\ writes' \in [{"page", "load"} -> (SUBSET Entries) \cup {None}]
  <2>1. CASE \E e \in wallets :
                /\ load' = [load EXCEPT !.at = "all", !.current = e, !.alone = page.at = "idle"]
                /\ Begins("load", Without(wallets, e.id) \cup {e})
    <3>1. PICK e \in Entries :
            /\ load' = [load EXCEPT !.at = "all", !.current = e, !.alone = page.at = "idle"]
            /\ writes' = [writes EXCEPT !["load"] = {f \in wallets : f.id # e.id} \cup {e}]
      BY <2>1 DEF WalletInv, WalletTypeOK
    <3>2. {f \in wallets : f.id # e.id} \cup {e} \in SUBSET Entries
      BY DEF WalletInv, WalletTypeOK
    <3> QED BY <3>1, <3>2 DEF WalletInv, WalletTypeOK, Loads, LoadSteps
  <2>2. CASE /\ load' = [load EXCEPT !.at = "all", !.current = None, !.alone = page.at = "idle"]
             /\ UNCHANGED writes
    BY <2>2 DEF WalletInv, WalletTypeOK, Loads, LoadSteps
  <2> QED BY <2>1, <2>2, Zenon
<1>1. WalletTypeOK'
  BY <1>0 DEF WalletInv, WalletTypeOK
<1>2. SeedKept'
  BY DEF WalletInv, SeedKept
<1>3. SubmissionFits'
  BY DEF WalletInv, SubmissionFits
<1>4. LoadFits'
  BY <1>0 DEF LoadFits
<1> QED BY <1>1, <1>2, <1>3, <1>4 DEF WalletInv

LEMMA LoadReadsListInv ==
    ASSUME WalletInv, LoadReadsList
    PROVE  WalletInv'
<1> USE DEF LoadReadsList, LoadAt, Begins, Without, disk
<1>1. WalletTypeOK'
  BY DEF WalletInv, WalletTypeOK, Loads, LoadSteps
<1>2. SeedKept'
  BY DEF WalletInv, SeedKept
<1>3. SubmissionFits'
  BY DEF WalletInv, SubmissionFits
<1>4. LoadFits'
  BY DEF WalletInv, WalletTypeOK, Loads, LoadFits, LoadSteps
<1> QED BY <1>1, <1>2, <1>3, <1>4 DEF WalletInv

LEMMA LoadRecoversInv ==
    ASSUME WalletInv, LoadRecovers
    PROVE  WalletInv'
<1> USE DEF LoadRecovers, LoadAt, Begins, Without, disk
<1>0. writes' \in [{"page", "load"} -> (SUBSET Entries) \cup {None}]
  BY MainIsEntry DEF WalletInv, WalletTypeOK
<1>1. WalletTypeOK'
  <2>1. load' \in Loads
    BY DEF WalletInv, WalletTypeOK, Loads, LoadSteps
  <2> QED
    BY <1>0, <2>1 DEF WalletInv, WalletTypeOK
<1>2. SeedKept'
  BY DEF WalletInv, SeedKept
<1>3. SubmissionFits'
  BY DEF WalletInv, SubmissionFits
<1>4. LoadFits'
  BY DEF WalletInv, WalletTypeOK, Loads, LoadFits, LoadSteps
<1> QED BY <1>1, <1>2, <1>3, <1>4 DEF WalletInv

LEMMA LoadSettlesInv ==
    ASSUME WalletInv, LoadSettles
    PROVE  WalletInv'
<1>1. load.current \in Entries \cup {None} /\ wallets \subseteq Entries /\ load \in Loads
  BY DEF WalletInv, WalletTypeOK, Loads
<1>2. PICK e \in (IF load.current # None \/ wallets = {} THEN {load.current} ELSE wallets) :
        /\ currentId' = IF e = None THEN None ELSE e.id
        /\ shown' = e
        /\ load' = IF e = None THEN NoLoad ELSE [load EXCEPT !.at = "exists", !.current = e]
  BY DEF LoadSettles
<1>3. e \in Entries \cup {None}
  BY <1>1
<1>4. currentId' \in Ids \cup {None}
  BY <1>2, <1>3 DEF Entries
<1>5. load' \in Loads /\ LoadFits'
  BY <1>1, <1>2, <1>3, NothingIsIdle DEF Loads, LoadSteps, LoadFits
<1>6. WalletTypeOK'
  BY <1>2, <1>3, <1>4, <1>5 DEF LoadSettles, WalletInv, WalletTypeOK
<1>7. SeedKept' /\ SubmissionFits'
  BY DEF LoadSettles, WalletInv, SeedKept, SubmissionFits
<1> QED BY <1>5, <1>6, <1>7 DEF WalletInv

LEMMA LoadLooksInv ==
    ASSUME WalletInv, LoadLooks
    PROVE  WalletInv'
<1> USE DEF LoadLooks, LoadAt, Begins, Without, disk
<1>1. WalletTypeOK'
  BY DEF WalletInv, WalletTypeOK, Loads, LoadSteps
<1>2. SeedKept'
  BY DEF WalletInv, SeedKept
<1>3. SubmissionFits'
  BY DEF WalletInv, SubmissionFits
<1>4. LoadFits'
  BY DEF WalletInv, WalletTypeOK, Loads, LoadFits, LoadSteps
<1> QED BY <1>1, <1>2, <1>3, <1>4 DEF WalletInv

LEMMA LoadForgetsInv ==
    ASSUME WalletInv, LoadForgets
    PROVE  WalletInv'
<1> USE DEF LoadForgets, LoadAt, Begins, Without, disk
<1>1. WalletTypeOK'
  BY NothingIsIdle DEF WalletInv, WalletTypeOK, Loads, LoadSteps
<1>2. SeedKept'
  BY DEF WalletInv, SeedKept
<1>3. SubmissionFits'
  BY DEF WalletInv, SubmissionFits
<1>4. LoadFits'
  BY NothingIsIdle DEF WalletInv, WalletTypeOK, Loads, LoadFits, LoadSteps
<1> QED BY <1>1, <1>2, <1>3, <1>4 DEF WalletInv

LEMMA LoadOpensInv ==
    ASSUME WalletInv, LoadOpens \/ LoadOpened \/ LoadFails
    PROVE  WalletInv'
<1> USE DEF LoadOpens, LoadOpened, LoadFails, LoadAt, disk
<1>1. WalletTypeOK'
  BY NothingIsIdle DEF WalletInv, WalletTypeOK, Loads, LoadSteps
<1>2. SeedKept'
  BY DEF WalletInv, SeedKept
<1>3. SubmissionFits'
  BY DEF WalletInv, SubmissionFits
<1>4. LoadFits'
  BY NothingIsIdle DEF WalletInv, WalletTypeOK, Loads, LoadFits, LoadSteps
<1> QED BY <1>1, <1>2, <1>3, <1>4 DEF WalletInv

(* A call of a load fails.                                                 *)
LEMMA LoadRejectedInv ==
    ASSUME WalletInv, LoadCatches \/ LoadRejected
    PROVE  WalletInv'
<1> USE DEF LoadCatches, LoadRejected, Lost
<1>1. /\ writes' \in [{"page", "load"} -> (SUBSET Entries) \cup {None}]
      /\ faults' \in 0 .. MaxFaults
  BY FaultFits DEF WalletInv, WalletTypeOK
<1>2. currentId' \in Ids \cup {None}
  BY DEF WalletInv, WalletTypeOK, Loads, Entries
<1>3. load' \in Loads /\ load'.at \in {"idle", "rejected"}
  BY NothingIsIdle
<1>4. WalletTypeOK'
  BY <1>1, <1>2, <1>3 DEF WalletInv, WalletTypeOK
<1>5. SeedKept'
  BY DEF WalletInv, SeedKept
<1>6. SubmissionFits'
  BY DEF WalletInv, SubmissionFits
<1>7. LoadFits'
  BY <1>3 DEF LoadFits
<1> QED BY <1>4, <1>5, <1>6, <1>7 DEF WalletInv

LEMMA RestartInv ==
    ASSUME WalletInv, Restart
    PROVE  WalletInv'
<1> USE DEF Restart
<1>0. faults' \in 0 .. MaxFaults
  BY FaultFits
<1>1. WalletTypeOK'
  BY <1>0, NothingIsIdle DEF WalletInv, WalletTypeOK
<1>2. SeedKept'
  BY DEF WalletInv, SeedKept
<1>3. SubmissionFits'
  BY NothingIsIdle DEF SubmissionFits, CreateSteps
<1>4. LoadFits'
  BY NothingIsIdle DEF LoadFits
<1> QED BY <1>1, <1>2, <1>3, <1>4 DEF WalletInv

LEMMA NextInv == WalletInv /\ [WalletNext]_walletVars => WalletInv'
<1> SUFFICES ASSUME WalletInv, [WalletNext]_walletVars PROVE WalletInv'
  OBVIOUS
<1>1. CASE \E seed \in Seeds : CreateBegins("new", seed) \/ CreateBegins("seed", seed)
  BY <1>1, CreateBeginsInv
<1>2. CASE CreateBegins("file", None)
  BY <1>2, CreateBeginsInv
<1>3. CASE SaveBegins \/ DeleteBegins \/ PageStep
  BY <1>3, NameTakenInv, NameFoundInv, InitInvs, CredentialStoredInv, CreateInv,
     CreateCatchesInv, ListLostInv, BirthdayStoredInv, CleanupInv, ReopensInv, FileInv, EntryAddedInv, EntrySelectedInv,
     SaveBeginsInv, SaveEndsInv, DeleteBeginsInv, EntryForgottenInv, DeleteRefusedInv,
     DatabaseDeletedInv, CredentialErasedInv, EraseFailsInv, DeleteEndsInv
     DEF PageStep
<1>4. CASE \E entry \in Entries : Select(entry)
  BY <1>4, SelectInv
<1>5. CASE LoadStep
  BY <1>5, LoadChoosesInv, LoadReadsListInv, LoadRecoversInv, LoadSettlesInv, LoadLooksInv,
     LoadForgetsInv, LoadOpensInv, LoadRejectedInv
     DEF LoadStep
<1>6. CASE \E who \in {"page", "load"} : ListWritten(who)
  BY <1>6, ListWrittenInv
<1>7. CASE Restart
  BY <1>7, RestartInv
<1>8. CASE UNCHANGED walletVars
  BY <1>8
     DEF walletVars, disk, session, WalletInv, WalletTypeOK, SeedKept, SubmissionFits, LoadFits
<1> QED BY <1>1, <1>2, <1>3, <1>4, <1>5, <1>6, <1>7, <1>8 DEF WalletNext

(* Types are kept, and what a submission and a load rely on.               *)
THEOREM WalletInvariant == WalletSpec => []WalletInv
BY InitInv, NextInv, PTL DEF WalletSpec

THEOREM WalletTypeCorrect == WalletSpec => []WalletTypeOK
<1>1. WalletInv => WalletTypeOK
  BY DEF WalletInv
<1> QED BY <1>1, WalletInvariant, PTL

(* No wallet is on disk without its seed in the keychain, in whatever step *)
(* of a creation, a restore or a deletion the process stops.               *)
THEOREM SeedIsKept == WalletSpec => []SeedKept
<1>1. WalletInv => SeedKept
  BY DEF WalletInv
<1> QED BY <1>1, WalletInvariant, PTL

-----------------------------------------------------------------------------
(* A load finds the wallet                                                 *)

(* A step of a submission is of one under way, which ends with its list    *)
(* written or lost; it begins a load or dismisses one at most.             *)
LEMMA PageStepEffect ==
    ASSUME WalletInv, PageStep
    PROVE  /\ page.at # "idle"
           /\ load' = load \/ load' = NewLoad \/ load' = NoLoad
           /\ page'.at = "idle" => Written("page")'
<1>1. CASE CreateCatches \/ SaveRejected \/ DeleteCatches
  <2>1. writes'["page"] = None
    BY <1>1 DEF CreateCatches, SaveRejected, DeleteCatches, Lost, WalletInv, WalletTypeOK
  <2> QED
    BY <1>1, <2>1 DEF CreateCatches, SaveRejected, DeleteCatches, Written
<1>2. CASE ~(CreateCatches \/ SaveRejected \/ DeleteCatches)
  <2>1. page.at # "idle" /\ Written("page")
    BY <1>2 DEF PageStep, At, NameTaken, NameFound, InitRefused, InitChecked, CredentialStored,
     DatabaseCreated, CreateFails, BirthdayStored, BirthdayFails, CleansUp, Reopens, FileOpened,
     FileRefused, EntryAdded, EntrySelected, SaveEnds, EntryForgotten, DeleteRefused,
     DatabaseDeleted, CredentialErased, EraseFails, DeleteEnds
  <2>2. load' = load \/ load' = NewLoad \/ load' = NoLoad
    BY <1>2 DEF PageStep, LoadAfter, Dashboard, NameTaken, NameFound, InitRefused, InitChecked, CredentialStored,
     DatabaseCreated, CreateFails, BirthdayStored, BirthdayFails, CleansUp, Reopens, FileOpened,
     FileRefused, EntryAdded, EntrySelected, SaveEnds, EntryForgotten, DeleteRefused,
     DatabaseDeleted, CredentialErased, EraseFails, DeleteEnds
  <2>3. ASSUME ~EntryAdded PROVE writes' = writes
    BY <1>2, <2>3 DEF PageStep, NameTaken, NameFound, InitRefused, InitChecked, CredentialStored,
     DatabaseCreated, CreateFails, BirthdayStored, BirthdayFails, CleansUp, Reopens, FileOpened,
     FileRefused, EntrySelected, SaveEnds, EntryForgotten, DeleteRefused,
     DatabaseDeleted, CredentialErased, EraseFails, DeleteEnds
  <2>4. ASSUME EntryAdded PROVE page'.at # "idle"
    BY <2>4 DEF EntryAdded, Goes, WalletInv, WalletTypeOK, Pages
  <2> QED
    BY <2>1, <2>2, <2>3, <2>4 DEF Written
<1> QED
  BY <1>1, <1>2

(* A submission begins where no load is under way.                         *)
LEMMA PageBeginEffect ==
    ASSUME WalletInv,
           \/ \E kind \in {"new", "seed", "file"}, seed \in Seeds \cup {None} :
                CreateBegins(kind, seed)
           \/ SaveBegins \/ DeleteBegins
    PROVE  page'.at # "idle" /\ load.at = "idle" /\ load' = load
<1>1. load.at = "idle" /\ load' = load
  BY DEF CreateBegins, SaveBegins, DeleteBegins
<1>2. page'.at # "idle"
  <2>1. NoPage \in Pages
    BY NothingIsIdle
  <2>2. \E step \in {"name", "save", "forget"} : page'.at = step
    BY <2>1 DEF CreateBegins, SaveBegins, DeleteBegins, Pages
  <2> QED
    BY <2>2
<1> QED
  BY <1>1, <1>2

(* Steps of the page do not meet a load that is alone.                     *)
LEMMA PageAlone ==
    ASSUME WalletInv, AloneFits,
           \/ PageStep
           \/ \E kind \in {"new", "seed", "file"}, seed \in Seeds \cup {None} :
                CreateBegins(kind, seed)
           \/ SaveBegins \/ DeleteBegins
    PROVE  AloneFits'
<1>1. NewLoad.alone = FALSE /\ NoLoad.alone = FALSE
  BY DEF NewLoad, NoLoad
<1>2. ~(load'.alone /\ load'.at # "idle")
  <2>1. CASE PageStep
    BY <1>1, <2>1, PageStepEffect DEF AloneFits
  <2>2. CASE ~PageStep
    BY <2>2, PageBeginEffect
  <2> QED
    BY <2>1, <2>2
<1>3. page'.at = "idle" => Written("page")'
  <2>1. CASE PageStep
    BY <2>1, PageStepEffect
  <2>2. CASE ~PageStep
    BY <2>2, PageBeginEffect
  <2> QED
    BY <2>1, <2>2
<1> QED
  BY <1>2, <1>3 DEF AloneFits

(* The steps of a load before it settles.                                  *)
LEMMA LoadAlone ==
    ASSUME WalletInv, AloneFits, LoadChooses \/ LoadReadsList \/ LoadRecovers
    PROVE  AloneFits'
<1>1. /\ page' = page /\ database' = database /\ wallets' = wallets
      /\ load \in Loads /\ wallets \subseteq Entries
      /\ writes \in [{"page", "load"} -> (SUBSET Entries) \cup {None}]
  BY DEF LoadChooses, LoadReadsList, LoadRecovers, disk, WalletInv, WalletTypeOK
<1>2. Written("page")' <=> Written("page")
  BY <1>1 DEF LoadChooses, LoadReadsList, LoadRecovers, Begins, Written
<1>3. CASE LoadChooses
  <2>1. load'.at = "all" /\ load'.alone = (page.at = "idle")
    BY <1>1, <1>3 DEF LoadChooses, Loads
  <2> QED
    BY <1>1, <1>2, <2>1 DEF AloneFits
<1>4. CASE LoadReadsList
  <2>1. /\ load.at = "all" /\ Written("load") /\ writes' = writes
        /\ load'.at = "probe" /\ load'.alone = load.alone /\ load'.wallets = wallets
    BY <1>1, <1>4 DEF LoadReadsList, LoadAt, Loads
  <2> QED
    BY <1>1, <1>2, <2>1 DEF AloneFits, Written
<1>5. CASE LoadRecovers
  <2>1. load.at = "probe" /\ load'.at = "settle" /\ load'.alone = load.alone
    BY <1>1, <1>5 DEF LoadRecovers, LoadAt, Loads
  <2>2. ASSUME load.alone, database # None
        PROVE  IF Written("load")' THEN wallets # {} ELSE writes'["load"] # {}
    <3>1. Exists(NoName) /\ load.wallets = wallets /\ Written("load")
      BY <2>1, <2>2 DEF Exists, AloneFits
    <3>2. CASE \E e \in wallets : e.id = 1
      <4>1. writes' = writes
        BY <1>5, <3>1, <3>2 DEF LoadRecovers
      <4> QED
        BY <3>1, <3>2, <4>1 DEF Written
    <3>3. CASE ~ \E e \in wallets : e.id = 1
      <4>1. Begins("load", wallets \cup {MainWallet})
        BY <1>5, <3>1, <3>3 DEF LoadRecovers
      <4>2. writes'["load"] = wallets \cup {MainWallet}
        BY <1>1, <4>1 DEF Begins
      <4>3. writes'["load"] # None /\ writes'["load"] # {}
        BY <1>1, <4>2, MainIsEntry, LifecycleAssumption
      <4> QED
        BY <4>3 DEF Written
    <3> QED
      BY <3>2, <3>3
  <2> QED
    BY <1>1, <1>2, <2>1, <2>2 DEF AloneFits
<1> QED
  BY <1>3, <1>4, <1>5


(* The steps of a load from where it settles, those of one that is         *)
(* rejected, and those of the user.                                        *)
LEMMA SettledAlone ==
    ASSUME WalletInv, AloneFits,
           \/ LoadSettles \/ LoadLooks \/ LoadForgets \/ LoadOpens \/ LoadOpened \/ LoadFails
           \/ LoadCatches \/ LoadRejected
           \/ \E entry \in Entries : Select(entry)
    PROVE  AloneFits'
<1>1. page' = page /\ load \in Loads /\ writes \in [{"page", "load"} -> (SUBSET Entries) \cup {None}]
  BY DEF LoadSettles, LoadLooks, LoadForgets, LoadOpens, LoadOpened, LoadFails, LoadCatches,
     LoadRejected, Select, WalletInv, WalletTypeOK
<1>2. Written("page")' <=> Written("page")
  BY <1>1 DEF LoadSettles, LoadLooks, LoadForgets, LoadOpens, LoadOpened, LoadFails, LoadCatches,
     LoadRejected, Select, Begins, Lost, Written
<1>3. NewLoad.alone = FALSE /\ NoLoad.alone = FALSE
  BY DEF NewLoad, NoLoad
<1>4. CASE LoadSettles
  <2>1. PICK e : /\ load' = IF e = None THEN NoLoad ELSE [load EXCEPT !.at = "exists", !.current = e]
                 /\ shown' = e
    BY <1>4 DEF LoadSettles
  <2>2. load.at = "settle"
    BY <1>4 DEF LoadSettles, LoadAt
  <2> QED
    BY <1>1, <1>2, <1>3, <2>1, <2>2 DEF AloneFits, Loads
<1>5. CASE LoadLooks \/ LoadOpens
  <2>1. /\ load.at \in {"exists", "open"} /\ load'.at \in {"open", "forget", "opening"}
        /\ load'.alone = load.alone /\ shown' = shown
    BY <1>1, <1>5 DEF LoadLooks, LoadOpens, LoadAt, Loads
  <2> QED
    BY <1>1, <1>2, <2>1 DEF AloneFits
<1>6. CASE \/ LoadForgets \/ LoadOpened \/ LoadFails \/ LoadCatches \/ LoadRejected
           \/ \E entry \in Entries : Select(entry)
  <2>1. load'.alone = FALSE
    BY <1>3, <1>6, NothingIsIdle DEF LoadForgets, LoadOpened, LoadFails, LoadCatches, LoadRejected,
       Select, LoadAfter
  <2> QED
    BY <1>1, <1>2, <2>1 DEF AloneFits
<1> QED
  BY <1>4, <1>5, <1>6

(* A list is written; the process stops.                                   *)
LEMMA WrittenAlone ==
    ASSUME WalletInv, AloneFits, (\E who \in {"page", "load"} : ListWritten(who)) \/ Restart
    PROVE  AloneFits'
<1>1. CASE Restart
  <2>1. page'.at = "idle" /\ writes'["page"] = None /\ load'.alone = FALSE
    BY <1>1, NothingIsIdle DEF Restart, NewLoad
  <2> QED
    BY <2>1 DEF AloneFits, Written
<1>2. ASSUME NEW who \in {"page", "load"}, ListWritten(who) PROVE AloneFits'
  <2>1. /\ UNCHANGED <<page, load, database, shown>> /\ ~Written(who)
        /\ wallets' = writes[who] /\ writes' = [writes EXCEPT ![who] = None]
        /\ writes \in [{"page", "load"} -> (SUBSET Entries) \cup {None}]
    BY <1>2 DEF ListWritten, WalletInv, WalletTypeOK
  <2>2. CASE who = "page"
    <3>1. page.at # "idle" /\ writes'["load"] = writes["load"]
      BY <2>1, <2>2 DEF AloneFits
    <3> QED
      BY <2>1, <3>1 DEF AloneFits
  <2>3. CASE who = "load"
    <3>1. /\ writes'["page"] = writes["page"] /\ writes'["load"] = None
          /\ wallets' = writes["load"]
      BY <2>1, <2>3
    <3> QED
      BY <2>1, <2>3, <3>1 DEF AloneFits, Written
  <2> QED
    BY <2>2, <2>3
<1> QED
  BY <1>1, <1>2

(* Every step keeps what a load that is alone relies on.                   *)
LEMMA AloneNext == WalletInv /\ AloneFits /\ [WalletNext]_walletVars => AloneFits'
<1> SUFFICES ASSUME WalletInv, AloneFits, [WalletNext]_walletVars PROVE AloneFits'
  OBVIOUS
<1>1. CASE \E seed \in Seeds : CreateBegins("new", seed) \/ CreateBegins("seed", seed)
  BY <1>1, PageAlone
<1>2. CASE CreateBegins("file", None) \/ SaveBegins \/ DeleteBegins \/ PageStep
  BY <1>2, PageAlone
<1>3. CASE (\E entry \in Entries : Select(entry)) \/ LoadStep
  BY <1>3, LoadAlone, SettledAlone DEF LoadStep
<1>4. CASE (\E who \in {"page", "load"} : ListWritten(who)) \/ Restart
  BY <1>4, WrittenAlone
<1>5. CASE UNCHANGED walletVars
  BY <1>5 DEF walletVars, disk, session, AloneFits, Written
<1> QED
  BY <1>1, <1>2, <1>3, <1>4, <1>5 DEF WalletNext

(* A load ends without a wallet only where it settles and nothing is       *)
(* listed: elsewhere an entry was chosen.                                  *)
LEMMA EndsWithoutWallet ==
    ASSUME WalletInv, AloneFits, [WalletNext]_walletVars,
           load.at # "idle", load'.at = "idle", shown' = None, load.alone
    PROVE  database = None
<1>1. load \in Loads /\ NewLoad.at # "idle" /\ NewLoad \in Loads /\ page.at = "idle"
  BY NothingIsIdle DEF WalletInv, WalletTypeOK, AloneFits
<1>2. LoadStep
  <2>1. ~PageStep
    BY <1>1, PageStepEffect
  <2>2. \A kind \in {"new", "seed", "file"}, seed \in Seeds \cup {None} : ~CreateBegins(kind, seed)
    BY DEF CreateBegins
  <2>3. ~SaveBegins /\ ~DeleteBegins /\ ~UNCHANGED walletVars
    BY DEF SaveBegins, DeleteBegins, walletVars, session
  <2>4. /\ \A entry \in Entries : ~Select(entry)
        /\ \A who \in {"page", "load"} : ~ListWritten(who)
        /\ ~Restart
    BY <1>1 DEF Select, ListWritten, Restart
  <2> QED
    BY <2>1, <2>2, <2>3, <2>4 DEF WalletNext
<1>3. LoadSettles
  <2>1. ~LoadOpened /\ ~LoadFails /\ ~LoadCatches
    BY DEF LoadOpened, LoadFails, LoadCatches, LoadAt, AloneFits
  <2>2. ~LoadChooses
    <3>1. LoadChooses => load'.at = "all"
      BY <1>1 DEF LoadChooses, Loads
    <3> QED
      BY <3>1
  <2>3. ~LoadReadsList /\ ~LoadRecovers /\ ~LoadRejected
    <3>1. LoadReadsList => load'.at = "probe"
      BY <1>1 DEF LoadReadsList, Loads
    <3>2. LoadRecovers => load'.at = "settle"
      BY <1>1 DEF LoadRecovers, Loads
    <3>3. LoadRejected => load'.at = "rejected"
      BY NothingIsIdle DEF LoadRejected
    <3> QED
      BY <3>1, <3>2, <3>3
  <2>4. ~LoadLooks /\ ~LoadForgets /\ ~LoadOpens
    BY <1>1 DEF LoadLooks, LoadForgets, LoadOpens, Loads
  <2> QED
    BY <1>2, <2>1, <2>2, <2>3, <2>4 DEF LoadStep
<1>4. Written("load") /\ load.at = "settle" /\ wallets \subseteq Entries
  BY <1>3 DEF LoadSettles, LoadAt, WalletInv, WalletTypeOK
<1>5. PICK e \in (IF load.current # None \/ wallets = {} THEN {load.current} ELSE wallets) :
        shown' = e
  BY <1>3 DEF LoadSettles
<1>6. e = None
  BY <1>5
<1>7. wallets = {}
  BY <1>4, <1>5, <1>6, LifecycleAssumption
<1> QED
  BY <1>4, <1>7 DEF AloneFits

(* A load that ends and shows no wallet has seen that none is on disk,     *)
(* whatever list updates were lost and wherever the process stopped before *)
(* ("RECOVERY" of LoadingScreen.tsx).                                      *)
THEOREM FindsWallet == WalletSpec => LoadFindsWallet
<1>1. WalletInit => AloneFits
  BY NothingIsIdle DEF WalletInit, AloneFits, Written, NewLoad
<1>2. WalletInv /\ AloneFits /\ [WalletNext]_walletVars =>
        [load.at # "idle" /\ load'.at = "idle" /\ shown' = None /\ load.alone
            => database = None]_walletVars
  BY EndsWithoutWallet
<1> QED
  BY <1>1, <1>2, AloneNext, WalletInvariant, PTL DEF WalletSpec, LoadFindsWallet
================================================================================
