---------------------------- MODULE DeviceAuthProofs ----------------------------
(***************************************************************************)
(* Prompts and grants fit together, and the setting in use is the stored   *)
(* one, for any lifetime of a grant.                                       *)
(***************************************************************************)
EXTENDS DeviceAuth, TLAPS

LEMMA NamesDiffer ==
    /\ {"get_seed", "get_ufvk", "send", "shield"} \subseteq Askers
    /\ {"unlock", "seed modal", "send button", "setting"} \subseteq Askers
    /\ Calls \subseteq Askers
    /\ "disable" \notin Methods
    /\ \A call \in Calls : MethodOf(call) \in Methods /\ call \notin {"seed modal", "send button", "setting", "unlock"}
    /\ \A a : GrantedBy(a) \subseteq Methods
BY DEF Askers, Reasons, Calls, Methods, MethodOf, GrantedBy

LEMMA Lifetimes ==
    /\ TTL \in Nat /\ TTL \in 0 .. TTL /\ 0 \in 0 .. TTL - 1
    /\ TTL - 0 = TTL /\ None # 0
BY AuthAssumption

LEMMA SecretsRead ==
    ASSUME ReadsSecrets
    PROVE  /\ due \subseteq due' /\ due' \subseteq due \cup {"get_seed", "get_ufvk"}
           /\ "send" \in due' => "send" \in due
<1>1. PICK secrets \in {{"get_ufvk"}, {"get_ufvk", "get_seed"}} : due' = due \cup secrets
  BY DEF ReadsSecrets
<1>2. secrets \subseteq {"get_seed", "get_ufvk"}
  OBVIOUS
<1>3. due \subseteq due' /\ due' \subseteq due \cup {"get_seed", "get_ufvk"}
  BY <1>1, <1>2
<1>4. "send" \notin {"get_seed", "get_ufvk"}
  OBVIOUS
<1> QED BY <1>3, <1>4

LEMMA AskingChanges ==
    ASSUME AuthTypeOK, NEW a \in Askers, NEW step \in {"no", "probe", "prompt"},
           asking' = [asking EXCEPT ![a] = step]
    PROVE  /\ asking' \in [Askers -> {"no", "probe", "prompt"}]
           /\ asking'[a] = step
           /\ \A b \in Askers \ {a} : asking'[b] = asking[b]
BY DEF AuthTypeOK

LEMMA InitInv == AuthInit => AuthInv
<1> SUFFICES ASSUME AuthInit PROVE AuthInv
  OBVIOUS
<1>1. AuthTypeOK
  <2>1. 0 \in 0 .. TTL
    BY AuthAssumption
  <2>2. grants \in [Methods -> 0 .. TTL]
    BY <2>1 DEF AuthInit
  <2>3. due \subseteq Calls
    BY DEF AuthInit
  <2>4. asking \in [Askers -> {"no", "probe", "prompt"}]
    BY DEF AuthInit
  <2>5. proof \in [Methods \cup {"disable"} -> 0 .. TTL - 1 \cup {None}]
    BY DEF AuthInit
  <2> QED BY <2>2, <2>3, <2>4, <2>5, Zenon DEF AuthInit, AuthTypeOK
<1>2. CacheIsStored /\ GrantsFit
  BY DEF AuthInit, CacheIsStored, GrantsFit
<1>3. SavesFit /\ CallsFit
  BY NamesDiffer, AuthAssumption DEF AuthInit, SavesFit, CallsFit, Idle
<1>b. BootFits
  BY DEF AuthInit, BootFits
<1> QED BY <1>1, <1>2, <1>3, <1>b DEF AuthInv

(* The renderer's flows.                                                   *)

LEMMA SettingReadInv == ASSUME AuthInv, SettingRead PROVE AuthInv'
<1> USE DEF SettingRead, granting
<1>0. PICK s \in Stores : heldBy' = {s} /\ cache' = kept[s]
  OBVIOUS
<1>r. kept' = kept /\ cache' \in BOOLEAN
  BY <1>0 DEF AuthInv, AuthTypeOK
<1>1. AuthTypeOK'
  BY <1>0, <1>r DEF AuthInv, AuthTypeOK
<1>2. CacheIsStored'
  BY <1>0, <1>r DEF CacheIsStored
<1>3. SavesFit'
  BY <1>r DEF AuthInv, SavesFit
<1>4. CallsFit' /\ GrantsFit'
  BY DEF AuthInv, CallsFit, GrantsFit, Idle
<1>b. BootFits'
  BY DEF AuthInv, BootFits
<1> QED BY <1>1, <1>2, <1>3, <1>4, <1>b DEF AuthInv

LEMMA LockCheckedInv == ASSUME AuthInv, LockChecked PROVE AuthInv'
<1> USE DEF LockChecked, granting
<1>1. AuthTypeOK'
  BY DEF AuthInv, AuthTypeOK
<1>2. CacheIsStored'
  BY DEF AuthInv, CacheIsStored
<1>3. SavesFit'
  BY DEF AuthInv, SavesFit
<1>4. CallsFit' /\ GrantsFit'
  BY DEF AuthInv, CallsFit, GrantsFit, Idle
<1>b. BootFits'
  BY DEF AuthInv, BootFits
<1> QED BY <1>1, <1>2, <1>3, <1>4, <1>b DEF AuthInv

LEMMA UnlockBeginsInv == ASSUME AuthInv, UnlockBegins PROVE AuthInv'
<1> USE DEF UnlockBegins, Asks, granting
<1>1. AuthTypeOK'
  BY DEF AuthInv, AuthTypeOK
<1>2. CacheIsStored'
  BY DEF AuthInv, CacheIsStored
<1>3. SavesFit'
  BY NamesDiffer DEF AuthInv, AuthTypeOK, SavesFit
<1>4. CallsFit'
  BY NamesDiffer DEF AuthInv, AuthTypeOK, CallsFit, Idle, Calls
<1>5. GrantsFit'
  BY DEF AuthInv, GrantsFit
<1>b. BootFits'
  BY DEF AuthInv, BootFits
<1> QED BY <1>1, <1>2, <1>3, <1>4, <1>5, <1>b DEF AuthInv

LEMMA SeedBeginsInv == ASSUME AuthInv, SeedBegins PROVE AuthInv'
<1> USE DEF SeedBegins, Asks, ReadsSecrets, granting
<1>1. AuthTypeOK'
  BY DEF AuthInv, AuthTypeOK, Calls
<1>2. CacheIsStored'
  BY DEF AuthInv, CacheIsStored
<1>3. SavesFit'
  BY NamesDiffer DEF AuthInv, AuthTypeOK, SavesFit
<1>4. CallsFit'
  <2>1. CASE cache
    <3>1. /\ asking'["seed modal"] = "probe"
          /\ \A b \in Askers \ {"seed modal"} : asking'[b] = asking[b]
      BY <2>1, NamesDiffer, AskingChanges DEF AuthInv
    <3> QED BY <2>1, <3>1, NamesDiffer DEF AuthInv, AuthTypeOK, CallsFit, Idle
  <2>2. CASE ~cache
    <3>1. asking' = asking /\ due' \subseteq due \cup {"get_seed", "get_ufvk"}
      BY <2>2
    <3>2. ("send" \in due' => "send" \in due) /\ staging' = staging
      BY <2>2, SecretsRead DEF ReadsSecrets
    <3>3. asking["seed modal"] = "no" /\ asking["get_seed"] = "no" /\ asking["get_ufvk"] = "no"
      BY DEF Idle
    <3>4. \A call \in due' : asking'[call] = "no"
      BY <3>1, <3>3 DEF AuthInv, CallsFit
    <3>5. staging \in BOOLEAN /\ (staging' => staging)
      BY DEF AuthInv, AuthTypeOK
    <3>6. /\ asking'["send button"] # "no" \/ staging' => Idle("send")'
          /\ staging' => asking'["send button"] = "no"
      BY <3>1, <3>2, <3>5 DEF AuthInv, CallsFit, Idle
    <3>7. asking'["seed modal"] = "no"
      BY <3>1, <3>3
    <3> QED BY <3>4, <3>6, <3>7 DEF CallsFit
  <2> QED BY <2>1, <2>2
<1>5. GrantsFit'
  BY DEF AuthInv, GrantsFit
<1>b. BootFits'
  BY DEF AuthInv, BootFits
<1> QED BY <1>1, <1>2, <1>3, <1>4, <1>5, <1>b DEF AuthInv

LEMMA SendBeginsInv == ASSUME AuthInv, SendBegins PROVE AuthInv'
<1> USE DEF SendBegins, Asks, granting
<1>1. AuthTypeOK'
  BY DEF AuthInv, AuthTypeOK
<1>2. CacheIsStored'
  BY DEF AuthInv, CacheIsStored
<1>3. SavesFit'
  BY NamesDiffer DEF AuthInv, AuthTypeOK, SavesFit
<1>4. CallsFit'
  <2>1. CASE cache
    <3>1. /\ asking'["send button"] = "probe"
          /\ \A b \in Askers \ {"send button"} : asking'[b] = asking[b]
      BY <2>1, NamesDiffer, AskingChanges DEF AuthInv
    <3> QED BY <2>1, <3>1, NamesDiffer DEF AuthInv, AuthTypeOK, CallsFit, Idle
  <2>2. CASE ~cache
    BY <2>2, NamesDiffer DEF AuthInv, AuthTypeOK, CallsFit, Idle, Calls
  <2> QED BY <2>1, <2>2
<1>5. GrantsFit'
  BY DEF AuthInv, GrantsFit
<1>b. BootFits'
  BY DEF AuthInv, BootFits
<1> QED BY <1>1, <1>2, <1>3, <1>4, <1>5, <1>b DEF AuthInv

LEMMA SendStagedInv == ASSUME AuthInv, SendStaged PROVE AuthInv'
<1> USE DEF SendStaged, granting
<1>1. AuthTypeOK'
  <2>1. due' \subseteq Calls
    BY DEF AuthInv, AuthTypeOK, Calls
  <2> QED BY <2>1 DEF AuthInv, AuthTypeOK
<1>2. CacheIsStored'
  BY DEF AuthInv, CacheIsStored
<1>3. SavesFit'
  BY DEF AuthInv, SavesFit
<1>4. CallsFit'
  BY DEF AuthInv, CallsFit, Idle
<1>5. GrantsFit'
  BY DEF AuthInv, GrantsFit
<1>b. BootFits'
  BY DEF AuthInv, BootFits
<1> QED BY <1>1, <1>2, <1>3, <1>4, <1>5, <1>b DEF AuthInv

LEMMA ShieldBeginsInv == ASSUME AuthInv, ShieldBegins PROVE AuthInv'
<1> USE DEF ShieldBegins, granting
<1>1. AuthTypeOK'
  BY DEF AuthInv, AuthTypeOK, Calls
<1>2. CacheIsStored'
  BY DEF AuthInv, CacheIsStored
<1>3. SavesFit'
  BY DEF AuthInv, SavesFit
<1>4. CallsFit'
  BY DEF AuthInv, CallsFit, Idle
<1>5. GrantsFit'
  BY DEF AuthInv, GrantsFit
<1>b. BootFits'
  BY DEF AuthInv, BootFits
<1> QED BY <1>1, <1>2, <1>3, <1>4, <1>5, <1>b DEF AuthInv

(* A call is looked at: it uses its agreement up, or it is asked for.      *)

LEMMA HandlesInv == ASSUME AuthInv, NEW call \in Calls, Handles(call) PROVE AuthInv'
<1> USE DEF Handles, Asks, granting
<1>0. MethodOf(call) \in Methods /\ MethodOf(call) # "disable" /\ call \in Askers
  BY NamesDiffer
<1>1. AuthTypeOK'
  <2>1. asking' \in [Askers -> {"no", "probe", "prompt"}]
    BY <1>0, AskingChanges DEF AuthInv, AuthTypeOK
  <2>2. grants' \in [Methods -> 0 .. TTL]
    BY <1>0, AuthAssumption DEF AuthInv, AuthTypeOK
  <2>3. proof' \in [Methods \cup {"disable"} -> 0 .. TTL - 1 \cup {None}]
    BY <1>0 DEF AuthInv, AuthTypeOK
  <2> QED BY <2>1, <2>2, <2>3 DEF AuthInv, AuthTypeOK
<1>2. CacheIsStored'
  BY DEF AuthInv, CacheIsStored
<1>3. SavesFit'
  <2>1. proof'["disable"] = proof["disable"]
    BY <1>0 DEF AuthInv, AuthTypeOK
  <2>2. asking'["setting"] = asking["setting"]
    BY NamesDiffer DEF AuthInv, AuthTypeOK
  <2> QED BY <2>1, <2>2 DEF AuthInv, SavesFit
<1>4. CallsFit'
  <2>1. \A a \in Askers \ {call} : asking'[a] = asking[a] /\ (a \in due' <=> a \in due)
    BY DEF AuthInv, AuthTypeOK
  <2>2. call \notin due'
    OBVIOUS
  <2>3. \A other \in due' : asking'[other] = "no"
    BY <2>1, <2>2, NamesDiffer DEF AuthInv, AuthTypeOK, CallsFit
  <2>4. call \in due => ~Idle(call)
    BY DEF Idle
  <2>5. asking["seed modal"] # "no" => call \notin {"get_seed", "get_ufvk"}
    BY <2>4 DEF AuthInv, CallsFit
  <2>6. asking["send button"] # "no" \/ staging => call # "send"
    BY <2>4 DEF AuthInv, CallsFit
  <2>7. asking'["seed modal"] # "no" => Idle("get_seed")' /\ Idle("get_ufvk")'
    BY <2>1, <2>5, NamesDiffer DEF AuthInv, CallsFit, Idle
  <2>8. asking'["send button"] # "no" \/ staging' => Idle("send")'
    BY <2>1, <2>6, NamesDiffer DEF AuthInv, CallsFit, Idle
  <2>9. staging' => asking'["send button"] = "no"
    BY <2>1, NamesDiffer DEF AuthInv, CallsFit
  <2> QED BY <2>3, <2>7, <2>8, <2>9 DEF CallsFit
<1>5. GrantsFit'
  BY NamesDiffer DEF AuthInv, AuthTypeOK, GrantsFit
<1>b. BootFits'
  BY DEF AuthInv, BootFits
<1> QED BY <1>1, <1>2, <1>3, <1>4, <1>5, <1>b DEF AuthInv

(* The setting.                                                            *)

LEMMA SaveBeginsInv == ASSUME AuthInv, NEW value \in BOOLEAN, SaveBegins(value) PROVE AuthInv'
<1> USE DEF SaveBegins, Asks, granting
<1>1. AuthTypeOK'
  BY DEF AuthInv, AuthTypeOK
<1>0. writing = "no" /\ asking["setting"] = "no"
  BY AuthAssumption DEF AuthInv, SavesFit
<1>2. CacheIsStored'
  BY <1>0 DEF AuthInv, CacheIsStored
<1>3. SavesFit'
  BY <1>0, NamesDiffer DEF AuthInv, AuthTypeOK, SavesFit
<1>4. CallsFit'
  <2>1. \A b \in Askers \ {"setting"} : asking'[b] = asking[b]
    BY NamesDiffer, AskingChanges DEF AuthInv
  <2> QED BY <2>1, NamesDiffer DEF AuthInv, AuthTypeOK, CallsFit, Idle
<1>5. GrantsFit'
  BY DEF AuthInv, GrantsFit
<1>b. BootFits'
  BY DEF AuthInv, BootFits
<1> QED BY <1>1, <1>2, <1>3, <1>4, <1>5, <1>b DEF AuthInv

LEMMA SettingWrittenInv == ASSUME AuthInv, SettingWritten PROVE AuthInv'
<1> USE DEF SettingWritten, granting
<1>0. saving \in BOOLEAN
  BY DEF AuthInv, SavesFit
<1>1. AuthTypeOK'
  BY <1>0 DEF AuthInv, AuthTypeOK
<1>2. CacheIsStored'
  BY DEF CacheIsStored
<1>3. SavesFit'
  BY DEF AuthInv, AuthTypeOK, SavesFit, Stores
<1>4. CallsFit' /\ GrantsFit'
  BY DEF AuthInv, CallsFit, GrantsFit, Idle
<1>b. BootFits'
  BY DEF AuthInv, BootFits
<1> QED BY <1>1, <1>2, <1>3, <1>4, <1>b DEF AuthInv

(* What the two ends of setRequireAuth have in common; each says what the  *)
(* stores it names then hold.                                              *)
LEMMA SavedInInv ==
    ASSUME AuthInv, NEW stores \in SUBSET Stores, SavedIn(stores), writing # "no",
           kept' \in [Stores -> BOOLEAN],
           stores # {} => (saving <=> \A s \in stores : kept'[s])
    PROVE  AuthInv'
<1> USE DEF SavedIn
<1>0. saving \in BOOLEAN /\ asking["setting"] = "no"
  BY DEF AuthInv, SavesFit
<1>1. AuthTypeOK'
  BY <1>0 DEF AuthInv, AuthTypeOK
<1>2. CacheIsStored'
  BY <1>0 DEF CacheIsStored
<1>3. SavesFit'
  BY <1>0 DEF AuthInv, SavesFit
<1>4. CallsFit'
  BY DEF AuthInv, CallsFit, Idle
<1>5. GrantsFit'
  BY NamesDiffer DEF AuthInv, AuthTypeOK, GrantsFit
<1>6. session # "boot"
  BY DEF AuthInv, BootFits
<1>b. BootFits'
  BY <1>6 DEF BootFits
<1> QED BY <1>1, <1>2, <1>3, <1>4, <1>5, <1>b DEF AuthInv

LEMMA SaveEndsInv == ASSUME AuthInv, SaveEnds PROVE AuthInv'
<1>1. saving \in BOOLEAN /\ kept["keychain"] = saving /\ kept \in [Stores -> BOOLEAN]
  BY DEF SaveEnds, AuthInv, AuthTypeOK, SavesFit
<1>2. kept'["keychain"] = saving /\ kept'["settings"] = TRUE /\ kept' \in [Stores -> BOOLEAN]
  BY <1>1 DEF SaveEnds, Stores
<1>3. saving <=> \A s \in Stores : kept'[s]
  BY <1>1, <1>2 DEF Stores
<1> QED BY <1>2, <1>3, SavedInInv DEF SaveEnds

LEMMA SaveFallsBackInv == ASSUME AuthInv, SaveFallsBack PROVE AuthInv'
<1>1. saving \in BOOLEAN /\ kept \in [Stores -> BOOLEAN]
  BY DEF SaveFallsBack, AuthInv, AuthTypeOK, SavesFit
<1>2. kept'["settings"] = saving /\ kept'["keychain"] = kept["keychain"]
      /\ kept' \in [Stores -> BOOLEAN]
  BY <1>1 DEF SaveFallsBack, Stores
<1>3. CASE writing = "written"
  <2>1. kept["keychain"] = saving
    BY <1>3 DEF AuthInv, SavesFit
  <2>2. saving <=> \A s \in Stores : kept'[s]
    BY <1>1, <1>2, <2>1 DEF Stores
  <2> QED BY <1>2, <1>3, <2>2, SavedInInv DEF SaveFallsBack
<1>4. CASE writing # "written"
  <2>1. saving <=> \A s \in {"settings"} : kept'[s]
    BY <1>1, <1>2
  <2>2. {"settings"} \in SUBSET Stores
    BY DEF Stores
  <2> QED BY <1>2, <1>4, <2>1, <2>2, SavedInInv DEF SaveFallsBack
<1> QED BY <1>3, <1>4

LEMMA SaveRejectedInv == ASSUME AuthInv, SaveRejected PROVE AuthInv'
<1> USE DEF SaveRejected
<1>0. writing # "no" /\ session # "boot" /\ saving \in BOOLEAN /\ asking["setting"] = "no"
  BY DEF AuthInv, SavesFit, BootFits
<1>1. AuthTypeOK'
  BY DEF AuthInv, AuthTypeOK
<1>2. CacheIsStored'
  BY DEF AuthInv, CacheIsStored
<1>3. SavesFit'
  BY <1>0 DEF AuthInv, SavesFit
<1>4. CallsFit'
  BY DEF AuthInv, CallsFit, Idle
<1>5. GrantsFit'
  BY NamesDiffer DEF AuthInv, AuthTypeOK, GrantsFit
<1>b. BootFits'
  BY <1>0 DEF BootFits
<1> QED BY <1>1, <1>2, <1>3, <1>4, <1>5, <1>b DEF AuthInv

(* The prompts.                                                            *)

LEMMA SucceedsInv ==
    ASSUME AuthInv, NEW a \in Askers, asking[a] # "no", Succeeds(a) PROVE AuthInv'
<1> USE DEF Succeeds
<1>0. /\ asking' \in [Askers -> {"no", "probe", "prompt"}]
      /\ asking'[a] = "no"
      /\ \A b \in Askers \ {a} : asking'[b] = asking[b]
  BY AskingChanges DEF AuthInv
<1>d. proof'["disable"] = IF a = "setting" THEN 0 ELSE proof["disable"]
  BY NamesDiffer DEF AuthInv, AuthTypeOK
<1>m. \A m \in Methods : proof'[m] = IF m \in GrantedBy(a) THEN 0 ELSE proof[m]
  BY NamesDiffer
<1>1. AuthTypeOK'
  <2>1. TTL \in 0 .. TTL /\ 0 \in 0 .. TTL - 1
    BY Lifetimes
  <2>2. grants' \in [Methods -> 0 .. TTL]
    BY <2>1 DEF AuthInv, AuthTypeOK, Remembered
  <2>3. proof' \in [Methods \cup {"disable"} -> 0 .. TTL - 1 \cup {None}]
    BY <2>1 DEF AuthInv, AuthTypeOK
  <2>4. due' \subseteq Calls
    BY DEF AuthInv, AuthTypeOK, ReadsSecrets, Calls
  <2>5. session' \in {"boot", "check", "locked", "open"}
        /\ staging' \in BOOLEAN /\ writing' \in {"no", "write", "written"}
    BY DEF AuthInv, AuthTypeOK
  <2> QED BY <1>0, <2>2, <2>3, <2>4, <2>5 DEF AuthInv, AuthTypeOK
<1>2. CacheIsStored'
  <2>1. writing' # "written" => writing # "written"
    BY DEF AuthInv, SavesFit
  <2> QED BY <2>1 DEF AuthInv, CacheIsStored
<1>3. SavesFit'
  <2>1. session # "boot"
    BY DEF AuthInv, BootFits
  <2>2. session' # "boot" => cache' \in BOOLEAN
    BY <2>1 DEF AuthInv, SavesFit
  <2>3. CASE a = "setting"
    <3>1. saving \in BOOLEAN /\ writing = "no"
      BY <2>3 DEF AuthInv, SavesFit
    <3>2. proof'["disable"] # None
      BY <2>3, <1>d, AuthAssumption
    <3> QED BY <1>0, <2>2, <2>3, <3>1, <3>2 DEF SavesFit
  <2>4. CASE a # "setting"
    <3>1. asking'["setting"] = asking["setting"] /\ writing' = writing
          /\ proof'["disable"] = proof["disable"]
      BY <1>0, <1>d, <2>4, NamesDiffer
    <3> QED BY <2>2, <3>1 DEF AuthInv, SavesFit
  <2> QED BY <2>3, <2>4
<1>4. CallsFit'
  <2>1. \A b \in Askers : asking'[b] # "no" => asking[b] # "no" /\ b # a
    BY <1>0
  <2>2. CASE a = "seed modal"
    <3>1. due' \subseteq due \cup {"get_seed", "get_ufvk"} /\ staging' = staging
      BY <2>2 DEF ReadsSecrets, AuthInv, AuthTypeOK
    <3>2. \A call \in due' : asking[call] = "no"
      BY <2>2, <3>1 DEF AuthInv, CallsFit, Idle
    <3>3. \A call \in due' : asking'[call] = "no"
      <4> SUFFICES ASSUME NEW call \in due' PROVE asking'[call] = "no"
        OBVIOUS
      <4>1. call \in Calls
        BY <3>1 DEF AuthInv, AuthTypeOK, Calls
      <4>2. call \in Askers
        BY <4>1, NamesDiffer
      <4> QED BY <3>2, <4>2, <1>0
    <3>4. asking'["seed modal"] = "no"
      BY <1>0, <2>2
    <3>5. "send" \in due' => "send" \in due
      BY <2>2, SecretsRead
    <3>6. {"seed modal", "send button", "send"} \subseteq Askers
      BY NamesDiffer
    <3>7. asking'["send button"] # "no" \/ staging' => Idle("send")'
      BY <2>1, <3>1, <3>5, <3>6 DEF AuthInv, CallsFit, Idle
    <3>8. staging' => asking'["send button"] = "no"
      BY <2>1, <3>1, <3>6 DEF AuthInv, CallsFit
    <3> QED BY <3>3, <3>4, <3>7, <3>8 DEF CallsFit
  <2>3. CASE a # "seed modal"
    <3>1. due' = due
      BY <2>3
    <3>2. \A call \in due' : asking'[call] = "no"
      BY <3>1, <1>0, NamesDiffer DEF AuthInv, AuthTypeOK, CallsFit
    <3>3. asking'["seed modal"] # "no" => Idle("get_seed")' /\ Idle("get_ufvk")'
      BY <2>1, <3>1, NamesDiffer DEF AuthInv, CallsFit, Idle
    <3>4. asking'["send button"] # "no" \/ staging' => asking["send button"] # "no" \/ staging
      BY <2>1, NamesDiffer DEF AuthInv, AuthTypeOK
    <3>5. asking'["send button"] # "no" \/ staging' => Idle("send")'
      BY <2>1, <3>1, <3>4, NamesDiffer DEF AuthInv, CallsFit, Idle
    <3>6. staging' => asking'["send button"] = "no"
      BY <1>0, <2>1, NamesDiffer DEF AuthInv, CallsFit
    <3> QED BY <3>2, <3>3, <3>5, <3>6 DEF CallsFit
  <2> QED BY <2>2, <2>3
<1>5. GrantsFit'
  <2> SUFFICES ASSUME NEW m \in Methods
               PROVE  grants'[m] = IF proof'[m] = None THEN 0 ELSE TTL - proof'[m]
    BY DEF GrantsFit
  <2>1. grants'[m] = IF m \in GrantedBy(a) THEN TTL ELSE grants[m]
    BY DEF Remembered
  <2>2. grants[m] = IF proof[m] = None THEN 0 ELSE TTL - proof[m]
    BY DEF AuthInv, GrantsFit
  <2>3. proof'[m] = IF m \in GrantedBy(a) THEN 0 ELSE proof[m]
    BY <1>m
  <2> QED BY <2>1, <2>2, <2>3, Lifetimes
<1>b. BootFits'
  BY <1>0 DEF AuthInv, BootFits
<1> QED BY <1>1, <1>2, <1>3, <1>4, <1>5, <1>b DEF AuthInv

LEMMA FailsInv == ASSUME AuthInv, NEW a \in Askers, Fails(a) PROVE AuthInv'
<1> USE DEF Fails, granting
<1>0. /\ asking' \in [Askers -> {"no", "probe", "prompt"}]
      /\ \A b \in Askers : asking'[b] # "no" => asking[b] # "no"
  BY AskingChanges DEF AuthInv
<1>1. AuthTypeOK'
  BY <1>0 DEF AuthInv, AuthTypeOK
<1>2. CacheIsStored'
  BY DEF AuthInv, CacheIsStored
<1>3. SavesFit'
  BY <1>0, NamesDiffer DEF AuthInv, SavesFit
<1>4. CallsFit'
  BY <1>0, NamesDiffer DEF AuthInv, AuthTypeOK, CallsFit, Idle
<1>5. GrantsFit'
  BY DEF AuthInv, GrantsFit
<1>b. BootFits'
  BY <1>0 DEF AuthInv, BootFits
<1> QED BY <1>1, <1>2, <1>3, <1>4, <1>5, <1>b DEF AuthInv

LEMMA AvailableInv == ASSUME AuthInv, NEW a \in Askers, Available(a) PROVE AuthInv'
<1> USE DEF Available, granting
<1>1. AuthTypeOK'
  BY DEF AuthInv, AuthTypeOK
<1>2. CacheIsStored'
  BY DEF AuthInv, CacheIsStored
<1>0. \A b \in Askers : asking'[b] # "no" <=> asking[b] # "no"
  BY DEF AuthInv, AuthTypeOK
<1>3. SavesFit'
  BY <1>0, NamesDiffer DEF AuthInv, SavesFit
<1>4. CallsFit'
  BY <1>0, NamesDiffer DEF AuthInv, AuthTypeOK, CallsFit, Idle
<1>5. GrantsFit'
  BY DEF AuthInv, GrantsFit
<1>b. BootFits'
  BY <1>0 DEF AuthInv, BootFits
<1> QED BY <1>1, <1>2, <1>3, <1>4, <1>5, <1>b DEF AuthInv

LEMMA VerifiesInv == ASSUME AuthInv, NEW a \in Askers, Verifies(a) PROVE AuthInv'
<1>1. CASE Available(a)
  BY <1>1, AvailableInv
<1>2. CASE Unavailable(a) \/ UserAgrees(a)
  BY <1>2, SucceedsInv DEF Unavailable, UserAgrees
<1>3. CASE VerifyFails(a) \/ TimesOut(a)
  BY <1>3, FailsInv DEF VerifyFails, TimesOut
<1> QED BY <1>1, <1>2, <1>3 DEF Verifies

(* Time and restarts.                                                      *)

LEMMA TickInv == ASSUME AuthInv, Tick PROVE AuthInv'
<1> USE DEF Tick
<1>0. /\ DOMAIN proof = Methods \cup {"disable"} /\ proof'["disable"] = proof["disable"]
      /\ TTL \in Nat \ {0} /\ None \notin Nat
  BY AuthAssumption DEF AuthInv, AuthTypeOK
<1>1. AuthTypeOK'
  <2>1. grants' \in [Methods -> 0 .. TTL]
    BY <1>0 DEF AuthInv, AuthTypeOK
  <2>2. \A m \in DOMAIN proof : proof[m] \in 0 .. TTL - 1 \cup {None}
    BY <1>0 DEF AuthInv, AuthTypeOK
  <2>3. proof' \in [Methods \cup {"disable"} -> 0 .. TTL - 1 \cup {None}]
    BY <1>0, <2>2
  <2> QED BY <2>1, <2>3 DEF AuthInv, AuthTypeOK
<1>2. CacheIsStored'
  BY DEF AuthInv, CacheIsStored
<1>3. SavesFit'
  BY <1>0 DEF AuthInv, SavesFit
<1>4. CallsFit'
  BY DEF AuthInv, CallsFit, Idle
<1>5. GrantsFit'
  <2> SUFFICES ASSUME NEW m \in Methods
               PROVE  grants'[m] = IF proof'[m] = None THEN 0 ELSE TTL - proof'[m]
    BY DEF GrantsFit
  <2>1. /\ grants[m] = IF proof[m] = None THEN 0 ELSE TTL - proof[m]
        /\ proof[m] \in 0 .. TTL - 1 \cup {None}
        /\ m \in DOMAIN proof /\ m # "disable"
    BY <1>0, NamesDiffer DEF AuthInv, AuthTypeOK, GrantsFit
  <2>2. grants'[m] = IF grants[m] > 0 THEN grants[m] - 1 ELSE 0
    OBVIOUS
  <2>3. proof'[m] = IF proof[m] = None THEN proof[m]
                    ELSE IF proof[m] = TTL - 1 THEN None ELSE proof[m] + 1
    BY <2>1
  <2> QED BY <1>0, <2>1, <2>2, <2>3
<1>b. BootFits'
  BY DEF AuthInv, BootFits
<1> QED BY <1>1, <1>2, <1>3, <1>4, <1>5, <1>b DEF AuthInv

LEMMA AuthRestartsInv == ASSUME AuthInv, AuthRestarts PROVE AuthInv'
<1> USE DEF AuthRestarts
<1>1. AuthTypeOK'
  <2>1. grants' \in [Methods -> 0 .. TTL]
    BY AuthAssumption
  <2>2. proof' \in [Methods \cup {"disable"} -> 0 .. TTL - 1 \cup {None}]
    OBVIOUS
  <2>3. asking' \in [Askers -> {"no", "probe", "prompt"}]
    OBVIOUS
  <2> QED BY <2>1, <2>2, <2>3, Zenon DEF AuthInv, AuthTypeOK
<1>2. CacheIsStored' /\ GrantsFit'
  BY DEF CacheIsStored, GrantsFit
<1>3. SavesFit' /\ CallsFit'
  BY NamesDiffer DEF SavesFit, CallsFit, Idle
<1>b. BootFits'
  BY DEF BootFits
<1> QED BY <1>1, <1>2, <1>3, <1>b DEF AuthInv

LEMMA StepInv == AuthInv /\ [AuthNext]_authVars => AuthInv'
<1> SUFFICES ASSUME AuthInv, [AuthNext]_authVars PROVE AuthInv'
  OBVIOUS
<1>1. CASE SettingRead \/ LockChecked
  BY <1>1, SettingReadInv, LockCheckedInv
<1>2. CASE UnlockBegins \/ SeedBegins \/ SendBegins \/ SendStaged \/ ShieldBegins
  BY <1>2, UnlockBeginsInv, SeedBeginsInv, SendBeginsInv, SendStagedInv, ShieldBeginsInv
<1>3. CASE \E call \in Calls : Handles(call)
  BY <1>3, HandlesInv
<1>4. CASE \E value \in BOOLEAN : SaveBegins(value)
  BY <1>4, SaveBeginsInv
<1>5. CASE SettingWritten \/ SaveEnds \/ SaveFallsBack \/ SaveRejected
  BY <1>5, SettingWrittenInv, SaveEndsInv, SaveFallsBackInv, SaveRejectedInv
<1>6. CASE \E a \in Askers : Verifies(a)
  BY <1>6, VerifiesInv
<1>7. CASE Tick \/ AuthRestarts
  BY <1>7, TickInv, AuthRestartsInv
<1>8. CASE UNCHANGED authVars
  <2> USE <1>8 DEF authVars, granting
  <2>1. AuthTypeOK'
    BY DEF AuthInv, AuthTypeOK
  <2>2. CacheIsStored'
    BY DEF AuthInv, CacheIsStored
  <2>3. SavesFit' /\ CallsFit' /\ BootFits' /\ GrantsFit'
    BY DEF AuthInv, SavesFit, CallsFit, BootFits, GrantsFit, Idle
  <2> QED BY <2>1, <2>2, <2>3 DEF AuthInv
<1> QED BY <1>1, <1>2, <1>3, <1>4, <1>5, <1>6, <1>7, <1>8 DEF AuthNext

LEMMA OnlyHandled ==
    ASSUME [AuthNext]_authVars, NEW call \in due \ due', session' = "open"
    PROVE  Handles(call)
<1> USE DEF ReadsSecrets
<1>1. ~(due \subseteq due')
  OBVIOUS
<1>2. ~SettingRead /\ ~LockChecked /\ ~UnlockBegins /\ ~SeedBegins
  BY <1>1 DEF SettingRead, LockChecked, UnlockBegins, SeedBegins
<1>3. ~SendBegins /\ ~SendStaged /\ ~ShieldBegins
  BY <1>1 DEF SendBegins, SendStaged, ShieldBegins
<1>4. (\E other \in Calls : Handles(other)) => Handles(call)
  BY DEF Handles
<1>5. ~(\E value \in BOOLEAN : SaveBegins(value)) /\ ~SettingWritten
      /\ ~SaveEnds /\ ~SaveFallsBack /\ ~SaveRejected
  BY <1>1 DEF SaveBegins, SettingWritten, SaveEnds, SaveFallsBack, SaveRejected, SavedIn
<1>6. ~(\E a \in Askers : Verifies(a))
  BY <1>1 DEF Verifies, Available, Unavailable, UserAgrees, VerifyFails, TimesOut, Succeeds, Fails
<1>7. ~Tick /\ ~AuthRestarts /\ ~(UNCHANGED authVars)
  BY <1>1 DEF Tick, AuthRestarts, authVars
<1> QED BY <1>2, <1>3, <1>4, <1>5, <1>6, <1>7 DEF AuthNext

(* The setting is changed by a save, or read and forgotten with a process. *)
LEMMA OnlySaves ==
    ASSUME [AuthNext]_authVars, ~(UNCHANGED <<kept, cache>>)
    PROVE  SettingRead \/ AuthRestarts \/ SettingWritten \/ SaveEnds \/ SaveFallsBack
<1>1. ~LockChecked /\ ~UnlockBegins /\ ~SeedBegins
  BY DEF LockChecked, UnlockBegins, SeedBegins
<1>2. ~SendBegins /\ ~SendStaged /\ ~ShieldBegins
  BY DEF SendBegins, SendStaged, ShieldBegins
<1>3. ~(\E call \in Calls : Handles(call)) /\ ~(\E value \in BOOLEAN : SaveBegins(value))
      /\ ~SaveRejected
  BY DEF Handles, SaveBegins, SaveRejected
<1>4. ~(\E a \in Askers : Verifies(a))
  BY DEF Verifies, Available, Unavailable, UserAgrees, VerifyFails, TimesOut, Succeeds, Fails
<1>5. ~Tick /\ ~(UNCHANGED authVars)
  BY DEF Tick, authVars
<1> QED BY <1>1, <1>2, <1>3, <1>4, <1>5 DEF AuthNext

(* The invariant, for any lifetime of a grant.                             *)
THEOREM AuthInvariant == Spec => []AuthInv
BY InitInv, StepInv, PTL DEF Spec

(* No expired grant, no agreement without its grant and no save without a  *)
(* value: every variable keeps its type.                                   *)
THEOREM AuthTypeCorrect == Spec => []AuthTypeOK
<1>1. AuthInv => AuthTypeOK
  BY DEF AuthInv
<1> QED BY <1>1, AuthInvariant, PTL

(* The setting in use is the one found where it was last read or saved,    *)
(* whichever of the calls to the keychain and to settings.json fail.       *)
THEOREM CacheStored == Spec => []CacheIsStored
<1>1. AuthInv => CacheIsStored
  BY DEF AuthInv
<1> QED BY <1>1, AuthInvariant, PTL

(* A call is asked for exactly when no grant is left for its method.       *)
THEOREM PromptsOnce == Spec => AskedOnce
<1>1. AuthInv /\ [AuthNext]_authVars =>
        \A call \in due \ due' : session' = "open" /\ cache =>
          (asking'[call] = "probe" <=> proof[MethodOf(call)] = None)
  <2> SUFFICES ASSUME AuthInv, [AuthNext]_authVars, NEW call \in due \ due',
                      session' = "open", cache
               PROVE  asking'[call] = "probe" <=> proof[MethodOf(call)] = None
    OBVIOUS
  <2>0. call \in Calls
    BY DEF AuthInv, AuthTypeOK
  <2>1. Handles(call)
    BY <2>0, OnlyHandled
  <2>2. MethodOf(call) \in Methods /\ call \in Askers /\ asking[call] = "no"
    BY <2>0, NamesDiffer DEF AuthInv, CallsFit
  <2>3. asking'[call] = "probe" <=> grants[MethodOf(call)] = 0
    BY <2>1, <2>2, AskingChanges DEF Handles, Asks, AuthInv
  <2>4. grants[MethodOf(call)] = 0 <=> proof[MethodOf(call)] = None
    BY <2>2, AuthAssumption DEF AuthInv, AuthTypeOK, GrantsFit
  <2> QED BY <2>3, <2>4
<1> QED BY <1>1, AuthInvariant, PTL DEF Spec, AskedOnce

(* The protection is switched off only by a save to which the user agreed, *)
(* or for which the platform said that it cannot ask.                      *)
THEOREM OffByUser == Spec => SwitchedOffByUser
<1>1. AuthInv /\ [AuthNext]_authVars =>
        ((\E s \in Stores : kept[s] /\ ~kept'[s]) \/ (cache = TRUE /\ cache' = FALSE)
            => proof["disable"] # None)
  <2> SUFFICES ASSUME AuthInv, [AuthNext]_authVars,
                      (\E s \in Stores : kept[s] /\ ~kept'[s]) \/ (cache = TRUE /\ cache' = FALSE)
               PROVE  proof["disable"] # None
    OBVIOUS
  <2>1. ~(UNCHANGED <<kept, cache>>)
    OBVIOUS
  <2>2. SettingRead \/ AuthRestarts \/ SettingWritten \/ SaveEnds \/ SaveFallsBack
    BY <2>1, OnlySaves
  <2>3. ~SettingRead /\ ~AuthRestarts
    BY AuthAssumption DEF SettingRead, AuthRestarts, AuthInv, BootFits
  <2>4. writing # "no" /\ saving \in BOOLEAN /\ kept \in [Stores -> BOOLEAN]
    BY <2>2, <2>3 DEF SettingWritten, SaveEnds, SaveFallsBack, AuthInv, AuthTypeOK, SavesFit
  <2>5. saving = FALSE
    BY <2>2, <2>3, <2>4 DEF SettingWritten, SaveEnds, SaveFallsBack, SavedIn
  <2> QED BY <2>4, <2>5 DEF AuthInv, SavesFit
<1> QED BY <1>1, AuthInvariant, PTL DEF Spec, SwitchedOffByUser
================================================================================
