------------------------------ MODULE DeviceAuth ------------------------------
(***************************************************************************)
(* Device authentication: the setting requireDeviceAuth and its prompts    *)
(* (public/electron.js), the handlers of the sensitive operations and the  *)
(* grants that spare them a second prompt                                  *)
(* (public/sensitiveNativePolicy.js), and what the renderer does with      *)
(* them: the lock screen, the seed modal, a send, a shielding, the modal   *)
(* of the setting.                                                         *)
(*                                                                         *)
(* There is one window, so one renderer holds the grants. Nothing asks for *)
(* the setting before Routes has: its answer is the only read of the       *)
(* keychain of a process, and all later ones are answered from the cache.  *)
(***************************************************************************)
EXTENDS Naturals

CONSTANTS
    TTL,   \* SENSITIVE_AUTH_GRANT_TTL_MS, in ticks
    Timed, \* probes and prompts go through withAuthTimeout (Windows, macOS)
    None

ASSUME AuthAssumption ==
    /\ TTL \in Nat \ {0} /\ Timed \in BOOLEAN
    /\ None \notin Nat /\ None \notin BOOLEAN

Methods == {"get_seed", "get_ufvk", "confirm"}

(* The calls of sensitive operations, by the flow that makes them.         *)
Calls == {"get_seed", "get_ufvk", "send", "shield"}
MethodOf(call) == IF call \in {"send", "shield"} THEN "confirm" ELSE call

(* Who may wait for verifyDeviceAuthentication: "auth:verify" of three     *)
(* flows, the setting's handler, and the calls.                            *)
Reasons == {"unlock", "seed modal", "send button"}
Askers == Reasons \cup {"setting"} \cup Calls

(* SENSITIVE_RENDERER_AUTH_REASONS                                         *)
GrantedBy(reason) ==
    CASE reason = "seed modal" -> {"get_seed", "get_ufvk"}
      [] reason = "send button" -> {"confirm"}
      [] OTHER -> {}

(* The keychain's entry requireDeviceAuth, and all.requireDeviceAuth in    *)
(* settings.json.                                                          *)
Stores == {"keychain", "settings"}

VARIABLES
    kept,     \* what getRequireAuth finds in each store: TRUE if nothing
    cache,    \* _requireAuthCache
    heldBy,   \* history: the stores it was last read from, or saved in
    session,  \* Routes: what is on the screen
    asking,   \* how far each verification has got
    due,      \* calls sent to the main process and not yet looked at
    staging,  \* an authorized send prepares the proposal it will confirm
    saving,   \* the setting's modal: the value it saves, or None
    writing,  \* setRequireAuth
    grants,   \* the ticks each grant has left; an expired one has none
    proof     \* history: ticks since the last unspent success for a method

granting == <<grants, proof>>
authVars == <<kept, cache, heldBy, session, asking, due, staging, saving, writing, granting>>

AuthTypeOK ==
    /\ kept \in [Stores -> BOOLEAN]
    /\ cache \in BOOLEAN \cup {None}
    /\ heldBy \subseteq Stores
    /\ session \in {"boot", "check", "locked", "open"}
    /\ asking \in [Askers -> {"no", "probe", "prompt"}]
    /\ due \subseteq Calls
    /\ staging \in BOOLEAN
    /\ saving \in BOOLEAN \cup {None}
    /\ writing \in {"no", "write", "written"}
    /\ grants \in [Methods -> 0 .. TTL]
    /\ proof \in [Methods \cup {"disable"} -> 0 .. TTL - 1 \cup {None}]

AuthInit ==
    /\ kept = [s \in Stores |-> TRUE]
    /\ cache = None
    /\ heldBy = {}
    /\ session = "boot"
    /\ asking = [a \in Askers |-> "no"]
    /\ due = {}
    /\ staging = FALSE
    /\ saving = None
    /\ writing = "no"
    /\ grants = [m \in Methods |-> 0]
    /\ proof = [m \in Methods \cup {"disable"} |-> None]

-----------------------------------------------------------------------------
(* The effect of Routes that decides whether the lock screen comes first.  *)

(* getRequireAuth reads settings.json only where getPassword throws.       *)
(* "Missing or deleted entry is treated as true."                          *)
SettingRead ==
    /\ session = "boot"
    /\ \E s \in Stores : heldBy' = {s} /\ cache' = kept[s]
    /\ session' = "check"
    /\ UNCHANGED <<kept, asking, due, staging, saving, writing, granting>>

(* auth:check answers, or its timeout does: not "available".               *)
LockChecked ==
    /\ session = "check"
    /\ session' \in {"open"} \cup {s \in {"locked"} : cache}
    /\ UNCHANGED <<kept, cache, heldBy, asking, due, staging, saving, writing, granting>>

-----------------------------------------------------------------------------
(* The flows of the renderer, each once at a time.                         *)

Idle(a) == asking[a] = "no" /\ a \notin due
Asks(a) == asking' = [asking EXCEPT ![a] = "probe"]

UnlockBegins ==
    /\ session = "locked" /\ Idle("unlock")
    /\ Asks("unlock")
    /\ UNCHANGED <<kept, cache, heldBy, session, due, staging, saving, writing, granting>>

(* get_seed is left out for a wallet without one.                          *)
ReadsSecrets ==
    \E secrets \in {{"get_ufvk"}, {"get_ufvk", "get_seed"}} : due' = due \cup secrets

SeedBegins ==
    /\ session = "open"
    /\ Idle("seed modal") /\ Idle("get_seed") /\ Idle("get_ufvk")
    /\ IF cache
       THEN Asks("seed modal") /\ UNCHANGED due
       ELSE ReadsSecrets /\ UNCHANGED asking
    /\ UNCHANGED <<kept, cache, heldBy, session, staging, saving, writing, granting>>

SendBegins ==
    /\ session = "open"
    /\ Idle("send button") /\ Idle("send") /\ ~staging
    /\ IF cache
       THEN Asks("send button") /\ UNCHANGED staging
       ELSE staging' = TRUE /\ UNCHANGED asking
    /\ UNCHANGED <<kept, cache, heldBy, session, due, saving, writing, granting>>

(* sendTransaction confirms what it has staged, however long that took.    *)
SendStaged ==
    /\ staging
    /\ staging' = FALSE
    /\ due' \in {due, due \cup {"send"}}
    /\ UNCHANGED <<kept, cache, heldBy, session, asking, saving, writing, granting>>

(* The shielding is confirmed without a verification by the renderer.      *)
ShieldBegins ==
    /\ session = "open" /\ Idle("shield")
    /\ due' = due \cup {"shield"}
    /\ UNCHANGED <<kept, cache, heldBy, session, asking, staging, saving, writing, granting>>

-----------------------------------------------------------------------------
(* createSensitiveNativeHandler                                            *)

(* Mutant: a grant is kept until it expires.                               *)
HandlesWithoutConsuming(call) ==
    /\ call \in due
    /\ due' = due \ {call}
    /\ IF cache /\ grants[MethodOf(call)] = 0 THEN Asks(call) ELSE UNCHANGED asking
    /\ proof' = [proof EXCEPT ![MethodOf(call)] = IF cache THEN None ELSE @]
    /\ UNCHANGED <<kept, cache, heldBy, session, staging, saving, writing, grants>>

(* A grant is looked up and removed only while the setting is on.          *)
Handles(call) ==
    /\ call \in due
    /\ due' = due \ {call}
    /\ IF cache
       THEN LET m == MethodOf(call)
            IN  /\ IF grants[m] = 0 THEN Asks(call) ELSE UNCHANGED asking
                /\ grants' = [grants EXCEPT ![m] = 0]
                /\ proof' = [proof EXCEPT ![m] = None]
       ELSE UNCHANGED <<asking, granting>>
    /\ UNCHANGED <<kept, cache, heldBy, session, staging, saving, writing>>

-----------------------------------------------------------------------------
(* createRequireAuthSettingHandler and setRequireAuth                      *)

(* Mutant: switching the protection off is not asked for.                  *)
SaveBeginsUnasked(value) ==
    /\ session = "open" /\ saving = None
    /\ value # cache
    /\ saving' = value
    /\ writing' = "write"
    /\ UNCHANGED <<kept, cache, heldBy, session, asking, due, staging, granting>>

SaveBegins(value) ==
    /\ session = "open" /\ saving = None
    /\ value # cache
    /\ saving' = value
    /\ IF cache /\ ~value
       THEN Asks("setting") /\ UNCHANGED writing
       ELSE writing' = "write" /\ UNCHANGED asking
    /\ UNCHANGED <<kept, cache, heldBy, session, due, staging, granting>>

SettingWritten ==
    /\ writing = "write"
    /\ kept' = [kept EXCEPT !["keychain"] = saving]
    /\ writing' = "written"
    /\ UNCHANGED <<cache, heldBy, session, asking, due, staging, saving, granting>>

(* The end of setRequireAuth, with the value in these stores.              *)
SavedIn(stores) ==
    /\ cache' = saving
    /\ heldBy' = stores
    /\ saving' = None
    /\ writing' = "no"
    /\ proof' = [proof EXCEPT !["disable"] = None]
    /\ UNCHANGED <<session, asking, due, staging, grants>>

(* Mutant: settings.json keeps what an earlier save left there.            *)
SaveKeepsFallback ==
    /\ writing = "written"
    /\ SavedIn(Stores)
    /\ UNCHANGED kept

SaveEnds ==
    /\ writing = "written"
    /\ kept' = [kept EXCEPT !["settings"] = TRUE]
    /\ SavedIn(Stores)

(* setPassword or unsetSync throws: whatever the keychain holds, the value *)
(* goes to settings.json.                                                  *)
SaveFallsBack ==
    /\ writing # "no"
    /\ kept' = [kept EXCEPT !["settings"] = saving]
    /\ SavedIn(IF writing = "written" THEN Stores ELSE {"settings"})

(* settings.json cannot be written either: the cache stays as it is, and   *)
(* the modal does not catch the rejection.                                 *)
SaveRejected ==
    /\ writing # "no"
    /\ heldBy' = IF writing = "written" THEN {} ELSE heldBy
    /\ writing' = "no"
    /\ proof' = [proof EXCEPT !["disable"] = None]
    /\ UNCHANGED <<kept, cache, session, asking, due, staging, saving, grants>>

-----------------------------------------------------------------------------
(* verifyDeviceAuthentication                                              *)

(* Mutant: a grant that is remembered again lives longer.                  *)
RememberedLonger(a) ==
    [m \in Methods |-> IF m \in GrantedBy(a) THEN grants[m] + TTL ELSE grants[m]]

(* createSensitiveAuthorizationGrantStore: remember                        *)
Remembered(a) ==
    [m \in Methods |-> IF m \in GrantedBy(a) THEN TTL ELSE grants[m]]

(* What follows a success, for each caller.                                *)
Succeeds(a) ==
    /\ asking' = [asking EXCEPT ![a] = "no"]
    /\ grants' = Remembered(a)
    /\ proof' = [m \in Methods \cup {"disable"} |->
                    IF m \in GrantedBy(a) \/ (a = "setting" /\ m = "disable") THEN 0 ELSE proof[m]]
    /\ session' = IF a = "unlock" THEN "open" ELSE session
    /\ IF a = "seed modal" THEN ReadsSecrets ELSE UNCHANGED due
    /\ staging' = (staging \/ a = "send button")
    /\ writing' = IF a = "setting" THEN "write" ELSE writing
    /\ UNCHANGED <<kept, cache, heldBy, saving>>

(* The setting's modal does not catch the rejection: it stays in "saving". *)
Fails(a) ==
    /\ asking' = [asking EXCEPT ![a] = "no"]
    /\ UNCHANGED <<kept, cache, heldBy, session, due, staging, saving, writing, granting>>

Available(a) ==
    /\ asking[a] = "probe"
    /\ asking' = [asking EXCEPT ![a] = "prompt"]
    /\ UNCHANGED <<kept, cache, heldBy, session, due, staging, saving, writing, granting>>

(* "We silently succeed" where there is no authenticator, or where the     *)
(* probe has not answered in time.                                         *)
Unavailable(a) == asking[a] = "probe" /\ Succeeds(a)

UserAgrees(a) == asking[a] = "prompt" /\ Succeeds(a)

(* The user refuses, or the platform fails.                                *)
VerifyFails(a) == asking[a] # "no" /\ Fails(a)

(* Mutant: the prompt is awaited without withAuthTimeout.                  *)
NeverTimesOut(a) == FALSE /\ Fails(a)

(* withAuthTimeout answers for the prompt; a later answer is not heard.    *)
TimesOut(a) == Timed /\ asking[a] = "prompt" /\ Fails(a)

-----------------------------------------------------------------------------
(* Time passes for the grants.                                             *)
Tick ==
    /\ \E m \in Methods : grants[m] > 0
    /\ grants' = [m \in Methods |-> IF grants[m] > 0 THEN grants[m] - 1 ELSE 0]
    /\ proof' = [m \in DOMAIN proof |->
                    IF m = "disable" \/ proof[m] = None THEN proof[m]
                    ELSE IF proof[m] = TTL - 1 THEN None ELSE proof[m] + 1]
    /\ UNCHANGED <<kept, cache, heldBy, session, asking, due, staging, saving, writing>>

(* The process stops; a window is closed with its process.                 *)
AuthRestarts ==
    /\ cache' = None
    /\ heldBy' = {}
    /\ session' = "boot"
    /\ asking' = [a \in Askers |-> "no"]
    /\ due' = {}
    /\ staging' = FALSE
    /\ saving' = None
    /\ writing' = "no"
    /\ grants' = [m \in Methods |-> 0]
    /\ proof' = [m \in Methods \cup {"disable"} |-> None]
    /\ UNCHANGED kept

Verifies(a) ==
    Available(a) \/ Unavailable(a) \/ UserAgrees(a) \/ VerifyFails(a) \/ TimesOut(a)

AuthNext ==
    \/ SettingRead \/ LockChecked
    \/ UnlockBegins \/ SeedBegins \/ SendBegins \/ SendStaged \/ ShieldBegins
    \/ \E call \in Calls : Handles(call)
    \/ \E value \in BOOLEAN : SaveBegins(value)
    \/ SettingWritten \/ SaveEnds \/ SaveFallsBack \/ SaveRejected
    \/ \E a \in Askers : Verifies(a)
    \/ Tick
    \/ AuthRestarts

Spec == AuthInit /\ [][AuthNext]_authVars

(* The main process handles what it is sent, the staging of a send ends,   *)
(* and prompts and probes end by themselves where they are timed. The user *)
(* is owed nothing: no step that starts a flow, no answer to a prompt.     *)
FairSpec ==
    /\ Spec
    /\ WF_authVars(SendStaged)
    /\ \A call \in Calls : WF_authVars(Handles(call))
    /\ \A a \in Askers :
           WF_authVars(Timed /\ (Available(a) \/ Unavailable(a) \/ TimesOut(a)))

-----------------------------------------------------------------------------
(* "Preserve that exact one-prompt flow": with the setting on, a call is   *)
(* asked for exactly when no grant is left for its method: since the user  *)
(* agreed to it, a grant's lifetime has passed, or a call has used it up.  *)
(* So a send that is staged for longer than that is asked for twice.       *)
AskedOnce ==
    [][\A call \in due \ due' : session' = "open" /\ cache =>
          (asking'[call] = "probe" <=> proof[MethodOf(call)] = None)]_authVars

(* While the process runs, the setting in use is the one that a process    *)
(* finds which reads it where this one read or saved it last. After a save *)
(* that reached the keychain this is every process, except that one which  *)
(* cannot read it takes "off" for "on": never is the protection "on" here  *)
(* and "off" there. After a save that did not, a process which can read    *)
(* the keychain finds the setting before: the code promises no more.       *)
CacheIsStored ==
    cache # None /\ writing # "written" /\ heldBy # {} =>
        (cache <=> \A s \in heldBy : kept[s])

(* The protection is switched off, in a store or in use, only by a save    *)
(* after whose request the user agreed or the platform said that it cannot *)
(* ask (a probe without an answer in time counts as this).                 *)
SwitchedOffByUser ==
    [][(\E s \in Stores : kept[s] /\ ~kept'[s])
           \/ (cache = TRUE /\ cache' = FALSE)
       => proof["disable"] # None]_authVars

(* What makes the four properties inductive: one save is under way at      *)
(* most, a call is sent once before it is handled, and a grant lives as    *)
(* long as the agreement it stands for is not used up.                     *)
SavesFit ==
    /\ session # "boot" => cache \in BOOLEAN
    /\ writing # "no" \/ asking["setting"] # "no" => saving \in BOOLEAN
    /\ writing # "no" => asking["setting"] = "no"
    /\ writing = "written" => kept["keychain"] = saving
    /\ writing # "no" /\ saving = FALSE => proof["disable"] # None

CallsFit ==
    /\ \A call \in due : asking[call] = "no"
    /\ asking["seed modal"] # "no" => Idle("get_seed") /\ Idle("get_ufvk")
    /\ asking["send button"] # "no" \/ staging => Idle("send")
    /\ staging => asking["send button"] = "no"

BootFits ==
    session = "boot" =>
        /\ cache = None /\ writing = "no"
        /\ due = {} /\ ~staging /\ \A a \in Askers : asking[a] = "no"

GrantsFit ==
    \A m \in Methods : grants[m] = IF proof[m] = None THEN 0 ELSE TTL - proof[m]

AuthInv == AuthTypeOK /\ CacheIsStored /\ SavesFit /\ CallsFit /\ BootFits /\ GrantsFit

(* The flows of the renderer that wait for a verification or a handler,    *)
(* and can be started again when they no longer do.                        *)
Flows == {{"unlock"}, {"seed modal", "get_seed", "get_ufvk"}, {"send button", "send"},
          {"shield"}}
Busy(flow) ==
    (\E a \in flow : ~Idle(a)) \/ ("send" \in flow /\ staging)

(* "A native probe or prompt that never returns used to strand the         *)
(* caller": where prompts are timed every flow gets back to where it can   *)
(* be started again, through all of its prompts, whatever the user and the *)
(* platform do. (The prompt of polkit is not timed.) The prompt of the     *)
(* setting ends too, but its flow does not get back: its modal stays in    *)
(* "saving", with its button disabled, until the process is restarted.     *)
NobodyIsStranded ==
    Timed => /\ \A flow \in Flows : Busy(flow) ~> ~Busy(flow)
             /\ asking["setting"] # "no" ~> asking["setting"] = "no"
================================================================================
