---------------------------- MODULE AppController ----------------------------
(***************************************************************************)
(* Ui::AppController (src/ui/appcontroller.cpp): the one object the QML     *)
(* pages talk to.  Its handlers run on the GUI thread, each to completion;  *)
(* what they start ends in a continuation that runs later, in any order     *)
(* with the user's next calls, with minimizing, with the auto-lock timer    *)
(* and with the process being killed:                                       *)
(*   - an HTTP request, answered once or timed out (Api::ApiClient);        *)
(*   - one password derivation at a time (m_deriveWatcher);                 *)
(*   - one PIN wrap or unwrap at a time (m_pinWatcher).                     *)
(* Time is left out: a running auto-lock timer may fire at any moment.      *)
(*                                                                          *)
(* Mutants (see VaultOps) are marked as such.                               *)
(***************************************************************************)
EXTENDS VaultOps

CONSTANTS
  Accounts, NoAccount,      \* configured servers and e-mail addresses
  Passwords,                \* what the user may type as master password
  Kdfs, BadKdfs, NoKdf,     \* KDF parameters: usable, rejected, not stored
  NoMaster,                 \* absence of a master key
  ServerKeys,               \* master keys whose hash the servers accept
  Pins, NoPin,              \* what the user may type as PIN; absence of one
  NoBlob,                   \* no sync.json
  AutoLocks,                \* auto-lock settings, 0 meaning "Never"
  Slots, NoRequest,         \* bound: requests in flight
  Calls,                    \* bound: the calls and events of a run
  Disks,                    \* what earlier sessions may have left on disk
  DiskFaults                \* whether reading, writing, removing may fail

kMaxPinFailures == 3

Pin      == [pin : Pins, key : MasterKeys]
NoSecret == MasterKeys \cup {NoMaster}
Blobs    == Answers \cup {NoBlob}

(* QSettings, sync.json and pin.dat.  m_refreshToken always equals token.    *)
Disk == [account : Accounts \cup {NoAccount},
         kdf : Kdfs \cup BadKdfs \cup {NoKdf},
         token : Accounts \cup {NoAccount}, blob : Blobs,
         pin : Pin \cup {NoPin}, fails : 0 .. kMaxPinFailures - 1,
         autoLock : AutoLocks, lockOnMinimize : BOOLEAN]

ASSUME ControllerAssumption ==
  /\ MasterKeys = [account : Accounts, password : Passwords, kdf : Kdfs]
  /\ NoAccount \notin Accounts
  /\ NoKdf \notin Kdfs \cup BadKdfs /\ Kdfs \cap BadKdfs = {}
  /\ NoMaster \notin MasterKeys /\ NoPin \notin Pin /\ NoBlob \notin Answers
  /\ ServerKeys \subseteq MasterKeys
  /\ AutoLocks \subseteq Nat
  /\ DiskFaults \in BOOLEAN
  /\ Disks \subseteq Disk

(* Tokens stand for the account they were issued to; a login carries the     *)
(* hash of a master key, which stands for it.                                *)
Tokens  == Accounts \cup {NoAccount}
Request ==
  [kind : {"prelogin"}, account : Accounts, password : Passwords] \cup
  [kind : {"login", "code"}, account : Accounts, hash : MasterKeys] \cup
  [kind : {"loginSync", "refresh", "sync",
           "write", "writeRefresh", "rewrite", "writeSync"}, token : Tokens]

ASSUME RequestAssumption == NoRequest \notin Request

VARIABLES
  state,     \* m_state, the page shown
  busy,      \* m_busy
  active,    \* the application is in the foreground
  disk,      \* what survives a restart
  vault,     \* m_vault
  shown,     \* m_source of m_model, the list behind the vault page
  session,   \* m_accessToken, m_pendingHash, m_pendingSecrets
  derive,    \* m_deriveWatcher and its future
  pinJob,    \* m_pinWatcher and its future
  net        \* requests in flight and the continuations waiting for them

ui   == <<state, busy, active>>
jobs == <<derive, pinJob>>
vars == <<state, busy, active, disk, vault, shown, session, derive, pinJob, net>>

States  == {"setup", "login", "twofactor", "locked", "unlocked"}
Phases  == {"idle", "running", "done"}
Session == [access : Tokens, hash : NoSecret, key : NoSecret]
Derive  == [phase : Phases, next : {"login", "unlock", "enablePin"},
            key : NoSecret, pin : Pins \cup {NoPin}]
PinJob  == [phase : Phases, next : {"wrap", "unwrap"}, key : NoSecret,
            pin : Pins \cup {NoPin}]

NoSession  == [access |-> NoAccount, hash |-> NoMaster, key |-> NoMaster]
IdleDerive == [phase |-> "idle", next |-> "login", key |-> NoMaster, pin |-> NoPin]
IdlePinJob == [phase |-> "idle", next |-> "wrap", key |-> NoMaster, pin |-> NoPin]

DiskOutcomes == IF DiskFaults THEN BOOLEAN ELSE {TRUE}

-----------------------------------------------------------------------------
(* Mutant of Booted: sync.json is taken for a vault because it exists.       *)
BootedUnparsed(d, readable) ==
  [vault |-> IF d.account # NoAccount /\ d.blob # NoBlob /\ readable
             THEN LoadSync(FreshVault(d.autoLock), d.blob)
             ELSE FreshVault(d.autoLock),
   state |-> IF d.account = NoAccount THEN "setup"
             ELSE IF d.blob # NoBlob THEN "locked" ELSE "login"]

(* The constructor: what a start makes of the disk it finds.                 *)
Booted(d, readable) ==
  LET fresh  == FreshVault(d.autoLock)
      loaded == IF d.account # NoAccount /\ d.blob # NoBlob /\ readable
                THEN LoadSync(fresh, d.blob) ELSE fresh
  IN [vault |-> loaded,
      state |-> IF d.account = NoAccount THEN "setup"
                ELSE IF loaded.data # NoData THEN "locked" ELSE "login"]

Init ==
  \E d \in Disks, readable \in DiskOutcomes :
    /\ disk = d
    /\ state = Booted(d, readable).state /\ vault = Booted(d, readable).vault
    /\ busy = FALSE /\ active = TRUE /\ shown = {}
    /\ session = NoSession /\ derive = IdleDerive /\ pinJob = IdlePinJob
    /\ net = [s \in Slots |-> NoRequest]

(* The process ends, at any moment or by a crash, and is started again.      *)
Reboot ==
  \E readable \in DiskOutcomes :
    /\ state' = Booted(disk, readable).state
    /\ vault' = Booted(disk, readable).vault
    /\ busy' = FALSE /\ active' = TRUE /\ shown' = {}
    /\ session' = NoSession /\ derive' = IdleDerive /\ pinJob' = IdlePinJob
    /\ net' = [s \in Slots |-> NoRequest]
    /\ UNCHANGED disk

-----------------------------------------------------------------------------
(* Pages on which a call can be made; a cover action needs "unlocked" only.  *)
(* The settings page stays up while the vault locks and unlocks, and returns *)
(* to the page it was opened from: the unlock page and the vault page are    *)
(* found in both states (module Pages).                                      *)
Offers(call) ==
  CASE call = "configureAccount"               -> {"setup", "login"}
    [] call = "startLogin"                     -> {"login"}
    [] call \in {"submitTwoFactor", "cancelLogin"} -> {"twofactor"}
    [] OTHER                                   -> {"locked", "unlocked"}

Called(call) ==
  /\ call \in Calls /\ state \in Offers(call)
  /\ active \/ (call \in {"syncNow", "lock"} /\ state = "unlocked")

Send(r)       == \E s \in Slots : net[s] = NoRequest
                                  /\ net' = [net EXCEPT ![s] = r]
Forward(s, r) == net' = [net EXCEPT ![s] = r]
Answered(s)   == net' = [net EXCEPT ![s] = NoRequest]
Waits(s, kind) == net[s] # NoRequest /\ net[s].kind = kind

(* lockedChanged reaches the controller and the list model.  Mutants of      *)
(* StateAfter and ShownAfter: the signal is not connected.                   *)
StateUnlinked(w) == state
ShownUnlinked(w) == shown

StateAfter(w) ==
  IF vault.open /\ ~w.open /\ state = "unlocked" THEN "locked" ELSE state
ShownAfter(w) == IF vault.open # w.open THEN w.items ELSE shown

(* A derivation or PIN job that is running refuses another one; one that is  *)
(* finished but not delivered is replaced, and its continuation never runs.  *)
DeriveAsync(next, password, kdf, pin) ==
  derive' = IF derive.phase = "running" THEN derive
            ELSE [phase |-> "running", next |-> next, pin |-> pin,
                  key |-> IF kdf \in Kdfs
                          THEN [account |-> disk.account,
                                password |-> password, kdf |-> kdf]
                          ELSE NoMaster]

RunPinWorker(next, key, pin) ==
  pinJob' = IF pinJob.phase = "running" THEN pinJob
            ELSE [phase |-> "running", next |-> next, key |-> key, pin |-> pin]

(* unlockWithMasterKey and what its callers do about success.                *)
TryOpen(key) ==
  LET w == UnlockWithMasterKey(vault, key) IN
  /\ vault' = w
  /\ IF UnlockSucceeds(vault, key)
     THEN state' = "unlocked" /\ shown' = w.items
     ELSE state' = StateAfter(w) /\ shown' = ShownAfter(w)

ForgetPin(d, removed) ==
  [d EXCEPT !.pin = IF removed THEN NoPin ELSE @, !.fails = 0]

-----------------------------------------------------------------------------
(* Signing in.                                                               *)
ConfigureAccount(a) ==
  /\ Called("configureAccount")
  /\ disk' = [disk EXCEPT !.account = a]
  /\ state' = "login"
  /\ UNCHANGED <<busy, active, vault, shown, session, jobs, net>>

StartLogin(password) ==
  /\ Called("startLogin")
  /\ disk.account # NoAccount
  /\ busy' = TRUE
  /\ Send([kind |-> "prelogin", account |-> disk.account,
           password |-> password])
  /\ UNCHANGED <<state, active, disk, vault, shown, session, jobs>>

PreloginAnswered(s) ==
  /\ Waits(s, "prelogin")
  /\ \/ busy' = FALSE /\ UNCHANGED <<disk, derive>>
     \/ \E k \in Kdfs \cup BadKdfs :
          /\ disk' = [disk EXCEPT !.kdf = k]
          /\ DeriveAsync("login", net[s].password, k, NoPin)
          /\ UNCHANGED busy
  /\ Answered(s)
  /\ UNCHANGED <<state, active, vault, shown, session, pinJob>>

LoginDerived ==
  /\ derive.phase = "done" /\ derive.next = "login"
  /\ \/ /\ derive.key = NoMaster
        /\ busy' = FALSE /\ derive' = IdleDerive
        /\ UNCHANGED <<session, net>>
     \/ /\ derive.key # NoMaster
        /\ derive' = [derive EXCEPT !.phase = "idle"]
        /\ session' = [session EXCEPT !.key = derive.key]
        /\ Send([kind |-> "login", account |-> disk.account,
                 hash |-> derive.key])
        /\ UNCHANGED busy
  /\ UNCHANGED <<state, active, disk, vault, shown, pinJob>>

(* The server knows the password of a login request; a token may come        *)
(* without a refresh token.                                                  *)
Accepts(r) == r.hash \in ServerKeys /\ r.hash.account = r.account

FinishLogin(s) ==
  /\ Accepts(net[s])
  /\ \E refresh \in {net[s].account, NoAccount} :
       disk' = [disk EXCEPT !.token = refresh]
  /\ session' = [session EXCEPT !.access = net[s].account, !.hash = NoMaster]
  /\ Forward(s, [kind |-> "loginSync", token |-> net[s].account])
  /\ UNCHANGED <<ui, vault, shown, jobs>>

(* The code is asked for on the strength of the pending secrets, whichever   *)
(* login left them; without any the null pointer is dereferenced.            *)
LoginAnswered(s) ==
  /\ Waits(s, "login")
  /\ \/ FinishLogin(s)
     \/ /\ Accepts(net[s]) /\ session.key # NoMaster
        /\ session' = [session EXCEPT !.hash = session.key]
        /\ busy' = FALSE /\ state' = "twofactor"
        /\ Answered(s)
        /\ UNCHANGED <<active, disk, vault, shown, jobs>>
     \/ Accepts(net[s]) /\ session.key = NoMaster /\ Reboot
     \/ /\ session' = [session EXCEPT !.key = NoMaster]
        /\ busy' = FALSE
        /\ Answered(s)
        /\ UNCHANGED <<state, active, disk, vault, shown, jobs>>

SubmitTwoFactor ==
  /\ Called("submitTwoFactor")
  /\ session.key # NoMaster /\ session.hash # NoMaster
  /\ busy' = TRUE
  /\ Send([kind |-> "code", account |-> disk.account, hash |-> session.hash])
  /\ UNCHANGED <<state, active, disk, vault, shown, session, jobs>>

(* Mutant of CodeAnswered: a wrong code drops the secrets, as a wrong        *)
(* password does.                                                            *)
CodeAnsweredOnce(s) ==
  /\ Waits(s, "code")
  /\ \/ FinishLogin(s)
     \/ /\ session' = [session EXCEPT !.key = NoMaster]
        /\ busy' = FALSE /\ Answered(s)
        /\ UNCHANGED <<state, active, disk, vault, shown, jobs>>

CodeAnswered(s) ==
  /\ Waits(s, "code")
  /\ \/ FinishLogin(s)
     \/ busy' = FALSE /\ Answered(s)
        /\ UNCHANGED <<state, active, disk, vault, shown, session, jobs>>

CancelLogin ==
  /\ Called("cancelLogin")
  /\ session' = [session EXCEPT !.hash = NoMaster, !.key = NoMaster]
  /\ busy' = FALSE /\ state' = "login"
  /\ UNCHANGED <<active, disk, vault, shown, jobs, net>>

-----------------------------------------------------------------------------
(* Applying a sync answer.                                                   *)
SaveBlob(a) ==
  \E saved \in DiskOutcomes :
    disk' = IF saved THEN [disk EXCEPT !.blob = a] ELSE disk

Reload(a) ==
  LET w == ReloadSync(vault, a) IN
  /\ vault' = w
  /\ IF ReloadSucceeds(vault, a)
     THEN shown' = w.items /\ UNCHANGED state
     ELSE shown' = ShownAfter(w) /\ state' = "locked"

(* The key derived for the login is moved out of the pending secrets, which  *)
(* the future shares unless another derivation was started since.            *)
LoadAndOpen(a) ==
  LET w == UnlockWithMasterKey(LoadSync(vault, a), session.key) IN
  /\ vault' = w
  /\ shown' = IF w.open THEN w.items ELSE shown
  /\ state' = IF w.open THEN "unlocked" ELSE "locked"
  /\ session' = [session EXCEPT !.key = NoMaster]
  /\ derive' = IF derive.phase = "idle" /\ derive.next = "login"
               THEN IdleDerive ELSE derive

(* Mutant of UnlocksRightAway: the pending secrets alone decide.             *)
UnlocksWithSecrets(freshLogin) == session.key # NoMaster

UnlocksRightAway(freshLogin) == freshLogin /\ session.key # NoMaster

ApplySyncBlob(a, freshLogin) ==
  /\ SaveBlob(a)
  /\ busy' = FALSE
  /\ \/ vault.open /\ Reload(a) /\ UNCHANGED <<session, derive>>
     \/ /\ ~vault.open /\ a = Garbage
        /\ UNCHANGED <<state, vault, shown, session, derive>>
     \/ /\ ~vault.open /\ a # Garbage
        /\ UnlocksRightAway(freshLogin)
        /\ LoadAndOpen(a)
     \/ /\ ~vault.open /\ a # Garbage
        /\ ~UnlocksRightAway(freshLogin)
        /\ vault' = LoadSync(vault, a) /\ state' = "locked"
        /\ UNCHANGED <<shown, session, derive>>

SyncAnswers(token) ==
  {a \in Answers : token # NoAccount /\ (a = Garbage \/ a.key.wrap.account = token)}

LoginSynced(s) ==
  /\ Waits(s, "loginSync")
  /\ \/ /\ session' = [session EXCEPT !.key = NoMaster]
        /\ busy' = FALSE /\ state' = "login"
        /\ UNCHANGED <<disk, vault, shown, derive>>
     \/ \E a \in SyncAnswers(net[s].token) : ApplySyncBlob(a, TRUE)
  /\ Answered(s)
  /\ UNCHANGED <<active, pinJob>>

SyncNow ==
  /\ Called("syncNow")
  /\ disk.token # NoAccount
  /\ busy' = TRUE
  /\ Send([kind |-> "refresh", token |-> disk.token])
  /\ UNCHANGED <<state, active, disk, vault, shown, session, jobs>>

(* A refreshed session: a new access token, perhaps a new refresh token.     *)
RefreshedTo(token) ==
  /\ session' = [session EXCEPT !.access = token]
  /\ disk' \in {disk, [disk EXCEPT !.token = token]}

Refreshed(s) ==
  /\ Waits(s, "refresh")
  /\ \/ /\ busy' = FALSE
        /\ disk' = [disk EXCEPT !.token = NoAccount]
        /\ state' = IF vault.open THEN state ELSE "login"
        /\ Answered(s)
        /\ UNCHANGED session
     \/ /\ RefreshedTo(net[s].token)
        /\ Forward(s, [kind |-> "sync", token |-> net[s].token])
        /\ UNCHANGED <<state, busy>>
  /\ UNCHANGED <<active, vault, shown, jobs>>

Synced(s) ==
  /\ Waits(s, "sync")
  /\ \/ busy' = FALSE /\ UNCHANGED <<state, disk, vault, shown, session, derive>>
     \/ \E a \in SyncAnswers(net[s].token) : ApplySyncBlob(a, FALSE)
  /\ Answered(s)
  /\ UNCHANGED <<active, pinJob>>

-----------------------------------------------------------------------------
(* Creating, saving and deleting items share one pipeline: write with the    *)
(* live access token, or refresh and write; a rejected token is refreshed    *)
(* once; a successful write is followed by a sync.                           *)
RefreshThenWrite(s) ==
  \/ disk.token = NoAccount /\ busy' = FALSE /\ Answered(s)
  \/ /\ disk.token # NoAccount /\ UNCHANGED busy
     /\ Forward(s, [kind |-> "writeRefresh", token |-> disk.token])

Write ==
  /\ Called("write") /\ state = "unlocked"
  /\ \/ /\ session.access # NoAccount
        /\ busy' = TRUE
        /\ Send([kind |-> "write", token |-> session.access])
     \/ /\ session.access = NoAccount /\ disk.token # NoAccount
        /\ busy' = TRUE
        /\ Send([kind |-> "writeRefresh", token |-> disk.token])
     \/ /\ session.access = NoAccount /\ disk.token = NoAccount
        /\ busy' = FALSE
        /\ UNCHANGED net
  /\ UNCHANGED <<state, active, disk, vault, shown, session, jobs>>

FinishWrite(s) ==
  \/ busy' = FALSE /\ Answered(s)
  \/ Forward(s, [kind |-> "writeSync", token |-> session.access]) /\ UNCHANGED busy

Written(s) ==
  /\ Waits(s, "write")
  /\ FinishWrite(s) \/ RefreshThenWrite(s)
  /\ UNCHANGED <<state, active, disk, vault, shown, session, jobs>>

WriteRefreshed(s) ==
  /\ Waits(s, "writeRefresh")
  /\ \/ busy' = FALSE /\ Answered(s) /\ UNCHANGED <<session, disk>>
     \/ /\ RefreshedTo(net[s].token)
        /\ Forward(s, [kind |-> "rewrite", token |-> net[s].token])
        /\ UNCHANGED busy
  /\ UNCHANGED <<state, active, vault, shown, jobs>>

Rewritten(s) ==
  /\ Waits(s, "rewrite")
  /\ FinishWrite(s)
  /\ UNCHANGED <<state, active, disk, vault, shown, session, jobs>>

WriteSynced(s) ==
  /\ Waits(s, "writeSync")
  /\ busy' = FALSE
  /\ \/ UNCHANGED <<state, disk, vault, shown>>
     \/ \E a \in SyncAnswers(net[s].token) : SaveBlob(a) /\ Reload(a)
  /\ Answered(s)
  /\ UNCHANGED <<active, session, jobs>>

-----------------------------------------------------------------------------
(* Unlocking with the master password.                                       *)
UnlockCall(password) ==
  /\ Called("unlock")
  /\ vault.open \/ disk.blob # NoBlob
  /\ \/ disk.kdf = NoKdf /\ state' = "login" /\ UNCHANGED <<busy, derive>>
     \/ /\ disk.kdf # NoKdf
        /\ busy' = TRUE
        /\ DeriveAsync("unlock", password, disk.kdf, NoPin)
        /\ UNCHANGED state
  /\ UNCHANGED <<active, disk, vault, shown, session, pinJob, net>>

(* Mutants of UnlockDerived: a wrong password leaves the busy indicator on;  *)
(* a password unlock resets the count of wrong PINs.                         *)
UnlockDerivedBusy ==
  /\ derive.phase = "done" /\ derive.next = "unlock"
  /\ derive' = IdleDerive
  /\ \/ derive.key = NoMaster /\ UNCHANGED <<state, busy, vault, shown>>
     \/ /\ derive.key # NoMaster /\ TryOpen(derive.key)
        /\ busy' = (busy /\ ~UnlockSucceeds(vault, derive.key))
  /\ UNCHANGED <<active, disk, session, pinJob, net>>
UnlockDerivedForgiving ==
  /\ derive.phase = "done" /\ derive.next = "unlock"
  /\ derive.key # NoMaster /\ TryOpen(derive.key)
  /\ busy' = FALSE /\ derive' = IdleDerive
  /\ disk' = [disk EXCEPT !.fails = 0]
  /\ UNCHANGED <<active, session, pinJob, net>>

UnlockDerived ==
  /\ derive.phase = "done" /\ derive.next = "unlock"
  /\ busy' = FALSE /\ derive' = IdleDerive
  /\ \/ derive.key = NoMaster /\ UNCHANGED <<state, vault, shown>>
     \/ derive.key # NoMaster /\ TryOpen(derive.key)
  /\ UNCHANGED <<active, disk, session, pinJob, net>>

(* The PIN.  enablePin derives and verifies the master key, then wraps it.   *)
EnablePin(password, pin) ==
  /\ Called("enablePin")
  /\ disk.blob # NoBlob /\ disk.kdf # NoKdf
  /\ busy' = TRUE
  /\ DeriveAsync("enablePin", password, disk.kdf, pin)
  /\ UNCHANGED <<state, active, disk, vault, shown, session, pinJob, net>>

EnablePinDerived ==
  /\ derive.phase = "done" /\ derive.next = "enablePin"
  /\ \/ /\ derive.key = NoMaster
        /\ busy' = FALSE /\ derive' = IdleDerive /\ UNCHANGED pinJob
     \/ /\ derive.key # NoMaster /\ ~VerifyMasterKey(vault, derive.key)
        /\ busy' = FALSE
        /\ derive' = [derive EXCEPT !.phase = "idle", !.pin = NoPin]
        /\ UNCHANGED pinJob
     \/ /\ derive.key # NoMaster /\ VerifyMasterKey(vault, derive.key)
        /\ derive' = IdleDerive
        /\ RunPinWorker("wrap", derive.key, derive.pin)
        /\ UNCHANGED busy
  /\ UNCHANGED <<state, active, disk, vault, shown, session, net>>

PinWrapped ==
  /\ pinJob.phase = "done" /\ pinJob.next = "wrap"
  /\ busy' = FALSE /\ pinJob' = IdlePinJob
  /\ \E saved \in DiskOutcomes :
       disk' = IF saved
               THEN [disk EXCEPT !.fails = 0,
                       !.pin = [pin |-> pinJob.pin, key |-> pinJob.key]]
               ELSE disk
  /\ UNCHANGED <<state, active, vault, shown, session, derive, net>>

DisablePin ==
  /\ Called("disablePin") /\ disk.pin # NoPin
  /\ \E removed \in DiskOutcomes : disk' = ForgetPin(disk, removed)
  /\ UNCHANGED <<ui, vault, shown, session, jobs, net>>

UnlockWithPin(pin) ==
  /\ Called("unlockWithPin")
  /\ disk.pin # NoPin /\ disk.blob # NoBlob
  /\ \E readable \in DiskOutcomes :
       IF readable
       THEN /\ busy' = TRUE
            /\ RunPinWorker("unwrap",
                 IF disk.pin.pin = pin THEN disk.pin.key ELSE NoMaster, NoPin)
            /\ UNCHANGED disk
       ELSE /\ \E removed \in DiskOutcomes : disk' = ForgetPin(disk, removed)
            /\ UNCHANGED <<busy, pinJob>>
  /\ UNCHANGED <<state, active, vault, shown, session, derive, net>>

(* A wrong PIN is counted; the last one allowed, or a key that does not fit  *)
(* the vault, removes pin.dat.                                               *)
(* Mutant of WrongPin: one attempt too many.                                 *)
WrongPinLate(removed) ==
  IF disk.fails >= kMaxPinFailures
  THEN ForgetPin(disk, removed) ELSE [disk EXCEPT !.fails = @ + 1]

WrongPin(removed) ==
  IF disk.fails + 1 >= kMaxPinFailures
  THEN ForgetPin(disk, removed) ELSE [disk EXCEPT !.fails = @ + 1]

PinUnwrapped ==
  /\ pinJob.phase = "done" /\ pinJob.next = "unwrap"
  /\ busy' = FALSE /\ pinJob' = IdlePinJob
  /\ \E removed \in DiskOutcomes :
       \/ /\ pinJob.key = NoMaster
          /\ disk' = WrongPin(removed)
          /\ UNCHANGED <<state, vault, shown>>
       \/ /\ pinJob.key # NoMaster
          /\ TryOpen(pinJob.key)
          /\ disk' = IF UnlockSucceeds(vault, pinJob.key)
                     THEN [disk EXCEPT !.fails = 0] ELSE ForgetPin(disk, removed)
  /\ UNCHANGED <<active, session, derive, net>>

-----------------------------------------------------------------------------
(* Locking, signing out, settings.                                           *)
LockNow ==
  /\ vault' = Lock(vault) /\ shown' = ShownAfter(Lock(vault))
  /\ state' = IF disk.blob # NoBlob THEN "locked" ELSE "login"

LockCall ==
  /\ Called("lock") /\ LockNow
  /\ UNCHANGED <<busy, active, disk, session, jobs, net>>

AutoLockFires ==
  /\ vault.timer # Stopped
  /\ vault' = Lock(vault)
  /\ state' = StateAfter(Lock(vault)) /\ shown' = ShownAfter(Lock(vault))
  /\ UNCHANGED <<busy, active, disk, session, jobs, net>>

Minimize ==
  /\ "minimize" \in Calls /\ active
  /\ active' = FALSE
  /\ IF disk.lockOnMinimize /\ vault.open THEN LockNow
     ELSE UNCHANGED <<state, vault, shown>>
  /\ UNCHANGED <<busy, disk, session, jobs, net>>

Activate ==
  /\ ~active /\ active' = TRUE
  /\ UNCHANGED <<state, busy, disk, vault, shown, session, jobs, net>>

SignOut ==
  /\ Called("signOut")
  /\ vault' = Lock(vault) /\ shown' = ShownAfter(Lock(vault))
  /\ session' = [session EXCEPT !.access = NoAccount]
  /\ \E blobGone, pinGone \in DiskOutcomes :
       disk' = [ForgetPin(disk, pinGone) EXCEPT !.token = NoAccount,
                  !.blob = IF blobGone THEN NoBlob ELSE @]
  /\ state' = "login"
  /\ UNCHANGED <<busy, active, jobs, net>>

SetAutoLockMinutes(i) ==
  /\ Called("settings")
  /\ disk' = [disk EXCEPT !.autoLock = i]
  /\ vault' = SetAutoLock(vault, i)
  /\ UNCHANGED <<ui, shown, session, jobs, net>>

SetLockOnMinimize(on) ==
  /\ Called("settings")
  /\ disk' = [disk EXCEPT !.lockOnMinimize = on]
  /\ UNCHANGED <<ui, vault, shown, session, jobs, net>>

Restart == "restart" \in Calls /\ Reboot

-----------------------------------------------------------------------------
(* The workers of the thread pool.                                           *)
DeriveFinishes ==
  /\ derive.phase = "running"
  /\ derive' = [derive EXCEPT !.phase = "done"]
  /\ UNCHANGED <<ui, disk, vault, shown, session, pinJob, net>>

PinFinishes ==
  /\ pinJob.phase = "running"
  /\ pinJob' = [pinJob EXCEPT !.phase = "done"]
  /\ UNCHANGED <<ui, disk, vault, shown, session, derive, net>>

Deliver(s) ==
  \/ PreloginAnswered(s) \/ LoginAnswered(s) \/ CodeAnswered(s)
  \/ LoginSynced(s) \/ Refreshed(s) \/ Synced(s)
  \/ Written(s) \/ WriteRefreshed(s) \/ Rewritten(s) \/ WriteSynced(s)

DeriveDelivers == LoginDerived \/ UnlockDerived \/ EnablePinDerived
PinDelivers    == PinWrapped \/ PinUnwrapped

User ==
  \/ \E a \in Accounts : ConfigureAccount(a)
  \/ \E p \in Passwords : StartLogin(p) \/ UnlockCall(p)
  \/ \E p \in Passwords, pin \in Pins : EnablePin(p, pin)
  \/ \E pin \in Pins : UnlockWithPin(pin)
  \/ SubmitTwoFactor \/ CancelLogin \/ DisablePin
  \/ SyncNow \/ Write \/ LockCall \/ SignOut
  \/ \E i \in AutoLocks : SetAutoLockMinutes(i)
  \/ \E on \in BOOLEAN : SetLockOnMinimize(on)

System ==
  \/ \E s \in Slots : Deliver(s)
  \/ DeriveFinishes \/ DeriveDelivers \/ PinFinishes \/ PinDelivers
  \/ AutoLockFires \/ Minimize \/ Activate

Next == User \/ System \/ Restart

(* Every request is answered or times out, every worker ends and its         *)
(* continuation is run; nobody has to touch the phone.                       *)
Fairness ==
  /\ \A s \in Slots : WF_vars(Deliver(s))
  /\ WF_vars(DeriveFinishes) /\ WF_vars(DeriveDelivers)
  /\ WF_vars(PinFinishes) /\ WF_vars(PinDelivers)

Spec == Init /\ [][Next]_vars /\ Fairness

-----------------------------------------------------------------------------
(* The members keep their types; the PIN counter stays below its limit.      *)
TypeOK ==
  /\ state \in States /\ busy \in BOOLEAN /\ active \in BOOLEAN
  /\ disk \in Disk /\ vault \in VaultState /\ shown \subseteq Cipher
  /\ session \in Session /\ derive \in Derive /\ pinJob \in PinJob
  /\ net \in [Slots -> Request \cup {NoRequest}]

(* The vault page is only ever shown over an open vault: whichever of the    *)
(* auto-lock timer, minimizing, a re-sync or sign-out closed it, the state   *)
(* followed (the lockedChanged handler of the constructor).                  *)
UnlockedMeansOpen == state = "unlocked" => vault.open

(* A page that offers to unlock or to browse has a parsed vault behind it,   *)
(* also after failed syncs, sign-outs undone by late answers and restarts    *)
(* over a sync.json that does not parse.                                     *)
PageHasVault == state \in {"locked", "unlocked"} => vault.data # NoData

(* The list shown is that of the vault: nothing of it outlives the lock, and *)
(* every reload reaches it (refresh on lockedChanged and after reloads).     *)
ListMatchesVault == shown = vault.items

(* A login on its way from the prelogin to its last sync.                    *)
LoginPending  == derive.phase # "idle" /\ derive.next = "login"
LoginUnderWay ==
  LoginPending \/ \E s \in Slots, k \in {"prelogin", "login", "code", "loginSync"} :
                    Waits(s, k)
SecondLogin   == LoginUnderWay /\ \E p \in Passwords : StartLogin(p)

(* The context of a login, kept in members that every login shares: a login  *)
(* request is in flight over its own secrets (OwnSecrets); a password is     *)
(* being checked once at a time, and not while a code is asked for or goes   *)
(* out, or the sync after it (OneLogin); from the accepted code on there is  *)
(* no hash left to submit (HashSpent).                                       *)
Checking(s) == Waits(s, "prelogin") \/ Waits(s, "login")
OwnSecrets  == \A s \in Slots : Waits(s, "login") => session.key = net[s].hash
OneLogin ==
  /\ \A s \in Slots : Checking(s) => ~LoginPending
  /\ \A s, t \in Slots : Checking(s) /\ Checking(t) => s = t
  /\ LoginPending \/ (\E s \in Slots : Checking(s)) =>
       /\ state # "twofactor"
       /\ \A s \in Slots : ~Waits(s, "code") /\ ~Waits(s, "loginSync")
HashSpent   == \A s \in Slots : Waits(s, "loginSync") => session.hash = NoMaster

(* While a code is asked for, the pending hash and secrets are those of one  *)
(* password, which the server has accepted: "Pending login context while a   *)
(* 2FA code is required" (appcontroller.h:241).  The program does not keep   *)
(* it over two logins at a time: a run of its own finds the counterexample.  *)
LoginContext ==
  state = "twofactor" /\ session.hash # NoMaster
  => session.hash = session.key /\ session.key \in ServerKeys

(* Only a second login upsets the first (appcontroller.cpp:323): whatever is *)
(* cancelled, submitted twice, refused, late, locked or started anew, in any *)
(* order, and with any other requests in flight, the context stays in order  *)
(* until startLogin is called while a login is still under way.              *)
LoginInOrder == LoginContext /\ OwnSecrets /\ OneLogin /\ HashSpent
OnlySecondLoginUpsets ==
  LoginInOrder /\ [][LoginInOrder /\ ~SecondLogin => LoginInOrder']_vars

(* pin.dat never wraps a key that no vault was ever protected with: what was *)
(* typed as master password is verified before it is wrapped, whatever       *)
(* happens between the derivation and the wrap (enablePin).                  *)
PinWrapsServedKey ==
  disk.pin # NoPin => \E a \in Answers \ {Garbage} : disk.pin.key = a.key.wrap

(* The count of wrong PINs falls only when the right PIN opened the vault,   *)
(* when the PIN was set anew, or when it is gone - not by unlocking with the *)
(* password, by re-syncing or by a restart (appcontroller.h:190-192).        *)
RightPin == /\ pinJob.phase = "done"
            /\ pinJob.next = "unwrap" => pinJob.key # NoMaster /\ vault'.open
PinCountHonest ==
  [][disk'.fails < disk.fails => RightPin \/ disk'.pin = NoPin]_vars

(* A closed vault opens only on a finished unlock or as the end of a login:  *)
(* a re-sync never opens it, even with pending secrets left behind.          *)
LoginEnds == \E s \in Slots : Waits(s, "loginSync") /\ net'[s] = NoRequest
Unlocking == \/ derive.phase = "done" /\ derive.next = "unlock"
             \/ pinJob.phase = "done" /\ pinJob.next = "unwrap"
OpensOnRequest ==
  [][~vault.open /\ vault'.open => Unlocking \/ LoginEnds]_vars

(* Once the user leaves the program alone the busy indicator goes off, also  *)
(* when a job was refused or its continuation dropped.                       *)
BusyEnds == <>[][System]_vars => <>[]~busy

(* What the pages build on (modules Screen and Pages): whatever combination  *)
(* of answers, jobs, timers and calls, page and vault move as Screen says.   *)
Contract == INSTANCE Screen WITH open <- vault.open
KeepsContract == Contract!ScreenSpec

-----------------------------------------------------------------------------
(***************************************************************************)
(* What the repository says of the program and the program does not keep;   *)
(* each is checked by a run of its own that finds the counterexample.       *)
(***************************************************************************)
(* "The wrapped key is deleted on sign-out" (SECURITY.md:203): signed out,   *)
(* with no vault on disk, there is no pin.dat either.                        *)
SignOutDropsPin == disk.blob = NoBlob => disk.pin = NoPin
=============================================================================
