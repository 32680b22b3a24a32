------------------------ MODULE AppControllerProofs -------------------------
(***************************************************************************)
(* For every set of accounts, passwords, answers, PINs, every number of     *)
(* requests in flight and every disk an earlier session left: the state the *)
(* pages see agrees with the vault (UnlockedMeansOpen, PageHasVault,        *)
(* ListMatchesVault) and the members keep their types.                      *)
(***************************************************************************)
EXTENDS AppController, VaultOpsProofs

(* Until an account is configured nothing is under way, and afterwards there *)
(* is one: what makes the key a derivation yields a key of an account.       *)
SetupIdle ==
  /\ disk.account = NoAccount => state = "setup"
  /\ state = "setup" => /\ derive.phase = "idle" /\ pinJob.phase = "idle"
                        /\ \A s \in Slots : net[s] = NoRequest
                        /\ ~vault.open

(* What the two stages of enablePin carry along.                             *)
JobsCarry ==
  /\ derive.phase # "idle" /\ derive.next = "enablePin" => derive.pin \in Pins
  /\ pinJob.phase # "idle" /\ pinJob.next = "wrap"
     => pinJob.pin \in Pins /\ pinJob.key \in MasterKeys

(* A write was started over a vault, whose data only a restart takes away.   *)
Writes == {"write", "writeRefresh", "rewrite", "writeSync"}
WritesHaveVault ==
  \A s \in Slots : net[s] # NoRequest /\ net[s].kind \in Writes
                   => vault.data # NoData

(* The screen and the vault agree.                                           *)
ScreenFits ==
  Sound(vault) /\ UnlockedMeansOpen /\ PageHasVault /\ ListMatchesVault

(* The inductive invariant.                                                  *)
AppInv == TypeOK /\ ScreenFits /\ SetupIdle /\ JobsCarry /\ WritesHaveVault

-----------------------------------------------------------------------------
(* Requests: what each kind carries, and how one is made.                    *)
TokenKinds == {"loginSync", "refresh", "sync",
               "write", "writeRefresh", "rewrite", "writeSync"}

LEMMA RequestFields ==
  ASSUME NEW r \in Request
  PROVE  /\ r.kind = "prelogin" => r.account \in Accounts /\ r.password \in Passwords
         /\ r.kind \in {"login", "code"} => r.account \in Accounts /\ r.hash \in MasterKeys
         /\ r.kind \in TokenKinds => r.token \in Tokens
  BY DEF Request, TokenKinds

LEMMA TokenRequest ==
  ASSUME NEW k \in TokenKinds, NEW t \in Tokens
  PROVE  /\ [kind |-> k, token |-> t] \in Request
         /\ [kind |-> k, token |-> t].kind = k
  BY DEF Request, TokenKinds

LEMMA LoginRequest ==
  ASSUME NEW k \in {"login", "code"}, NEW a \in Accounts, NEW m \in MasterKeys
  PROVE  /\ [kind |-> k, account |-> a, hash |-> m] \in Request
         /\ [kind |-> k, account |-> a, hash |-> m].kind = k
  BY DEF Request

LEMMA PreloginRequest ==
  ASSUME NEW a \in Accounts, NEW p \in Passwords
  PROVE  LET r == [kind |-> "prelogin", account |-> a, password |-> p] IN
         r \in Request /\ r.kind = "prelogin"
  BY DEF Request

-----------------------------------------------------------------------------
(* Closing the vault by a lock or a failed unlock: the page and the list     *)
(* follow through lockedChanged.                                             *)
LEMMA CloseFits ==
  ASSUME AppInv, NEW w, Sound(w), ~w.open, w.data = vault.data
  PROVE  /\ ShownAfter(w) = w.items
         /\ StateAfter(w) \in States
         /\ StateAfter(w) # "unlocked"
         /\ StateAfter(w) = "locked" => w.data # NoData
         /\ StateAfter(w) = "setup" <=> state = "setup"
  <1>1. Sound(vault) /\ Consistent(vault) /\ Consistent(w)
    BY DEF AppInv, ScreenFits, Sound
  <1>2. w.items = {} /\ (~vault.open => vault.items = {})
    BY <1>1 DEF Consistent, HoldsNothing
  <1>3. vault.open \in BOOLEAN /\ w.open = FALSE
    BY DEF AppInv, TypeOK, VaultState, Sound
  <1>4. ShownAfter(w) = w.items
    BY <1>2, <1>3 DEF ShownAfter, AppInv, ScreenFits, ListMatchesVault
  <1>5. /\ state \in States /\ (state = "unlocked" => vault.open)
        /\ (state \in {"locked", "unlocked"} => vault.data # NoData)
    BY DEF AppInv, TypeOK, ScreenFits, UnlockedMeansOpen, PageHasVault
  <1> QED
    BY <1>3, <1>4, <1>5 DEF StateAfter, States

(* unlockWithMasterKey from a continuation.                                  *)
LEMMA TryOpenFits ==
  ASSUME AppInv, NEW m \in MasterKeys, TryOpen(m), state # "setup"
  PROVE  ScreenFits' /\ state' \in States \ {"setup"} /\ vault'.data = vault.data
  <1> DEFINE w == UnlockWithMasterKey(vault, m)
  <1>1. Sound(vault)
    BY DEF AppInv, ScreenFits
  <1>2. Sound(w) /\ w.data = vault.data /\ (w.open <=> UnlockSucceeds(vault, m))
    BY <1>1, UnlockSound
  <1>3. vault' = w
    BY DEF TryOpen
  <1>4. CASE UnlockSucceeds(vault, m)
    <2>1. state' = "unlocked" /\ shown' = w.items
      BY <1>4 DEF TryOpen
    <2>2. w.data # NoData
      BY <1>2, <1>4 DEF UnlockSucceeds
    <2> HIDE DEF w
    <2> QED
      BY <1>2, <1>3, <1>4, <2>1, <2>2 DEF ScreenFits, UnlockedMeansOpen,
         PageHasVault, ListMatchesVault, States
  <1>5. CASE ~UnlockSucceeds(vault, m)
    <2>1. state' = StateAfter(w) /\ shown' = ShownAfter(w)
      BY <1>5 DEF TryOpen
    <2> HIDE DEF w
    <2>2. /\ ShownAfter(w) = w.items /\ StateAfter(w) \in States
          /\ StateAfter(w) # "unlocked"
          /\ StateAfter(w) = "locked" => w.data # NoData
          /\ StateAfter(w) = "setup" <=> state = "setup"
      BY <1>2, <1>5, CloseFits
    <2> QED
      BY <1>2, <1>3, <2>1, <2>2 DEF ScreenFits, UnlockedMeansOpen,
         PageHasVault, ListMatchesVault
  <1> QED
    BY <1>4, <1>5

(* A reload that fails over an open vault leaves it as it was or locks it.   *)
LEMMA ReloadKeepsOrLocks ==
  ASSUME NEW v \in VaultState, NEW a, ~ReloadSucceeds(v, a),
         ReloadSync(v, a).open
  PROVE  ReloadSync(v, a) = v
  <1>1. \A k \in VaultState : ~Lock(k).open
    BY LockSound
  <1>2. CASE ~v.open \/ a = Garbage
    BY <1>2 DEF ReloadSync
  <1>3. CASE v.open /\ a # Garbage /\ ~SameProtectedKey(v, a)
    BY <1>1, <1>3 DEF ReloadSync
  <1>4. CASE v.open /\ a # Garbage /\ SameProtectedKey(v, a)
    <2>1. RebuildThrows(Replaced(v, a))
      BY <1>4 DEF ReloadSucceeds
    <2>2. ReloadSync(v, a) = Lock(Replaced(v, a))
      BY <1>4, <2>1 DEF ReloadSync
    <2>3. Lock(Replaced(v, a)).open = FALSE
      BY DEF Lock, Replaced, VaultState
    <2> QED
      BY <2>2, <2>3
  <1> QED
    BY <1>2, <1>3, <1>4

(* reloadSync from a sync or a write, over a vault with data.                *)
LEMMA ReloadFits ==
  ASSUME AppInv, NEW a \in Answers, Reload(a), vault.data # NoData,
         state # "setup"
  PROVE  ScreenFits' /\ state' \in States \ {"setup"} /\ vault'.data # NoData
  <1> DEFINE w == ReloadSync(vault, a)
  <1>1. Sound(vault) /\ a \in SyncData \cup {Garbage}
    BY DataAssumption DEF AppInv, ScreenFits
  <1>2. /\ Sound(w)
        /\ w.open => vault.open
        /\ w.data = NoData <=> vault.data = NoData
        /\ ReloadSucceeds(vault, a) => w.open
    BY <1>1, ReloadSound
  <1>3. vault' = w
    BY DEF Reload
  <1>4. CASE ReloadSucceeds(vault, a)
    <2>1. shown' = w.items /\ state' = state
      BY <1>4 DEF Reload
    <2>2. state \in States
      BY DEF AppInv, TypeOK
    <2> HIDE DEF w
    <2> QED
      BY <1>2, <1>3, <1>4, <2>1, <2>2 DEF ScreenFits, UnlockedMeansOpen,
         PageHasVault, ListMatchesVault
  <1>5. CASE ~ReloadSucceeds(vault, a)
    <2>1. shown' = ShownAfter(w) /\ state' = "locked"
      BY <1>5 DEF Reload
    <2>2. ShownAfter(w) = w.items
      <3>1. shown = vault.items /\ Consistent(vault)
        BY DEF AppInv, ScreenFits, ListMatchesVault, Sound
      <3>2. CASE vault.open # w.open
        BY <3>2 DEF ShownAfter
      <3>3. CASE vault.open = w.open /\ vault.open
        <4>1. vault \in VaultState
          BY <1>1 DEF Sound
        <4>2. w = vault
          BY <1>5, <3>3, <4>1, ReloadKeepsOrLocks
        <4> QED
          BY <3>1, <4>2 DEF ShownAfter
      <3>4. CASE vault.open = w.open /\ ~vault.open
        BY <3>1, <3>4, <1>2 DEF ShownAfter, Sound, Consistent, HoldsNothing
      <3> QED
        BY <3>2, <3>3, <3>4
    <2> HIDE DEF w
    <2> QED
      BY <1>2, <1>3, <2>1, <2>2 DEF ScreenFits, UnlockedMeansOpen,
         PageHasVault, ListMatchesVault, States
  <1> QED
    BY <1>4, <1>5

(* Vault::lock from the controller, over a vault with data.                  *)
LEMMA LockNowFits ==
  ASSUME AppInv, LockNow, vault.data # NoData
  PROVE  ScreenFits' /\ state' \in {"locked", "login"} /\ vault'.data = vault.data
  <1> DEFINE w == Lock(vault)
  <1>1. vault \in VaultState
    BY DEF AppInv, TypeOK
  <1>2. Sound(w) /\ ~w.open /\ w.data = vault.data
    BY <1>1, LockSound
  <1>3. vault' = w /\ shown' = ShownAfter(w) /\ state' \in {"locked", "login"}
    BY DEF LockNow
  <1> HIDE DEF w
  <1>4. ShownAfter(w) = w.items
    BY <1>2, CloseFits
  <1> QED
    BY <1>2, <1>3, <1>4 DEF ScreenFits, UnlockedMeansOpen, PageHasVault,
       ListMatchesVault

(* Loading the answer that ends a login and opening it with the pending key. *)
LEMMA LoadAndOpenFits ==
  ASSUME AppInv, NEW a \in Answers \ {Garbage}, LoadAndOpen(a), ~vault.open,
         session.key # NoMaster
  PROVE  /\ ScreenFits' /\ state' \in {"locked", "unlocked"}
         /\ vault'.data # NoData
         /\ session' \in Session /\ derive' \in Derive
         /\ derive' = derive \/ derive'.phase = "idle"
  <1> DEFINE l == LoadSync(vault, a)
             w == UnlockWithMasterKey(l, session.key)
  <1>1. Sound(vault) /\ a \in SyncData \cup {Garbage}
    BY DataAssumption DEF AppInv, ScreenFits
  <1>2. Sound(l) /\ l.data # NoData
    BY <1>1, LoadSyncSound
  <1>3. session \in Session /\ derive \in Derive /\ session.key \in MasterKeys
    BY DEF AppInv, TypeOK, Session, NoSecret
  <1>4. Sound(w) /\ w.data = l.data
    BY <1>2, <1>3, UnlockSound
  <1>5. /\ vault' = w /\ shown' = IF w.open THEN w.items ELSE shown
        /\ state' = IF w.open THEN "unlocked" ELSE "locked"
    BY DEF LoadAndOpen
  <1>6. session' \in Session
    BY <1>3 DEF LoadAndOpen, Session, NoSecret
  <1>7. derive' \in Derive /\ (derive' = derive \/ derive'.phase = "idle")
    BY <1>3 DEF LoadAndOpen, IdleDerive, Derive, Phases, NoSecret
  <1>8. shown = {}
    BY <1>1 DEF Sound, Consistent, HoldsNothing, AppInv, ScreenFits,
       ListMatchesVault
  <1> HIDE DEF w
  <1>9. ~w.open => w.items = {}
    BY <1>4 DEF Sound, Consistent, HoldsNothing
  <1> QED
    BY <1>2, <1>4, <1>5, <1>6, <1>7, <1>8, <1>9 DEF ScreenFits,
       UnlockedMeansOpen, PageHasVault, ListMatchesVault

-----------------------------------------------------------------------------
(* Single edits of the disk.                                                 *)
LEMMA DiskEdits ==
  ASSUME NEW d \in Disk
  PROVE  /\ \A x \in Accounts : [d EXCEPT !.account = x] \in Disk
         /\ \A x \in Kdfs \cup BadKdfs : LET e == [d EXCEPT !.kdf = x] IN
              e \in Disk /\ e.account = d.account
         /\ \A x \in Tokens : LET e == [d EXCEPT !.token = x] IN
              e \in Disk /\ e.account = d.account
         /\ \A x \in Blobs : LET e == [d EXCEPT !.blob = x] IN
              e \in Disk /\ e.account = d.account
         /\ \A x \in AutoLocks : LET e == [d EXCEPT !.autoLock = x] IN
              e \in Disk /\ e.account = d.account
         /\ \A x \in BOOLEAN : LET e == [d EXCEPT !.lockOnMinimize = x] IN
              e \in Disk /\ e.account = d.account
  BY DEF Disk, Tokens

LEMMA PinEdits ==
  ASSUME NEW d \in Disk
  PROVE  /\ \A removed \in BOOLEAN :
              /\ ForgetPin(d, removed) \in Disk
              /\ ForgetPin(d, removed).account = d.account
         /\ \A x \in Pin : LET e == [d EXCEPT !.fails = 0, !.pin = x] IN
              e \in Disk /\ e.account = d.account
         /\ LET e == [d EXCEPT !.fails = 0] IN
              e \in Disk /\ e.account = d.account
         /\ d.fails + 1 < kMaxPinFailures
            => LET e == [d EXCEPT !.fails = @ + 1] IN
               e \in Disk /\ e.account = d.account
  <1> DEFINE z    == [d EXCEPT !.fails = 0]
             p(x) == [d EXCEPT !.fails = 0, !.pin = x]
  <1>1. z \in Disk /\ z.account = d.account
    BY DEF Disk, kMaxPinFailures
  <1>2. ASSUME NEW x \in Pin \cup {NoPin}
        PROVE  p(x) \in Disk /\ p(x).account = d.account
    <2>1. p(x) = [z EXCEPT !.pin = x]
      BY DEF Disk
    <2> HIDE DEF z
    <2>2. [z EXCEPT !.pin = x] \in Disk /\ [z EXCEPT !.pin = x].account = d.account
      BY <1>1 DEF Disk
    <2> QED
      BY <2>1, <2>2
  <1>3. d.pin \in Pin \cup {NoPin}
    BY DEF Disk
  <1>4. ForgetPin(d, TRUE) = p(NoPin) /\ ForgetPin(d, FALSE) = p(d.pin)
    BY DEF ForgetPin, Disk
  <1>5. d.fails + 1 < kMaxPinFailures
        => LET e == [d EXCEPT !.fails = @ + 1] IN
           e \in Disk /\ e.account = d.account
    BY DEF Disk, kMaxPinFailures
  <1>6. \A x \in Pin : p(x) \in Disk /\ p(x).account = d.account
    <2> HIDE DEF p
    <2> QED
      BY <1>2
  <1>7. \A removed \in BOOLEAN : /\ ForgetPin(d, removed) \in Disk
                                 /\ ForgetPin(d, removed).account = d.account
    <2> TAKE removed \in BOOLEAN
    <2> HIDE DEF p
    <2>1. CASE removed = TRUE
      BY <1>2, <1>3, <1>4, <2>1
    <2>2. CASE removed = FALSE
      BY <1>2, <1>3, <1>4, <2>2
    <2> QED
      BY <2>1, <2>2
  <1> QED
    BY <1>1, <1>5, <1>6, <1>7

LEMMA OutcomesAreBoolean == DiskOutcomes \subseteq BOOLEAN
  BY DEF DiskOutcomes

(* Applying a sync answer, whichever sync it ends.                           *)
LEMMA ApplyFits ==
  ASSUME AppInv, NEW a \in Answers, NEW fresh \in BOOLEAN,
         ApplySyncBlob(a, fresh), state # "setup"
  PROVE  /\ ScreenFits' /\ state' \in States \ {"setup"}
         /\ vault.data # NoData => vault'.data # NoData
         /\ disk' \in Disk /\ disk'.account = disk.account
         /\ busy' = FALSE /\ session' \in Session /\ derive' \in Derive
         /\ derive' = derive \/ derive'.phase = "idle"
  <1>1. /\ disk \in Disk /\ session \in Session /\ derive \in Derive
        /\ state \in States \ {"setup"} /\ Sound(vault)
    BY DEF AppInv, TypeOK, ScreenFits
  <1>2. disk' \in Disk /\ disk'.account = disk.account /\ busy' = FALSE
    BY <1>1, DiskEdits DEF ApplySyncBlob, SaveBlob, Blobs
  <1>3. CASE vault.open /\ Reload(a) /\ UNCHANGED <<session, derive>>
    <2>1. vault.data # NoData
      BY <1>1, <1>3 DEF Sound, Consistent, HoldsItsKey
    <2> QED
      BY <1>1, <1>2, <1>3, <2>1, ReloadFits
  <1>4. CASE ~vault.open /\ a = Garbage
             /\ UNCHANGED <<state, vault, shown, session, derive>>
    BY <1>1, <1>2, <1>4 DEF AppInv, ScreenFits, UnlockedMeansOpen,
       PageHasVault, ListMatchesVault
  <1>5. CASE /\ ~vault.open /\ a # Garbage
             /\ UnlocksRightAway(fresh) /\ LoadAndOpen(a)
    <2>1. session.key # NoMaster
      BY <1>5 DEF UnlocksRightAway
    <2> QED
      BY <1>2, <1>5, <2>1, LoadAndOpenFits DEF States
  <1>6. CASE /\ ~vault.open /\ a # Garbage
             /\ vault' = LoadSync(vault, a) /\ state' = "locked"
             /\ UNCHANGED <<shown, session, derive>>
    <2>1. /\ Sound(LoadSync(vault, a)) /\ ~LoadSync(vault, a).open
          /\ LoadSync(vault, a).data # NoData
      BY <1>1, <1>6, LoadSyncSound, DataAssumption
    <2>2. LoadSync(vault, a).items = {} /\ shown = {}
      BY <1>1, <1>6, <2>1 DEF Sound, Consistent, HoldsNothing, AppInv,
         ScreenFits, ListMatchesVault
    <2> QED
      BY <1>1, <1>2, <1>6, <2>1, <2>2 DEF ScreenFits, UnlockedMeansOpen,
         PageHasVault, ListMatchesVault, States
  <1> QED
    BY <1>3, <1>4, <1>5, <1>6 DEF ApplySyncBlob

-----------------------------------------------------------------------------
(* What steps that leave a part of the state alone owe the invariant.        *)
LEMMA SetupMoved ==
  ASSUME AppInv, state # "setup", state' # "setup",
         disk'.account = disk.account
  PROVE  SetupIdle'
  BY DEF AppInv, SetupIdle

LEMMA SameScreen ==
  ASSUME AppInv, UNCHANGED <<state, vault, shown>>
  PROVE  ScreenFits'
  BY DEF AppInv, ScreenFits, UnlockedMeansOpen, PageHasVault, ListMatchesVault

LEMMA SameJobs ==
  ASSUME AppInv, UNCHANGED jobs
  PROVE  JobsCarry'
  BY DEF AppInv, JobsCarry, jobs

LEMMA NetEdit ==
  ASSUME AppInv, NEW s \in Slots, NEW r \in Request \cup {NoRequest},
         net' = [net EXCEPT ![s] = r],
         vault.data # NoData => vault'.data # NoData,
         r = NoRequest \/ r.kind \notin Writes \/ vault'.data # NoData
  PROVE  net' \in [Slots -> Request \cup {NoRequest}] /\ WritesHaveVault'
  <1>1. net \in [Slots -> Request \cup {NoRequest}]
    BY DEF AppInv, TypeOK
  <1>2. \A t \in Slots : net'[t] = IF t = s THEN r ELSE net[t]
    BY <1>1
  <1>3. WritesHaveVault'
    BY <1>2 DEF AppInv, WritesHaveVault
  <1> QED
    BY <1>1, <1>3

LEMMA SameNet ==
  ASSUME AppInv, UNCHANGED net, vault.data # NoData => vault'.data # NoData
  PROVE  WritesHaveVault'
  BY DEF AppInv, WritesHaveVault

(* A request in flight or a job under way belongs to an account.             *)
LEMMA Waiting ==
  ASSUME AppInv, NEW s \in Slots, NEW k, Waits(s, k)
  PROVE  /\ net[s] \in Request /\ net[s].kind = k
         /\ state # "setup" /\ disk.account \in Accounts
  BY DEF AppInv, TypeOK, Waits, SetupIdle, Disk

LEMMA Configured ==
  ASSUME AppInv, state # "setup" \/ derive.phase # "idle" \/ pinJob.phase # "idle"
  PROVE  state # "setup" /\ disk.account \in Accounts
  BY DEF AppInv, TypeOK, SetupIdle, Disk

LEMMA DeriveAsyncFits ==
  ASSUME AppInv, NEW n \in {"login", "unlock", "enablePin"},
         NEW p \in Passwords, NEW k \in Kdfs \cup BadKdfs,
         NEW pin \in Pins \cup {NoPin}, n = "enablePin" => pin \in Pins,
         disk.account \in Accounts, DeriveAsync(n, p, k, pin)
  PROVE  /\ derive' \in Derive
         /\ derive'.phase # "idle" /\ derive'.next = "enablePin"
            => derive'.pin \in Pins
  <1> DEFINE m == IF k \in Kdfs
                  THEN [account |-> disk.account, password |-> p, kdf |-> k]
                  ELSE NoMaster
  <1>1. m \in NoSecret
    BY ControllerAssumption DEF NoSecret
  <1>2. derive \in Derive
    BY DEF AppInv, TypeOK
  <1>3. CASE derive.phase = "running"
    BY <1>2, <1>3 DEF DeriveAsync, AppInv, JobsCarry
  <1>4. CASE derive.phase # "running"
    <2>1. derive' = [phase |-> "running", next |-> n, pin |-> pin, key |-> m]
      BY <1>4 DEF DeriveAsync
    <2> HIDE DEF m
    <2> QED
      BY <1>1, <2>1 DEF Derive, Phases
  <1> QED
    BY <1>3, <1>4

LEMMA RunPinWorkerFits ==
  ASSUME AppInv, NEW n \in {"wrap", "unwrap"}, NEW m \in NoSecret,
         NEW pin \in Pins \cup {NoPin},
         n = "wrap" => pin \in Pins /\ m \in MasterKeys,
         RunPinWorker(n, m, pin)
  PROVE  /\ pinJob' \in PinJob
         /\ pinJob'.phase # "idle" /\ pinJob'.next = "wrap"
            => pinJob'.pin \in Pins /\ pinJob'.key \in MasterKeys
  <1>1. pinJob \in PinJob
    BY DEF AppInv, TypeOK
  <1>2. CASE pinJob.phase = "running"
    BY <1>1, <1>2 DEF RunPinWorker, AppInv, JobsCarry
  <1>3. CASE pinJob.phase # "running"
    BY <1>3 DEF RunPinWorker, PinJob, Phases
  <1> QED
    BY <1>2, <1>3

(* The list is made of items.                                                *)
LEMMA ShownType ==
  ASSUME ScreenFits'
  PROVE  vault' \in VaultState /\ shown' \subseteq Cipher
  BY DEF ScreenFits, ListMatchesVault, Sound, VaultState

LEMMA Assemble ==
  ASSUME state' \in States, busy' \in BOOLEAN, active' \in BOOLEAN,
         disk' \in Disk, session' \in Session, derive' \in Derive,
         pinJob' \in PinJob, net' \in [Slots -> Request \cup {NoRequest}],
         ScreenFits', SetupIdle', JobsCarry', WritesHaveVault'
  PROVE  AppInv'
  BY ShownType DEF AppInv, TypeOK

-----------------------------------------------------------------------------
(* A start, after whatever end of the process before.                        *)
LEMMA BootedFits ==
  ASSUME NEW d \in Disk, NEW readable \in BOOLEAN
  PROVE  LET b == Booted(d, readable) IN
         /\ Sound(b.vault) /\ ~b.vault.open /\ b.vault.items = {}
         /\ b.state \in {"setup", "login", "locked"}
         /\ b.state = "setup" <=> d.account = NoAccount
         /\ b.state = "locked" => b.vault.data # NoData
  <1> DEFINE f == FreshVault(d.autoLock)
             l == IF d.account # NoAccount /\ d.blob # NoBlob /\ readable
                  THEN LoadSync(f, d.blob) ELSE f
  <1>1. d.autoLock \in Nat /\ d.blob \in Blobs
    BY ControllerAssumption DEF Disk
  <1>2. Sound(f) /\ ~f.open
    BY <1>1, FreshVaultSound DEF FreshVault
  <1>3. Sound(l) /\ ~l.open
    <2>1. CASE l = f
      BY <1>2, <2>1
    <2>2. CASE l = LoadSync(f, d.blob) /\ d.blob # NoBlob
      <3>1. d.blob \in SyncData \cup {Garbage}
        BY <1>1, <2>2, DataAssumption DEF Blobs
      <3>2. CASE d.blob = Garbage
        BY <1>2, <2>2, <3>2 DEF LoadSync
      <3>3. CASE d.blob # Garbage
        BY <1>2, <2>2, <3>1, <3>3, LoadSyncSound
      <3> QED
        BY <3>2, <3>3
    <2> QED
      BY <2>1, <2>2
  <1>4. l.items = {}
    BY <1>3 DEF Sound, Consistent, HoldsNothing
  <1> HIDE DEF l
  <1>5. Booted(d, readable) =
          [vault |-> l,
           state |-> IF d.account = NoAccount THEN "setup"
                     ELSE IF l.data # NoData THEN "locked" ELSE "login"]
    BY DEF Booted, l
  <1> QED
    BY <1>3, <1>4, <1>5

(* Nothing is under way after a start.                                       *)
LEMMA IdleStart ==
  ASSUME NEW d \in Disk, NEW readable \in BOOLEAN,
         disk' = d, state' = Booted(d, readable).state,
         vault' = Booted(d, readable).vault,
         busy' = FALSE, active' = TRUE, shown' = {}, session' = NoSession,
         derive' = IdleDerive, pinJob' = IdlePinJob,
         net' = [s \in Slots |-> NoRequest]
  PROVE  AppInv'
  <1> DEFINE b == Booted(d, readable)
  <1>1. /\ Sound(b.vault) /\ ~b.vault.open /\ b.vault.items = {}
        /\ b.state \in {"setup", "login", "locked"}
        /\ b.state = "setup" <=> d.account = NoAccount
        /\ b.state = "locked" => b.vault.data # NoData
    BY BootedFits
  <1> HIDE DEF b
  <1>2. state' = b.state /\ vault' = b.vault
    BY DEF b
  <1>3. ScreenFits' /\ state' \in States
    BY <1>1, <1>2 DEF ScreenFits, UnlockedMeansOpen, PageHasVault,
       ListMatchesVault, States
  <1>4. SetupIdle' /\ JobsCarry' /\ WritesHaveVault'
    BY <1>1, <1>2 DEF SetupIdle, JobsCarry, WritesHaveVault, IdleDerive, IdlePinJob
  <1>5. session' \in Session /\ derive' \in Derive /\ pinJob' \in PinJob
    BY DEF NoSession, Session, Tokens, NoSecret, IdleDerive, Derive, IdlePinJob,
       PinJob, Phases
  <1> QED
    BY <1>3, <1>4, <1>5, Assemble

LEMMA RebootKeeps ==
  ASSUME AppInv, Reboot
  PROVE  AppInv'
  <1>1. PICK readable \in DiskOutcomes :
          /\ state' = Booted(disk, readable).state
          /\ vault' = Booted(disk, readable).vault
    BY DEF Reboot
  <1> QED
    BY <1>1, OutcomesAreBoolean, IdleStart DEF Reboot, AppInv, TypeOK

-----------------------------------------------------------------------------
(* Signing in.                                                               *)
LEMMA ConfigureAccountKeeps ==
  ASSUME AppInv, NEW a \in Accounts, ConfigureAccount(a)
  PROVE  AppInv'
  <1>1. TypeOK /\ ScreenFits
    BY DEF AppInv
  <1>2. disk' \in Disk /\ disk'.account = a
    BY <1>1, DiskEdits DEF ConfigureAccount, TypeOK, Disk
  <1>3. ScreenFits' /\ state' \in States
    BY <1>1 DEF ConfigureAccount, ScreenFits, UnlockedMeansOpen, PageHasVault,
       ListMatchesVault, States
  <1>4. SetupIdle'
    BY <1>2, ControllerAssumption DEF ConfigureAccount, SetupIdle
  <1>5. JobsCarry' /\ WritesHaveVault'
    BY SameJobs, SameNet DEF ConfigureAccount
  <1> QED
    BY <1>1, <1>2, <1>3, <1>4, <1>5, Assemble DEF ConfigureAccount, TypeOK, jobs

LEMMA StartLoginKeeps ==
  ASSUME AppInv, NEW p \in Passwords, StartLogin(p)
  PROVE  AppInv'
  <1>1. TypeOK
    BY DEF AppInv
  <1>2. state # "setup" /\ disk.account \in Accounts
    BY <1>1 DEF StartLogin, Called, Offers, TypeOK, Disk
  <1>3. net' \in [Slots -> Request \cup {NoRequest}] /\ WritesHaveVault'
    BY <1>2, NetEdit, PreloginRequest DEF StartLogin, Send, Writes
  <1>4. ScreenFits' /\ JobsCarry' /\ SetupIdle'
    BY <1>2, SameScreen, SameJobs, SetupMoved DEF StartLogin
  <1> QED
    BY <1>1, <1>3, <1>4, Assemble DEF StartLogin, TypeOK, jobs

LEMMA PreloginAnsweredKeeps ==
  ASSUME AppInv, NEW s \in Slots, PreloginAnswered(s)
  PROVE  AppInv'
  <1>1. TypeOK
    BY DEF AppInv
  <1>2. /\ net[s].password \in Passwords
        /\ state # "setup" /\ disk.account \in Accounts
    BY Waiting, RequestFields DEF PreloginAnswered
  <1>3. net' \in [Slots -> Request \cup {NoRequest}] /\ WritesHaveVault'
    BY NetEdit DEF PreloginAnswered, Answered
  <1>4. /\ disk' \in Disk /\ disk'.account = disk.account
        /\ derive' \in Derive /\ JobsCarry' /\ busy' \in BOOLEAN
    <2>1. CASE busy' = FALSE /\ UNCHANGED <<disk, derive>>
      BY <1>1, <2>1, SameJobs DEF PreloginAnswered, TypeOK, jobs
    <2>2. ASSUME NEW k \in Kdfs \cup BadKdfs,
                 disk' = [disk EXCEPT !.kdf = k],
                 DeriveAsync("login", net[s].password, k, NoPin),
                 UNCHANGED busy
          PROVE  /\ disk' \in Disk /\ disk'.account = disk.account
                 /\ derive' \in Derive /\ JobsCarry' /\ busy' \in BOOLEAN
      <3>1. disk' \in Disk /\ disk'.account = disk.account
        BY <1>1, <2>2, DiskEdits DEF TypeOK
      <3>2. /\ derive' \in Derive
            /\ derive'.phase # "idle" /\ derive'.next = "enablePin"
               => derive'.pin \in Pins
        BY <1>2, <2>2, DeriveAsyncFits
      <3> QED
        BY <1>1, <2>2, <3>1, <3>2 DEF PreloginAnswered, TypeOK, AppInv, JobsCarry
    <2> QED
      BY <2>1, <2>2 DEF PreloginAnswered
  <1>5. ScreenFits' /\ SetupIdle'
    BY <1>2, <1>4, SameScreen, SetupMoved DEF PreloginAnswered
  <1> QED
    BY <1>1, <1>3, <1>4, <1>5, Assemble DEF PreloginAnswered, TypeOK

LEMMA LoginDerivedKeeps ==
  ASSUME AppInv, LoginDerived
  PROVE  AppInv'
  <1>1. TypeOK
    BY DEF AppInv
  <1>2. state # "setup" /\ disk.account \in Accounts
    BY Configured DEF LoginDerived
  <1>3. derive \in Derive /\ session \in Session /\ derive.next = "login"
    BY <1>1 DEF TypeOK, LoginDerived
  <1>4. derive' \in Derive /\ JobsCarry'
    BY <1>3 DEF LoginDerived, IdleDerive, Derive, Phases, NoSecret, AppInv,
       JobsCarry
  <1>5. /\ busy' \in BOOLEAN /\ session' \in Session
        /\ net' \in [Slots -> Request \cup {NoRequest}] /\ WritesHaveVault'
    <2>1. CASE derive.key = NoMaster
      BY <1>1, <2>1, SameNet DEF LoginDerived, TypeOK
    <2>2. CASE derive.key # NoMaster
      <3>1. derive.key \in MasterKeys
        BY <1>3, <2>2 DEF Derive, NoSecret
      <3>2. session' \in Session /\ busy' \in BOOLEAN
        BY <1>1, <1>3, <2>2 DEF LoginDerived, Session, Derive, TypeOK
      <3>3. net' \in [Slots -> Request \cup {NoRequest}] /\ WritesHaveVault'
        BY <1>2, <2>2, <3>1, NetEdit, LoginRequest DEF LoginDerived, Send, Writes
      <3> QED
        BY <3>2, <3>3
    <2> QED
      BY <2>1, <2>2
  <1>6. ScreenFits' /\ SetupIdle'
    BY <1>2, SameScreen, SetupMoved DEF LoginDerived
  <1> QED
    BY <1>1, <1>4, <1>5, <1>6, Assemble DEF LoginDerived, TypeOK

LEMMA FinishLoginKeeps ==
  ASSUME AppInv, NEW s \in Slots, NEW k \in {"login", "code"}, Waits(s, k),
         FinishLogin(s)
  PROVE  AppInv'
  <1>1. TypeOK
    BY DEF AppInv
  <1>2. net[s].account \in Accounts /\ state # "setup"
    BY Waiting, RequestFields
  <1>3. disk' \in Disk /\ disk'.account = disk.account
    BY <1>1, <1>2, DiskEdits DEF FinishLogin, TypeOK, Tokens
  <1>4. session' \in Session
    BY <1>1, <1>2 DEF FinishLogin, TypeOK, Session, Tokens, NoSecret
  <1>5. net' \in [Slots -> Request \cup {NoRequest}] /\ WritesHaveVault'
    <2>1. /\ [kind |-> "loginSync", token |-> net[s].account] \in Request
          /\ [kind |-> "loginSync", token |-> net[s].account].kind \notin Writes
      BY <1>2, TokenRequest DEF TokenKinds, Tokens, Writes
    <2> QED
      BY <2>1, NetEdit DEF FinishLogin, Forward
  <1>6. ScreenFits' /\ SetupIdle' /\ JobsCarry'
    BY <1>2, <1>3, SameScreen, SetupMoved, SameJobs DEF FinishLogin, ui
  <1> QED
    BY <1>1, <1>3, <1>4, <1>5, <1>6, Assemble DEF FinishLogin, TypeOK, ui, jobs

LEMMA LoginAnsweredKeeps ==
  ASSUME AppInv, NEW s \in Slots, LoginAnswered(s)
  PROVE  AppInv'
  <1>1. TypeOK /\ Waits(s, "login")
    BY DEF AppInv, LoginAnswered
  <1>2. state # "setup"
    BY <1>1, Waiting
  <1>3. CASE FinishLogin(s)
    BY <1>1, <1>3, FinishLoginKeeps
  <1>4. CASE Reboot
    BY <1>4, RebootKeeps
  <1>5. CASE /\ session.key # NoMaster
             /\ session' = [session EXCEPT !.hash = session.key]
             /\ busy' = FALSE /\ state' = "twofactor"
             /\ Answered(s)
             /\ UNCHANGED <<active, disk, vault, shown, jobs>>
    <2>1. session' \in Session
      BY <1>1, <1>5 DEF TypeOK, Session
    <2>2. net' \in [Slots -> Request \cup {NoRequest}] /\ WritesHaveVault'
      BY <1>5, NetEdit DEF Answered
    <2>3. ScreenFits' /\ state' \in States
      BY <1>5 DEF AppInv, ScreenFits, UnlockedMeansOpen, PageHasVault,
         ListMatchesVault, States
    <2>4. SetupIdle' /\ JobsCarry'
      BY <1>2, <1>5, SetupMoved, SameJobs
    <2> QED
      BY <1>1, <1>5, <2>1, <2>2, <2>3, <2>4, Assemble DEF TypeOK, jobs
  <1>6. CASE /\ session' = [session EXCEPT !.key = NoMaster]
             /\ busy' = FALSE
             /\ Answered(s)
             /\ UNCHANGED <<state, active, disk, vault, shown, jobs>>
    <2>1. session' \in Session
      BY <1>1, <1>6 DEF TypeOK, Session, NoSecret
    <2>2. net' \in [Slots -> Request \cup {NoRequest}] /\ WritesHaveVault'
      BY <1>6, NetEdit DEF Answered
    <2>3. ScreenFits' /\ SetupIdle' /\ JobsCarry'
      BY <1>2, <1>6, SameScreen, SetupMoved, SameJobs
    <2> QED
      BY <1>1, <1>6, <2>1, <2>2, <2>3, Assemble DEF TypeOK, jobs
  <1> QED
    BY <1>3, <1>4, <1>5, <1>6 DEF LoginAnswered

LEMMA SubmitTwoFactorKeeps ==
  ASSUME AppInv, SubmitTwoFactor
  PROVE  AppInv'
  <1>1. TypeOK
    BY DEF AppInv
  <1>2. state # "setup" /\ disk.account \in Accounts
    BY Configured DEF SubmitTwoFactor, Called, Offers
  <1>3. session.hash \in MasterKeys
    BY <1>1 DEF SubmitTwoFactor, TypeOK, Session, NoSecret
  <1>4. net' \in [Slots -> Request \cup {NoRequest}] /\ WritesHaveVault'
    BY <1>2, <1>3, NetEdit, LoginRequest DEF SubmitTwoFactor, Send, Writes
  <1>5. ScreenFits' /\ SetupIdle' /\ JobsCarry'
    BY <1>2, SameScreen, SetupMoved, SameJobs DEF SubmitTwoFactor
  <1> QED
    BY <1>1, <1>4, <1>5, Assemble DEF SubmitTwoFactor, TypeOK, jobs

LEMMA CodeAnsweredKeeps ==
  ASSUME AppInv, NEW s \in Slots, CodeAnswered(s)
  PROVE  AppInv'
  <1>1. TypeOK /\ Waits(s, "code")
    BY DEF AppInv, CodeAnswered
  <1>2. state # "setup"
    BY <1>1, Waiting
  <1>3. CASE FinishLogin(s)
    BY <1>1, <1>3, FinishLoginKeeps
  <1>4. CASE /\ busy' = FALSE /\ Answered(s)
             /\ UNCHANGED <<state, active, disk, vault, shown, session, jobs>>
    <2>1. net' \in [Slots -> Request \cup {NoRequest}] /\ WritesHaveVault'
      BY <1>4, NetEdit DEF Answered
    <2>2. ScreenFits' /\ SetupIdle' /\ JobsCarry'
      BY <1>2, <1>4, SameScreen, SetupMoved, SameJobs
    <2> QED
      BY <1>1, <1>4, <2>1, <2>2, Assemble DEF TypeOK, jobs
  <1> QED
    BY <1>3, <1>4 DEF CodeAnswered

LEMMA CancelLoginKeeps ==
  ASSUME AppInv, CancelLogin
  PROVE  AppInv'
  <1>1. TypeOK
    BY DEF AppInv
  <1>2. state # "setup" /\ state' = "login"
    BY DEF CancelLogin, Called, Offers
  <1>3. session' \in Session
    BY <1>1 DEF CancelLogin, TypeOK, Session, NoSecret
  <1>4. ScreenFits' /\ state' \in States
    BY DEF CancelLogin, AppInv, ScreenFits, UnlockedMeansOpen, PageHasVault,
       ListMatchesVault, States
  <1>5. SetupIdle' /\ JobsCarry' /\ WritesHaveVault'
    BY <1>2, SetupMoved, SameJobs, SameNet DEF CancelLogin
  <1> QED
    BY <1>1, <1>3, <1>4, <1>5, Assemble DEF CancelLogin, TypeOK, jobs

-----------------------------------------------------------------------------
(* Syncing.                                                                  *)
LEMMA SyncAppliedKeeps ==
  ASSUME AppInv, NEW s \in Slots, NEW k, Waits(s, k),
         NEW a \in Answers, NEW fresh \in BOOLEAN, ApplySyncBlob(a, fresh),
         Answered(s), UNCHANGED <<active, pinJob>>
  PROVE  AppInv'
  <1>1. TypeOK
    BY DEF AppInv
  <1>2. state # "setup"
    BY Waiting
  <1>3. /\ ScreenFits' /\ state' \in States \ {"setup"}
        /\ vault.data # NoData => vault'.data # NoData
        /\ disk' \in Disk /\ disk'.account = disk.account
        /\ busy' = FALSE /\ session' \in Session /\ derive' \in Derive
        /\ derive' = derive \/ derive'.phase = "idle"
    BY <1>2, ApplyFits
  <1>4. net' \in [Slots -> Request \cup {NoRequest}] /\ WritesHaveVault'
    BY <1>3, NetEdit DEF Answered
  <1>5. SetupIdle'
    BY <1>2, <1>3, SetupMoved
  <1>6. JobsCarry'
    BY <1>3 DEF AppInv, JobsCarry
  <1> QED
    BY <1>1, <1>3, <1>4, <1>5, <1>6, Assemble DEF TypeOK

LEMMA LoginSyncedKeeps ==
  ASSUME AppInv, NEW s \in Slots, LoginSynced(s)
  PROVE  AppInv'
  <1>1. TypeOK /\ Waits(s, "loginSync")
    BY DEF AppInv, LoginSynced
  <1>2. state # "setup"
    BY <1>1, Waiting
  <1>3. CASE /\ session' = [session EXCEPT !.key = NoMaster]
             /\ busy' = FALSE /\ state' = "login"
             /\ UNCHANGED <<disk, vault, shown, derive>>
    <2>1. session' \in Session
      BY <1>1, <1>3 DEF TypeOK, Session, NoSecret
    <2>2. net' \in [Slots -> Request \cup {NoRequest}] /\ WritesHaveVault'
      BY <1>3, NetEdit DEF LoginSynced, Answered
    <2>3. ScreenFits' /\ state' \in States
      BY <1>3 DEF AppInv, ScreenFits, UnlockedMeansOpen, PageHasVault,
         ListMatchesVault, States
    <2>4. SetupIdle' /\ JobsCarry'
      BY <1>2, <1>3, SetupMoved, SameJobs DEF LoginSynced, jobs
    <2> QED
      BY <1>1, <1>3, <2>1, <2>2, <2>3, <2>4, Assemble DEF TypeOK, LoginSynced
  <1>4. ASSUME NEW a \in SyncAnswers(net[s].token), ApplySyncBlob(a, TRUE)
        PROVE  AppInv'
    BY <1>1, <1>4, SyncAppliedKeeps DEF LoginSynced, SyncAnswers
  <1> QED
    BY <1>3, <1>4 DEF LoginSynced

LEMMA SyncNowKeeps ==
  ASSUME AppInv, SyncNow
  PROVE  AppInv'
  <1>1. TypeOK
    BY DEF AppInv
  <1>2. state # "setup"
    BY DEF SyncNow, Called, Offers
  <1>3. net' \in [Slots -> Request \cup {NoRequest}] /\ WritesHaveVault'
    <2>1. disk.token \in Tokens
      BY <1>1 DEF TypeOK, Disk, Tokens
    <2> QED
      BY <2>1, NetEdit, TokenRequest DEF SyncNow, Send, TokenKinds, Writes
  <1>4. ScreenFits' /\ SetupIdle' /\ JobsCarry'
    BY <1>2, SameScreen, SetupMoved, SameJobs DEF SyncNow
  <1> QED
    BY <1>1, <1>3, <1>4, Assemble DEF SyncNow, TypeOK, jobs

LEMMA RefreshedToFits ==
  ASSUME TypeOK, NEW t \in Tokens, RefreshedTo(t)
  PROVE  session' \in Session /\ disk' \in Disk /\ disk'.account = disk.account
  <1>1. session' \in Session
    BY DEF RefreshedTo, TypeOK, Session
  <1>2. disk' \in Disk /\ disk'.account = disk.account
    <2> DEFINE e == [disk EXCEPT !.token = t]
    <2>1. disk \in Disk
      BY DEF TypeOK
    <2>2. e \in Disk /\ e.account = disk.account
      BY <2>1, DiskEdits
    <2>3. disk' = disk \/ disk' = e
      BY DEF RefreshedTo
    <2> HIDE DEF e
    <2> QED
      BY <2>1, <2>2, <2>3
  <1> QED
    BY <1>1, <1>2

LEMMA RefreshedKeeps ==
  ASSUME AppInv, NEW s \in Slots, Refreshed(s)
  PROVE  AppInv'
  <1>1. TypeOK /\ net[s].token \in Tokens
    BY Waiting, RequestFields DEF AppInv, Refreshed, TokenKinds
  <1>2. state # "setup"
    BY Waiting DEF Refreshed
  <1>3. CASE /\ busy' = FALSE
             /\ disk' = [disk EXCEPT !.token = NoAccount]
             /\ state' = IF vault.open THEN state ELSE "login"
             /\ Answered(s)
             /\ UNCHANGED session
    <2>1. disk' \in Disk /\ disk'.account = disk.account
      BY <1>1, <1>3, DiskEdits DEF TypeOK, Tokens
    <2>2. net' \in [Slots -> Request \cup {NoRequest}] /\ WritesHaveVault'
      BY <1>3, NetEdit DEF Refreshed, Answered
    <2>3. ScreenFits' /\ state' \in States \ {"setup"}
      BY <1>2, <1>3 DEF Refreshed, AppInv, TypeOK, ScreenFits,
         UnlockedMeansOpen, PageHasVault, ListMatchesVault, States
    <2>4. SetupIdle' /\ JobsCarry'
      BY <1>2, <2>1, <2>3, SetupMoved, SameJobs DEF Refreshed
    <2> QED
      BY <1>1, <1>3, <2>1, <2>2, <2>3, <2>4, Assemble DEF TypeOK, Refreshed, jobs
  <1>4. CASE /\ RefreshedTo(net[s].token)
             /\ Forward(s, [kind |-> "sync", token |-> net[s].token])
             /\ UNCHANGED <<state, busy>>
    <2>1. session' \in Session /\ disk' \in Disk /\ disk'.account = disk.account
      BY <1>1, <1>4, RefreshedToFits
    <2>2. net' \in [Slots -> Request \cup {NoRequest}] /\ WritesHaveVault'
      <3>1. /\ [kind |-> "sync", token |-> net[s].token] \in Request
            /\ [kind |-> "sync", token |-> net[s].token].kind \notin Writes
        BY <1>1, TokenRequest DEF TokenKinds, Writes
      <3> QED
        BY <1>4, <3>1, NetEdit DEF Refreshed, Forward
    <2>3. ScreenFits' /\ SetupIdle' /\ JobsCarry'
      BY <1>2, <1>4, <2>1, SameScreen, SetupMoved, SameJobs DEF Refreshed
    <2> QED
      BY <1>1, <1>4, <2>1, <2>2, <2>3, Assemble DEF TypeOK, Refreshed, jobs
  <1> QED
    BY <1>3, <1>4 DEF Refreshed

LEMMA SyncedKeeps ==
  ASSUME AppInv, NEW s \in Slots, Synced(s)
  PROVE  AppInv'
  <1>1. TypeOK /\ Waits(s, "sync")
    BY DEF AppInv, Synced
  <1>2. state # "setup"
    BY <1>1, Waiting
  <1>3. CASE busy' = FALSE /\ UNCHANGED <<state, disk, vault, shown, session, derive>>
    <2>1. net' \in [Slots -> Request \cup {NoRequest}] /\ WritesHaveVault'
      BY <1>3, NetEdit DEF Synced, Answered
    <2>2. ScreenFits' /\ SetupIdle' /\ JobsCarry'
      BY <1>2, <1>3, SameScreen, SetupMoved, SameJobs DEF Synced, jobs
    <2> QED
      BY <1>1, <1>3, <2>1, <2>2, Assemble DEF TypeOK, Synced
  <1>4. ASSUME NEW a \in SyncAnswers(net[s].token), ApplySyncBlob(a, FALSE)
        PROVE  AppInv'
    BY <1>1, <1>4, SyncAppliedKeeps DEF Synced, SyncAnswers
  <1> QED
    BY <1>3, <1>4 DEF Synced

-----------------------------------------------------------------------------
(* Writing.                                                                  *)
(* A step of the write pipeline that only moves or ends its request.         *)
LEMMA WriteStepKeeps ==
  ASSUME AppInv, NEW s \in Slots, NEW k \in TokenKinds, NEW t \in Tokens,
         vault.data # NoData, state # "setup", busy' \in BOOLEAN,
         Answered(s) \/ Forward(s, [kind |-> k, token |-> t]),
         disk' \in Disk, disk'.account = disk.account, session' \in Session,
         UNCHANGED <<state, active, vault, shown, jobs>>
  PROVE  AppInv'
  <1>1. TypeOK
    BY DEF AppInv
  <1>2. net' \in [Slots -> Request \cup {NoRequest}] /\ WritesHaveVault'
    BY NetEdit, TokenRequest DEF Answered, Forward
  <1>3. ScreenFits' /\ SetupIdle' /\ JobsCarry'
    BY SameScreen, SetupMoved, SameJobs
  <1> QED
    BY <1>1, <1>2, <1>3, Assemble DEF TypeOK, jobs

LEMMA WriteKeeps ==
  ASSUME AppInv, Write
  PROVE  AppInv'
  <1>1. /\ TypeOK /\ state # "setup" /\ vault.data # NoData
        /\ session.access \in Tokens /\ disk.token \in Tokens
    BY DEF Write, Called, Offers, AppInv, TypeOK, Session, Disk, Tokens,
       ScreenFits, PageHasVault
  <1>2. CASE UNCHANGED net /\ busy' = FALSE
    <2>1. ScreenFits' /\ SetupIdle' /\ JobsCarry' /\ WritesHaveVault'
      BY <1>1, <1>2, SameScreen, SetupMoved, SameJobs, SameNet DEF Write
    <2> QED
      BY <1>1, <1>2, <2>1, Assemble DEF Write, TypeOK, jobs
  <1>3. CASE Send([kind |-> "write", token |-> session.access]) /\ busy' = TRUE
    <2>1. PICK s \in Slots : Forward(s, [kind |-> "write", token |-> session.access])
      BY <1>3 DEF Send, Forward
    <2> QED
      BY <1>1, <1>3, <2>1, WriteStepKeeps DEF Write, TypeOK, TokenKinds
  <1>4. CASE Send([kind |-> "writeRefresh", token |-> disk.token]) /\ busy' = TRUE
    <2>1. PICK s \in Slots : Forward(s, [kind |-> "writeRefresh", token |-> disk.token])
      BY <1>4 DEF Send, Forward
    <2> QED
      BY <1>1, <1>4, <2>1, WriteStepKeeps DEF Write, TypeOK, TokenKinds
  <1> QED
    BY <1>2, <1>3, <1>4 DEF Write

LEMMA WriteWaiting ==
  ASSUME AppInv, NEW s \in Slots, NEW k \in Writes, Waits(s, k)
  PROVE  /\ TypeOK /\ state # "setup" /\ vault.data # NoData
         /\ net[s].token \in Tokens
         /\ session.access \in Tokens /\ disk.token \in Tokens
  <1>1. net[s] \in Request /\ net[s].kind = k /\ state # "setup"
    BY Waiting
  <1>2. net[s].token \in Tokens
    BY <1>1, RequestFields DEF Writes, TokenKinds
  <1> QED
    BY <1>1, <1>2 DEF AppInv, WritesHaveVault, Waits, TypeOK, Session, Disk, Tokens

LEMMA FinishWriteKeeps ==
  ASSUME AppInv, NEW s \in Slots, NEW k \in Writes, Waits(s, k), FinishWrite(s),
         UNCHANGED <<state, active, disk, vault, shown, session, jobs>>
  PROVE  AppInv'
  <1>1. /\ TypeOK /\ state # "setup" /\ vault.data # NoData
        /\ session.access \in Tokens
    BY WriteWaiting
  <1>2. busy' \in BOOLEAN /\ session' \in Session /\ disk' \in Disk
    BY <1>1 DEF FinishWrite, TypeOK
  <1> QED
    BY <1>1, <1>2, WriteStepKeeps DEF FinishWrite, TokenKinds

LEMMA WrittenKeeps ==
  ASSUME AppInv, NEW s \in Slots, Written(s)
  PROVE  AppInv'
  <1>1. Waits(s, "write") /\ "write" \in Writes
    BY DEF Written, Writes
  <1>2. /\ TypeOK /\ state # "setup" /\ vault.data # NoData
        /\ disk.token \in Tokens
    BY <1>1, WriteWaiting
  <1>3. CASE FinishWrite(s)
    BY <1>1, <1>3, FinishWriteKeeps DEF Written
  <1>4. CASE RefreshThenWrite(s)
    <2>1. busy' \in BOOLEAN /\ session' \in Session /\ disk' \in Disk
      BY <1>2, <1>4 DEF RefreshThenWrite, Written, TypeOK
    <2> QED
      BY <1>2, <1>4, <2>1, WriteStepKeeps DEF RefreshThenWrite, Written, TokenKinds
  <1> QED
    BY <1>3, <1>4 DEF Written

LEMMA WriteRefreshedKeeps ==
  ASSUME AppInv, NEW s \in Slots, WriteRefreshed(s)
  PROVE  AppInv'
  <1>1. /\ TypeOK /\ state # "setup" /\ vault.data # NoData
        /\ net[s].token \in Tokens
    BY WriteWaiting DEF WriteRefreshed, Writes
  <1>2. /\ busy' \in BOOLEAN /\ session' \in Session
        /\ disk' \in Disk /\ disk'.account = disk.account
    BY <1>1, RefreshedToFits DEF WriteRefreshed, TypeOK
  <1> QED
    BY <1>1, <1>2, WriteStepKeeps DEF WriteRefreshed, TokenKinds

LEMMA RewrittenKeeps ==
  ASSUME AppInv, NEW s \in Slots, Rewritten(s)
  PROVE  AppInv'
  BY FinishWriteKeeps DEF Rewritten, Writes

LEMMA WriteSyncedKeeps ==
  ASSUME AppInv, NEW s \in Slots, WriteSynced(s)
  PROVE  AppInv'
  <1>1. TypeOK /\ state # "setup" /\ vault.data # NoData
    BY WriteWaiting DEF WriteSynced, Writes
  <1>2. /\ ScreenFits' /\ state' \in States \ {"setup"} /\ vault'.data # NoData
        /\ disk' \in Disk /\ disk'.account = disk.account
    <2>1. CASE UNCHANGED <<state, disk, vault, shown>>
      BY <1>1, <2>1, SameScreen DEF TypeOK
    <2>2. ASSUME NEW a \in SyncAnswers(net[s].token), SaveBlob(a), Reload(a)
          PROVE  /\ ScreenFits' /\ state' \in States \ {"setup"}
                 /\ vault'.data # NoData
                 /\ disk' \in Disk /\ disk'.account = disk.account
      <3>1. a \in Answers
        BY DEF SyncAnswers
      <3>2. disk' \in Disk /\ disk'.account = disk.account
        BY <1>1, <2>2, <3>1, DiskEdits DEF SaveBlob, Blobs, TypeOK
      <3> QED
        BY <1>1, <2>2, <3>1, <3>2, ReloadFits
    <2> QED
      BY <2>1, <2>2 DEF WriteSynced
  <1>3. net' \in [Slots -> Request \cup {NoRequest}] /\ WritesHaveVault'
    BY <1>2, NetEdit DEF WriteSynced, Answered
  <1>4. SetupIdle' /\ JobsCarry'
    BY <1>1, <1>2, SetupMoved, SameJobs DEF WriteSynced
  <1> QED
    BY <1>1, <1>2, <1>3, <1>4, Assemble DEF WriteSynced, TypeOK, jobs

-----------------------------------------------------------------------------
(* Unlocking with the master password and with the PIN.                      *)
(* A step that touches neither the screen nor the network.                   *)
LEMMA BehindTheScreen ==
  ASSUME AppInv, UNCHANGED <<state, active, vault, shown, session, net>>,
         busy' \in BOOLEAN, disk' \in Disk, disk'.account = disk.account,
         derive' \in Derive, pinJob' \in PinJob, JobsCarry',
         state # "setup"
  PROVE  AppInv'
  <1>1. TypeOK
    BY DEF AppInv
  <1>2. ScreenFits' /\ SetupIdle' /\ WritesHaveVault'
    BY SameScreen, SetupMoved, SameNet
  <1> QED
    BY <1>1, <1>2, Assemble DEF TypeOK

LEMMA UnlockCallKeeps ==
  ASSUME AppInv, NEW p \in Passwords, UnlockCall(p)
  PROVE  AppInv'
  <1>1. TypeOK
    BY DEF AppInv
  <1>2. state # "setup" /\ disk.account \in Accounts
    BY Configured DEF UnlockCall, Called, Offers
  <1>3. CASE state' = "login" /\ UNCHANGED <<busy, derive>>
    <2>1. ScreenFits' /\ state' \in States
      BY <1>3 DEF UnlockCall, AppInv, ScreenFits, UnlockedMeansOpen,
         PageHasVault, ListMatchesVault, States
    <2>2. SetupIdle' /\ JobsCarry' /\ WritesHaveVault'
      BY <1>2, <1>3, SetupMoved, SameJobs, SameNet DEF UnlockCall, jobs
    <2> QED
      BY <1>1, <1>3, <2>1, <2>2, Assemble DEF UnlockCall, TypeOK
  <1>4. CASE /\ disk.kdf # NoKdf /\ busy' = TRUE
             /\ DeriveAsync("unlock", p, disk.kdf, NoPin)
             /\ UNCHANGED state
    <2>1. disk.kdf \in Kdfs \cup BadKdfs
      BY <1>1, <1>4 DEF TypeOK, Disk
    <2>2. /\ derive' \in Derive
          /\ derive'.phase # "idle" /\ derive'.next = "enablePin"
             => derive'.pin \in Pins
      BY <1>2, <1>4, <2>1, DeriveAsyncFits
    <2>3. JobsCarry'
      BY <2>2 DEF UnlockCall, AppInv, JobsCarry
    <2> QED
      BY <1>1, <1>2, <1>4, <2>2, <2>3, BehindTheScreen DEF UnlockCall, TypeOK
  <1> QED
    BY <1>3, <1>4 DEF UnlockCall

LEMMA UnlockDerivedKeeps ==
  ASSUME AppInv, UnlockDerived
  PROVE  AppInv'
  <1>1. TypeOK
    BY DEF AppInv
  <1>2. state # "setup"
    BY Configured DEF UnlockDerived
  <1>3. derive' \in Derive /\ JobsCarry'
    BY DEF UnlockDerived, IdleDerive, Derive, Phases, NoSecret, AppInv, JobsCarry
  <1>4. CASE derive.key = NoMaster /\ UNCHANGED <<state, vault, shown>>
    BY <1>1, <1>2, <1>3, <1>4, BehindTheScreen DEF UnlockDerived, TypeOK
  <1>5. CASE derive.key # NoMaster /\ TryOpen(derive.key)
    <2>1. derive.key \in MasterKeys
      BY <1>1, <1>5 DEF TypeOK, Derive, NoSecret
    <2>2. ScreenFits' /\ state' \in States \ {"setup"} /\ vault'.data = vault.data
      BY <1>2, <1>5, <2>1, TryOpenFits
    <2>3. SetupIdle' /\ WritesHaveVault'
      BY <1>2, <2>2, SetupMoved, SameNet DEF UnlockDerived
    <2> QED
      BY <1>1, <1>3, <2>2, <2>3, Assemble DEF UnlockDerived, TypeOK
  <1> QED
    BY <1>4, <1>5 DEF UnlockDerived

LEMMA EnablePinKeeps ==
  ASSUME AppInv, NEW p \in Passwords, NEW pin \in Pins, EnablePin(p, pin)
  PROVE  AppInv'
  <1>1. TypeOK
    BY DEF AppInv
  <1>2. state # "setup" /\ disk.account \in Accounts
    BY Configured DEF EnablePin, Called, Offers
  <1>3. disk.kdf \in Kdfs \cup BadKdfs
    BY <1>1 DEF EnablePin, TypeOK, Disk
  <1>4. /\ derive' \in Derive
        /\ derive'.phase # "idle" /\ derive'.next = "enablePin"
           => derive'.pin \in Pins
    BY <1>2, <1>3, DeriveAsyncFits DEF EnablePin
  <1>5. JobsCarry'
    BY <1>4 DEF EnablePin, AppInv, JobsCarry
  <1> QED
    BY <1>1, <1>2, <1>4, <1>5, BehindTheScreen DEF EnablePin, TypeOK

LEMMA EnablePinDerivedKeeps ==
  ASSUME AppInv, EnablePinDerived
  PROVE  AppInv'
  <1>1. TypeOK /\ JobsCarry /\ derive \in Derive
    BY DEF AppInv, TypeOK
  <1>2. state # "setup"
    BY Configured DEF EnablePinDerived
  <1>3. derive' \in Derive /\ derive'.phase = "idle"
    <2> DEFINE i == [derive EXCEPT !.phase = "idle"]
               e == [derive EXCEPT !.phase = "idle", !.pin = NoPin]
    <2>1. IdleDerive \in Derive /\ IdleDerive.phase = "idle"
      BY DEF IdleDerive, Derive, Phases, NoSecret
    <2>2. i \in Derive /\ i.phase = "idle"
      BY <1>1 DEF Derive, Phases
    <2>3. e = [i EXCEPT !.pin = NoPin]
      BY <1>1 DEF Derive
    <2> HIDE DEF i
    <2>4. e \in Derive /\ e.phase = "idle"
      BY <2>2, <2>3 DEF Derive
    <2> HIDE DEF e
    <2>5. derive' = IdleDerive \/ derive' = e
      BY DEF EnablePinDerived, e
    <2> QED
      BY <2>1, <2>4, <2>5
  <1>4. /\ pinJob' \in PinJob /\ busy' \in BOOLEAN
        /\ pinJob'.phase # "idle" /\ pinJob'.next = "wrap"
           => pinJob'.pin \in Pins /\ pinJob'.key \in MasterKeys
    <2>1. CASE UNCHANGED pinJob /\ busy' = FALSE
      BY <1>1, <2>1 DEF TypeOK, JobsCarry
    <2>2. CASE /\ derive.key # NoMaster
               /\ RunPinWorker("wrap", derive.key, derive.pin) /\ UNCHANGED busy
      <3>1. derive.key \in MasterKeys /\ derive.pin \in Pins
        BY <1>1, <2>2 DEF Derive, NoSecret, EnablePinDerived, JobsCarry
      <3> QED
        BY <1>1, <2>2, <3>1, RunPinWorkerFits DEF NoSecret, TypeOK
    <2> QED
      BY <2>1, <2>2 DEF EnablePinDerived
  <1>5. JobsCarry'
    BY <1>3, <1>4 DEF JobsCarry
  <1> QED
    BY <1>1, <1>2, <1>3, <1>4, <1>5, BehindTheScreen DEF EnablePinDerived, TypeOK

LEMMA PinWrappedKeeps ==
  ASSUME AppInv, PinWrapped
  PROVE  AppInv'
  <1>1. TypeOK /\ JobsCarry
    BY DEF AppInv
  <1>2. state # "setup"
    BY Configured DEF PinWrapped
  <1>3. pinJob' \in PinJob /\ JobsCarry'
    BY <1>1 DEF PinWrapped, IdlePinJob, PinJob, Phases, NoSecret, JobsCarry
  <1>4. disk' \in Disk /\ disk'.account = disk.account
    <2> DEFINE x == [pin |-> pinJob.pin, key |-> pinJob.key]
               e == [disk EXCEPT !.fails = 0, !.pin = x]
    <2>1. disk \in Disk /\ x \in Pin
      BY <1>1 DEF TypeOK, JobsCarry, PinWrapped, Pin
    <2>2. e \in Disk /\ e.account = disk.account
      <3> HIDE DEF x
      <3> QED
        BY <2>1, PinEdits
    <2>3. disk' = disk \/ disk' = e
      BY DEF PinWrapped
    <2> HIDE DEF e
    <2> QED
      BY <2>1, <2>2, <2>3
  <1> QED
    BY <1>1, <1>2, <1>3, <1>4, BehindTheScreen DEF PinWrapped, TypeOK

LEMMA DisablePinKeeps ==
  ASSUME AppInv, DisablePin
  PROVE  AppInv'
  <1>0. state # "setup"
    BY DEF DisablePin, Called, Offers
  <1>1. TypeOK /\ state # "setup"
    BY <1>0 DEF AppInv
  <1>2. disk' \in Disk /\ disk'.account = disk.account
    <2>1. PICK removed \in DiskOutcomes : disk' = ForgetPin(disk, removed)
      BY DEF DisablePin
    <2>2. disk \in Disk /\ removed \in BOOLEAN
      BY <1>1, OutcomesAreBoolean DEF TypeOK
    <2> QED
      BY <2>1, <2>2, PinEdits
  <1>3. JobsCarry'
    BY SameJobs DEF DisablePin
  <1> QED
    BY <1>1, <1>2, <1>3, BehindTheScreen DEF DisablePin, TypeOK, ui, jobs

LEMMA UnlockWithPinKeeps ==
  ASSUME AppInv, NEW pin \in Pins, UnlockWithPin(pin)
  PROVE  AppInv'
  <1>1. TypeOK /\ state # "setup"
    BY DEF AppInv, UnlockWithPin, Called, Offers
  <1> DEFINE m == IF disk.pin.pin = pin THEN disk.pin.key ELSE NoMaster
  <1>2. m \in NoSecret
    BY <1>1 DEF UnlockWithPin, TypeOK, Disk, Pin, NoSecret
  <1> HIDE DEF m
  <1>3. CASE busy' = TRUE /\ RunPinWorker("unwrap", m, NoPin) /\ UNCHANGED disk
    <2>1. /\ pinJob' \in PinJob
          /\ pinJob'.phase # "idle" /\ pinJob'.next = "wrap"
             => pinJob'.pin \in Pins /\ pinJob'.key \in MasterKeys
      BY <1>2, <1>3, RunPinWorkerFits
    <2>2. JobsCarry'
      BY <2>1 DEF UnlockWithPin, AppInv, JobsCarry
    <2> QED
      BY <1>1, <1>3, <2>1, <2>2, BehindTheScreen DEF UnlockWithPin, TypeOK
  <1>4. ASSUME NEW removed \in DiskOutcomes, disk' = ForgetPin(disk, removed),
               UNCHANGED <<busy, pinJob>>
        PROVE  AppInv'
    <2>1. disk' \in Disk /\ disk'.account = disk.account
      BY <1>1, <1>4, PinEdits, OutcomesAreBoolean DEF TypeOK
    <2>2. JobsCarry'
      BY <1>4, SameJobs DEF UnlockWithPin, jobs
    <2> QED
      BY <1>1, <1>4, <2>1, <2>2, BehindTheScreen DEF UnlockWithPin, TypeOK
  <1> QED
    BY <1>3, <1>4 DEF UnlockWithPin, m

LEMMA PinUnwrappedKeeps ==
  ASSUME AppInv, PinUnwrapped
  PROVE  AppInv'
  <1>1. TypeOK /\ disk \in Disk
    BY DEF AppInv, TypeOK
  <1>2. state # "setup"
    BY Configured DEF PinUnwrapped
  <1>3. pinJob' \in PinJob /\ JobsCarry'
    BY DEF PinUnwrapped, IdlePinJob, PinJob, Phases, NoSecret, AppInv, JobsCarry
  <1>4. PICK removed \in DiskOutcomes :
           \/ /\ disk' = WrongPin(removed)
              /\ UNCHANGED <<state, vault, shown>>
           \/ /\ pinJob.key # NoMaster
              /\ TryOpen(pinJob.key)
              /\ disk' = IF UnlockSucceeds(vault, pinJob.key)
                         THEN [disk EXCEPT !.fails = 0]
                         ELSE ForgetPin(disk, removed)
    BY DEF PinUnwrapped
  <1>5. removed \in BOOLEAN
    BY OutcomesAreBoolean
  <1>6. CASE /\ disk' = WrongPin(removed)
             /\ UNCHANGED <<state, vault, shown>>
    <2>1. disk' \in Disk /\ disk'.account = disk.account
      <3>1. CASE disk.fails + 1 >= kMaxPinFailures
        <4>1. disk' = ForgetPin(disk, removed)
          BY <1>6, <3>1 DEF WrongPin
        <4> QED
          BY <1>1, <1>5, <4>1, PinEdits
      <3>2. CASE ~(disk.fails + 1 >= kMaxPinFailures)
        <4> DEFINE e == [disk EXCEPT !.fails = @ + 1]
        <4>1. disk' = e
          BY <1>6, <3>2 DEF WrongPin
        <4>2. disk.fails + 1 < kMaxPinFailures
          BY <1>1, <3>2 DEF Disk, kMaxPinFailures
        <4>3. e \in Disk /\ e.account = disk.account
          BY <1>1, <4>2, PinEdits
        <4> HIDE DEF e
        <4> QED
          BY <4>1, <4>3
      <3> QED
        BY <3>1, <3>2
    <2> QED
      BY <1>1, <1>2, <1>3, <1>6, <2>1, BehindTheScreen DEF PinUnwrapped, TypeOK
  <1>7. CASE /\ pinJob.key # NoMaster
             /\ TryOpen(pinJob.key)
             /\ disk' = IF UnlockSucceeds(vault, pinJob.key)
                        THEN [disk EXCEPT !.fails = 0]
                        ELSE ForgetPin(disk, removed)
    <2>1. pinJob.key \in MasterKeys
      BY <1>1, <1>7 DEF TypeOK, PinJob, NoSecret
    <2>2. ScreenFits' /\ state' \in States \ {"setup"} /\ vault'.data = vault.data
      BY <1>2, <1>7, <2>1, TryOpenFits
    <2>3. disk' \in Disk /\ disk'.account = disk.account
      <3> DEFINE e == [disk EXCEPT !.fails = 0]
      <3>1. disk' = e \/ disk' = ForgetPin(disk, removed)
        BY <1>7
      <3>2. e \in Disk /\ e.account = disk.account
        BY <1>1, PinEdits
      <3> HIDE DEF e
      <3> QED
        BY <1>1, <1>5, <3>1, <3>2, PinEdits
    <2>4. SetupIdle' /\ WritesHaveVault'
      BY <1>2, <2>2, <2>3, SetupMoved, SameNet DEF PinUnwrapped
    <2> QED
      BY <1>1, <1>3, <2>2, <2>3, <2>4, Assemble DEF PinUnwrapped, TypeOK
  <1> QED
    BY <1>4, <1>6, <1>7

-----------------------------------------------------------------------------
(* Locking, signing out, settings.                                           *)
LEMMA LockCallKeeps ==
  ASSUME AppInv, LockCall
  PROVE  AppInv'
  <1>1. state \in {"locked", "unlocked"}
    BY DEF LockCall, Called, Offers
  <1>2. TypeOK /\ vault.data # NoData /\ state # "setup"
    BY <1>1 DEF AppInv, ScreenFits, PageHasVault
  <1>3. ScreenFits' /\ state' \in {"locked", "login"} /\ vault'.data = vault.data
    BY <1>2, LockNowFits DEF LockCall
  <1>4. SetupIdle' /\ JobsCarry' /\ WritesHaveVault'
    BY <1>2, <1>3, SetupMoved, SameJobs, SameNet DEF LockCall
  <1> QED
    BY <1>2, <1>3, <1>4, Assemble DEF LockCall, TypeOK, States, jobs

LEMMA AutoLockFiresKeeps ==
  ASSUME AppInv, AutoLockFires
  PROVE  AppInv'
  <1> DEFINE w == Lock(vault)
  <1>1. TypeOK /\ vault \in VaultState /\ SetupIdle
    BY DEF AppInv, TypeOK
  <1>2. Sound(w) /\ ~w.open /\ w.data = vault.data
    BY <1>1, LockSound
  <1>3. vault' = w /\ shown' = ShownAfter(w) /\ state' = StateAfter(w)
    BY DEF AutoLockFires
  <1> HIDE DEF w
  <1>4. /\ ShownAfter(w) = w.items
        /\ StateAfter(w) \in States
        /\ StateAfter(w) # "unlocked"
        /\ StateAfter(w) = "locked" => w.data # NoData
        /\ StateAfter(w) = "setup" <=> state = "setup"
    BY <1>2, CloseFits
  <1>5. ScreenFits' /\ state' \in States
    BY <1>2, <1>3, <1>4 DEF ScreenFits, UnlockedMeansOpen, PageHasVault,
       ListMatchesVault
  <1>6. SetupIdle'
    BY <1>1, <1>2, <1>3, <1>4 DEF AutoLockFires, SetupIdle, jobs
  <1>7. JobsCarry' /\ WritesHaveVault'
    BY <1>2, <1>3, SameJobs, SameNet DEF AutoLockFires
  <1> QED
    BY <1>1, <1>5, <1>6, <1>7, Assemble DEF AutoLockFires, TypeOK, jobs

(* A step that leaves screen, account, jobs and requests as they are.        *)
LEMMA AroundTheScreen ==
  ASSUME AppInv, UNCHANGED <<state, vault, shown, jobs, net>>,
         busy' \in BOOLEAN, active' \in BOOLEAN, disk' \in Disk,
         disk'.account = disk.account, session' \in Session
  PROVE  AppInv'
  <1>1. TypeOK /\ SetupIdle
    BY DEF AppInv
  <1>2. ScreenFits' /\ JobsCarry' /\ WritesHaveVault'
    BY SameScreen, SameJobs, SameNet
  <1>3. SetupIdle'
    BY <1>1 DEF SetupIdle, jobs
  <1> QED
    BY <1>1, <1>2, <1>3, Assemble DEF TypeOK, jobs

LEMMA MinimizeKeeps ==
  ASSUME AppInv, Minimize
  PROVE  AppInv'
  <1>1. TypeOK
    BY DEF AppInv
  <1>2. CASE vault.open /\ LockNow
    <2>1. vault.data # NoData /\ state # "setup"
      BY <1>2 DEF AppInv, ScreenFits, Sound, Consistent, HoldsItsKey, SetupIdle
    <2>2. ScreenFits' /\ state' \in {"locked", "login"} /\ vault'.data = vault.data
      BY <1>2, <2>1, LockNowFits
    <2>3. SetupIdle' /\ JobsCarry' /\ WritesHaveVault'
      BY <2>1, <2>2, SetupMoved, SameJobs, SameNet DEF Minimize
    <2> QED
      BY <1>1, <2>2, <2>3, Assemble DEF Minimize, TypeOK, States, jobs
  <1>3. CASE UNCHANGED <<state, vault, shown>>
    BY <1>1, <1>3, AroundTheScreen DEF Minimize, TypeOK
  <1> QED
    BY <1>2, <1>3 DEF Minimize

LEMMA ActivateKeeps ==
  ASSUME AppInv, Activate
  PROVE  AppInv'
  BY AroundTheScreen DEF Activate, AppInv, TypeOK

LEMMA SignOutKeeps ==
  ASSUME AppInv, SignOut
  PROVE  AppInv'
  <1> DEFINE w == Lock(vault)
  <1>1. TypeOK /\ vault \in VaultState /\ disk \in Disk
    BY DEF AppInv, TypeOK
  <1>2. state # "setup" /\ state' = "login"
    BY DEF SignOut, Called, Offers
  <1>3. Sound(w) /\ ~w.open /\ w.data = vault.data
    BY <1>1, LockSound
  <1>4. vault' = w /\ shown' = ShownAfter(w)
    BY DEF SignOut
  <1> HIDE DEF w
  <1>5. ShownAfter(w) = w.items
    BY <1>3, CloseFits
  <1>6. ScreenFits' /\ state' \in States
    BY <1>2, <1>3, <1>4, <1>5 DEF ScreenFits, UnlockedMeansOpen, PageHasVault,
       ListMatchesVault, States
  <1>7. session' \in Session
    BY <1>1 DEF SignOut, TypeOK, Session, Tokens
  <1>8. disk' \in Disk /\ disk'.account = disk.account
    <2>1. PICK blobGone \in DiskOutcomes, pinGone \in DiskOutcomes :
            disk' = [ForgetPin(disk, pinGone) EXCEPT !.token = NoAccount,
                       !.blob = IF blobGone THEN NoBlob ELSE @]
      BY DEF SignOut
    <2> DEFINE f == ForgetPin(disk, pinGone)
               g == [f EXCEPT !.token = NoAccount]
               b == IF blobGone THEN NoBlob ELSE f.blob
               h == [g EXCEPT !.blob = b]
    <2>2. f \in Disk /\ f.account = disk.account
      BY <1>1, PinEdits, OutcomesAreBoolean
    <2>3. disk' = [f EXCEPT !.token = NoAccount, !.blob = b]
      BY <2>1
    <2> HIDE DEF f
    <2>4. g \in Disk /\ g.account = disk.account
      BY <2>2, DiskEdits DEF Tokens
    <2>5. b \in Blobs
      BY <2>2 DEF Disk, Blobs
    <2> HIDE DEF b
    <2>6. disk' = h
      BY <2>2, <2>3 DEF Disk
    <2> HIDE DEF g
    <2>7. h \in Disk /\ h.account = disk.account
      BY <2>4, <2>5, DiskEdits
    <2> HIDE DEF h
    <2> QED
      BY <2>6, <2>7
  <1>9. SetupIdle' /\ JobsCarry' /\ WritesHaveVault'
    BY <1>2, <1>3, <1>4, <1>8, SetupMoved, SameJobs, SameNet DEF SignOut
  <1> QED
    BY <1>1, <1>6, <1>7, <1>8, <1>9, Assemble DEF SignOut, TypeOK, jobs

LEMMA SetAutoLockMinutesKeeps ==
  ASSUME AppInv, NEW i \in AutoLocks, SetAutoLockMinutes(i)
  PROVE  AppInv'
  <1>1. TypeOK /\ Sound(vault) /\ vault \in VaultState /\ disk \in Disk
    BY DEF AppInv, TypeOK, ScreenFits
  <1>2. state # "setup"
    BY DEF SetAutoLockMinutes, Called, Offers
  <1>3. i \in Nat
    BY ControllerAssumption
  <1>4. Sound(vault') /\ vault'.open = vault.open /\ vault'.data = vault.data
    BY <1>1, <1>3, SetAutoLockSound DEF SetAutoLockMinutes
  <1>5. vault'.items = vault.items
    <2>1. CASE i = 0
      BY <1>1, <2>1 DEF SetAutoLockMinutes, SetAutoLock, VaultState
    <2>2. CASE i > 0
      BY <1>1, <2>2 DEF SetAutoLockMinutes, SetAutoLock, VaultState
    <2> QED
      BY <1>3, <2>1, <2>2
  <1>6. ScreenFits'
    BY <1>4, <1>5 DEF SetAutoLockMinutes, ui, AppInv, ScreenFits,
       UnlockedMeansOpen, PageHasVault, ListMatchesVault
  <1>7. disk' \in Disk /\ disk'.account = disk.account
    BY <1>1, DiskEdits DEF SetAutoLockMinutes
  <1>8. SetupIdle' /\ JobsCarry' /\ WritesHaveVault'
    BY <1>2, <1>4, <1>7, SetupMoved, SameJobs, SameNet DEF SetAutoLockMinutes, ui
  <1> QED
    BY <1>1, <1>6, <1>7, <1>8, Assemble DEF SetAutoLockMinutes, TypeOK, ui, jobs

LEMMA SetLockOnMinimizeKeeps ==
  ASSUME AppInv, NEW on \in BOOLEAN, SetLockOnMinimize(on)
  PROVE  AppInv'
  <1>1. TypeOK /\ disk \in Disk
    BY DEF AppInv, TypeOK
  <1>2. disk' \in Disk /\ disk'.account = disk.account
    BY <1>1, DiskEdits DEF SetLockOnMinimize
  <1> QED
    BY <1>1, <1>2, AroundTheScreen DEF SetLockOnMinimize, TypeOK, ui

-----------------------------------------------------------------------------
(* The workers.                                                              *)
LEMMA DeriveFinishesKeeps ==
  ASSUME AppInv, DeriveFinishes
  PROVE  AppInv'
  <1>1. TypeOK /\ derive \in Derive
    BY DEF AppInv, TypeOK
  <1>2. state # "setup"
    BY Configured DEF DeriveFinishes
  <1>3. derive' \in Derive /\ JobsCarry'
    BY <1>1 DEF DeriveFinishes, Derive, Phases, AppInv, JobsCarry
  <1> QED
    BY <1>1, <1>2, <1>3, BehindTheScreen DEF DeriveFinishes, TypeOK, ui

LEMMA PinFinishesKeeps ==
  ASSUME AppInv, PinFinishes
  PROVE  AppInv'
  <1>1. TypeOK /\ pinJob \in PinJob
    BY DEF AppInv, TypeOK
  <1>2. state # "setup"
    BY Configured DEF PinFinishes
  <1>3. pinJob' \in PinJob /\ JobsCarry'
    BY <1>1 DEF PinFinishes, PinJob, Phases, AppInv, JobsCarry
  <1> QED
    BY <1>1, <1>2, <1>3, BehindTheScreen DEF PinFinishes, TypeOK, ui

-----------------------------------------------------------------------------
(* The invariant is inductive.                                               *)
LEMMA InitKeeps ==
  ASSUME Init
  PROVE  AppInv
  <1>1. PICK d \in Disks, readable \in DiskOutcomes :
          /\ disk = d
          /\ state = Booted(d, readable).state
          /\ vault = Booted(d, readable).vault
    BY DEF Init
  <1> DEFINE b == Booted(d, readable)
  <1>2. d \in Disk
    BY ControllerAssumption
  <1>3. /\ Sound(b.vault) /\ ~b.vault.open /\ b.vault.items = {}
        /\ b.state \in {"setup", "login", "locked"}
        /\ b.state = "setup" <=> d.account = NoAccount
        /\ b.state = "locked" => b.vault.data # NoData
    BY <1>2, OutcomesAreBoolean, BootedFits
  <1>4. state = b.state /\ vault = b.vault
    BY <1>1
  <1> HIDE DEF b
  <1>5. ScreenFits /\ state \in States
    BY <1>3, <1>4 DEF Init, ScreenFits, UnlockedMeansOpen, PageHasVault,
       ListMatchesVault, States
  <1>6. SetupIdle /\ JobsCarry /\ WritesHaveVault
    BY <1>1, <1>3, <1>4 DEF Init, SetupIdle, JobsCarry, WritesHaveVault,
       IdleDerive, IdlePinJob
  <1>7. session \in Session /\ derive \in Derive /\ pinJob \in PinJob
    BY DEF Init, NoSession, Session, Tokens, NoSecret, IdleDerive, Derive,
       IdlePinJob, PinJob, Phases
  <1>8. vault \in VaultState /\ shown \subseteq Cipher
    BY <1>5 DEF ScreenFits, Sound, Init
  <1> QED
    BY <1>1, <1>2, <1>5, <1>6, <1>7, <1>8 DEF Init, AppInv, TypeOK

LEMMA DeliverKeeps ==
  ASSUME AppInv, NEW s \in Slots, Deliver(s)
  PROVE  AppInv'
  BY PreloginAnsweredKeeps, LoginAnsweredKeeps, CodeAnsweredKeeps,
     LoginSyncedKeeps, RefreshedKeeps, SyncedKeeps, WrittenKeeps,
     WriteRefreshedKeeps, RewrittenKeeps, WriteSyncedKeeps DEF Deliver

LEMMA UserKeeps ==
  ASSUME AppInv, User
  PROVE  AppInv'
  BY ConfigureAccountKeeps, StartLoginKeeps, UnlockCallKeeps, EnablePinKeeps,
     UnlockWithPinKeeps, SubmitTwoFactorKeeps, CancelLoginKeeps,
     DisablePinKeeps, SyncNowKeeps, WriteKeeps, LockCallKeeps, SignOutKeeps,
     SetAutoLockMinutesKeeps, SetLockOnMinimizeKeeps DEF User

LEMMA SystemKeeps ==
  ASSUME AppInv, System
  PROVE  AppInv'
  BY DeliverKeeps, DeriveFinishesKeeps, LoginDerivedKeeps, UnlockDerivedKeeps,
     EnablePinDerivedKeeps, PinFinishesKeeps, PinWrappedKeeps,
     PinUnwrappedKeeps, AutoLockFiresKeeps, MinimizeKeeps, ActivateKeeps
     DEF System, DeriveDelivers, PinDelivers

LEMMA StutterKeeps ==
  ASSUME AppInv, UNCHANGED vars
  PROVE  AppInv'
  BY AroundTheScreen DEF vars, AppInv, TypeOK, jobs

LEMMA StepKeeps ==
  ASSUME AppInv, [Next]_vars
  PROVE  AppInv'
  BY UserKeeps, SystemKeeps, RebootKeeps, StutterKeeps DEF Next, Restart

(* AppInv holds of every state of AppController: what the handlers rely on   *)
(* when they run.                                                            *)
THEOREM AppSound == Spec => []AppInv
  BY InitKeeps, StepKeeps, PTL DEF Spec

(* The members keep their types, the count of wrong PINs its bound, whatever *)
(* the accounts, passwords, PINs and the number of requests in flight.       *)
THEOREM TypeCorrect == Spec => []TypeOK
  <1>1. AppInv => TypeOK
    BY DEF AppInv
  <1> QED
    BY <1>1, AppSound, PTL

(* The unlocked page is never shown over a closed vault: every way a vault   *)
(* closes (lock, timer, minimize, sign-out, re-sync, failed unlock) is       *)
(* followed by the state (the lockedChanged handler, and its callers).       *)
THEOREM UnlockedOverOpenVault == Spec => []UnlockedMeansOpen
  <1>1. AppInv => UnlockedMeansOpen
    BY DEF AppInv, ScreenFits
  <1> QED
    BY <1>1, AppSound, PTL

(* The locked and the unlocked page have a parsed vault behind them, also    *)
(* after a restart over a sync.json that cannot be read or parsed.           *)
THEOREM PagesHaveVault == Spec => []PageHasVault
  <1>1. AppInv => PageHasVault
    BY DEF AppInv, ScreenFits
  <1> QED
    BY <1>1, AppSound, PTL

(* The list model shows exactly the items the vault holds: none of them      *)
(* after any lock, all of them after any reload.                             *)
THEOREM ListShowsVault == Spec => []ListMatchesVault
  <1>1. AppInv => ListMatchesVault
    BY DEF AppInv, ScreenFits
  <1> QED
    BY <1>1, AppSound, PTL

-----------------------------------------------------------------------------
(* Only an unlock or the end of a login opens a vault.                       *)
StaysShut == vault'.open => vault.open

LEMMA ShutByLock ==
  ASSUME AppInv, vault' = vault \/ vault' = Lock(vault)
  PROVE  StaysShut
  BY LockSound DEF StaysShut, AppInv, TypeOK

LEMMA ShutByReload ==
  ASSUME AppInv, NEW a \in Answers, Reload(a)
  PROVE  StaysShut
  <1>1. Sound(vault) /\ a \in SyncData \cup {Garbage}
    BY DataAssumption DEF AppInv, ScreenFits
  <1> QED
    BY <1>1, ReloadSound DEF Reload, StaysShut

(* Applying an answer that does not end a login never opens the vault, even  *)
(* with the secrets of another login pending.                                *)
LEMMA ShutByResync ==
  ASSUME AppInv, NEW a \in Answers, ApplySyncBlob(a, FALSE)
  PROVE  StaysShut
  <1>1. Sound(vault) /\ a \in SyncData \cup {Garbage}
    BY DataAssumption DEF AppInv, ScreenFits
  <1>2. CASE Reload(a)
    BY <1>2, ShutByReload
  <1>3. CASE vault' = vault
    BY <1>3 DEF StaysShut
  <1>4. CASE a # Garbage /\ vault' = LoadSync(vault, a)
    BY <1>1, <1>4, LoadSyncSound DEF StaysShut
  <1> QED
    BY <1>2, <1>3, <1>4 DEF ApplySyncBlob, UnlocksRightAway

LEMMA ShutByReboot ==
  ASSUME AppInv, Reboot
  PROVE  StaysShut
  <1>1. PICK readable \in DiskOutcomes : vault' = Booted(disk, readable).vault
    BY DEF Reboot
  <1>2. disk \in Disk /\ readable \in BOOLEAN
    BY OutcomesAreBoolean DEF AppInv, TypeOK
  <1> QED
    BY <1>1, <1>2, BootedFits DEF StaysShut

LEMMA ShutByUser ==
  ASSUME AppInv, User
  PROVE  StaysShut
  <1>1. ASSUME NEW i \in AutoLocks, SetAutoLockMinutes(i)
        PROVE  StaysShut
    <2>1. Sound(vault) /\ i \in Nat
      BY ControllerAssumption DEF AppInv, ScreenFits
    <2> QED
      BY <1>1, <2>1, SetAutoLockSound DEF SetAutoLockMinutes, StaysShut
  <1>2. CASE LockCall \/ SignOut
    BY <1>2, ShutByLock DEF LockCall, LockNow, SignOut
  <1>3. CASE UNCHANGED vault
    BY <1>3 DEF StaysShut
  <1> QED
    BY <1>1, <1>2, <1>3 DEF User, ConfigureAccount, StartLogin, UnlockCall,
       EnablePin, UnlockWithPin, SubmitTwoFactor, CancelLogin, DisablePin,
       SyncNow, Write, SetLockOnMinimize

LEMMA ShutByDelivery ==
  ASSUME AppInv, NEW s \in Slots, Deliver(s)
  PROVE  StaysShut \/ LoginEnds
  <1>1. CASE LoginSynced(s)
    <2>1. net'[s] = NoRequest
      BY <1>1 DEF LoginSynced, Answered, AppInv, TypeOK
    <2> QED
      BY <1>1, <2>1 DEF LoginSynced, LoginEnds
  <1>2. CASE Synced(s)
    <2>1. CASE UNCHANGED vault
      BY <2>1 DEF StaysShut
    <2>2. ASSUME NEW a \in SyncAnswers(net[s].token), ApplySyncBlob(a, FALSE)
          PROVE  StaysShut
      BY <2>2, ShutByResync DEF SyncAnswers
    <2> QED
      BY <1>2, <2>1, <2>2 DEF Synced
  <1>3. CASE WriteSynced(s)
    <2>1. CASE UNCHANGED vault
      BY <2>1 DEF StaysShut
    <2>2. ASSUME NEW a \in SyncAnswers(net[s].token), Reload(a)
          PROVE  StaysShut
      BY <2>2, ShutByReload DEF SyncAnswers
    <2> QED
      BY <1>3, <2>1, <2>2 DEF WriteSynced
  <1>4. CASE LoginAnswered(s)
    <2>1. CASE Reboot
      BY <2>1, ShutByReboot
    <2>2. CASE UNCHANGED vault
      BY <2>2 DEF StaysShut
    <2> QED
      BY <1>4, <2>1, <2>2 DEF LoginAnswered, FinishLogin
  <1>5. CASE UNCHANGED vault
    BY <1>5 DEF StaysShut
  <1> QED
    BY <1>1, <1>2, <1>3, <1>4, <1>5 DEF Deliver, PreloginAnswered,
       CodeAnswered, FinishLogin, Refreshed, Written, WriteRefreshed, Rewritten

LEMMA ShutBySystem ==
  ASSUME AppInv, System
  PROVE  StaysShut \/ LoginEnds \/ Unlocking
  <1>1. CASE UnlockDerived \/ PinUnwrapped
    BY <1>1 DEF UnlockDerived, PinUnwrapped, Unlocking
  <1>2. CASE AutoLockFires \/ Minimize
    BY <1>2, ShutByLock DEF AutoLockFires, Minimize, LockNow
  <1>3. CASE UNCHANGED vault
    BY <1>3 DEF StaysShut
  <1> QED
    BY <1>1, <1>2, <1>3, ShutByDelivery DEF System, DeriveFinishes,
       DeriveDelivers, LoginDerived, EnablePinDerived, PinFinishes,
       PinDelivers, PinWrapped, Activate

(* A closed vault opens only when an unlock of the user's has been computed, *)
(* or on the answer that ends a login: no late answer to a re-sync or a      *)
(* write, no restart and no leftover secret opens it (applySyncBlob).        *)
THEOREM OpenedOnRequest == Spec => OpensOnRequest
  <1>1. ASSUME AppInv, [Next]_vars
        PROVE  [~vault.open /\ vault'.open => Unlocking \/ LoginEnds]_vars
    <2>1. CASE UNCHANGED vars
      BY <2>1
    <2>2. CASE User
      BY <1>1, <2>2, ShutByUser DEF StaysShut
    <2>3. CASE System
      BY <1>1, <2>3, ShutBySystem DEF StaysShut
    <2>4. CASE Restart
      BY <1>1, <2>4, ShutByReboot DEF Restart, StaysShut
    <2> QED
      BY <1>1, <2>1, <2>2, <2>3, <2>4 DEF Next
  <1>2. Spec => [][Next]_vars
    BY PTL DEF Spec
  <1> QED
    BY <1>1, <1>2, AppSound, PTL DEF OpensOnRequest
=============================================================================
