--------------------------- MODULE ContractProofs ----------------------------
(***************************************************************************)
(* More about AppController, for every value of its constants: it keeps the *)
(* contract the pages are built on (Screen), pin.dat only ever wraps a key  *)
(* some vault was protected with, the count of wrong PINs is honest, and a  *)
(* login is answered in the context it was started in.                      *)
(***************************************************************************)
EXTENDS AppControllerProofs

-----------------------------------------------------------------------------
(***************************************************************************)
(* AppController implements Screen: each step is one of its moves, a        *)
(* restart, or leaves page and vault alone.                                 *)
(***************************************************************************)
Moves == [Contract!ScreenMoves \/ Contract!Restarted]_(Contract!screen)

LEMMA StayMoves ==
  ASSUME state' = state, vault'.open = vault.open
  PROVE  Moves
  BY DEF Moves, Contract!screen

LEMMA OpenMoves ==
  ASSUME state # "setup", state' = "unlocked", vault'.open = TRUE
  PROVE  Moves
  BY DEF Moves, Contract!ScreenMoves, Contract!OpenVault

(* The page changes, and the vault behind it may have been closed.           *)
LEMMA LeaveMoves ==
  ASSUME state # "setup", state' \in {"locked", "login"},
         vault'.open = FALSE \/ vault'.open = vault.open
  PROVE  Moves
  BY DEF Moves, Contract!ScreenMoves, Contract!CloseVault, Contract!SwitchPage

LEMMA BehindMoves ==
  ASSUME state \notin {"setup", "unlocked"}, state' = state, vault'.open = FALSE
  PROVE  Moves
  BY DEF Moves, Contract!ScreenMoves, Contract!CloseBehind

LEMMA CodeMoves ==
  ASSUME state # "setup", state' = "twofactor", vault'.open = vault.open
  PROVE  Moves
  BY DEF Moves, Contract!ScreenMoves, Contract!AskCode

LEMMA ConfigureMoves ==
  ASSUME state \in {"setup", "login"}, state' = "login", vault'.open = vault.open
  PROVE  Moves
  BY DEF Moves, Contract!ScreenMoves, Contract!Configure

(* The vault closes, and the page follows through lockedChanged.             *)
LEMMA CloseMoves ==
  ASSUME AppInv, state # "setup", NEW w, vault' = w, w.open = FALSE,
         state' = StateAfter(w)
  PROVE  Moves
  <1>1. state = "unlocked" => vault.open
    BY DEF AppInv, ScreenFits, UnlockedMeansOpen
  <1>2. CASE vault.open /\ state = "unlocked"
    BY <1>2, LeaveMoves DEF StateAfter
  <1>3. CASE state # "unlocked"
    BY <1>3, BehindMoves DEF StateAfter
  <1> QED
    BY <1>1, <1>2, <1>3

LEMMA TryOpenMoves ==
  ASSUME AppInv, state # "setup", NEW m \in MasterKeys, TryOpen(m)
  PROVE  Moves
  <1> DEFINE w == UnlockWithMasterKey(vault, m)
  <1>1. Sound(vault)
    BY DEF AppInv, ScreenFits
  <1>2. Sound(w) /\ (w.open <=> UnlockSucceeds(vault, m))
    BY <1>1, UnlockSound
  <1>3. w.open \in BOOLEAN
    BY <1>2 DEF Sound, VaultState
  <1>4. vault' = w /\ IF UnlockSucceeds(vault, m) THEN state' = "unlocked"
                      ELSE state' = StateAfter(w)
    BY DEF TryOpen
  <1> HIDE DEF w
  <1>5. CASE UnlockSucceeds(vault, m)
    BY <1>2, <1>3, <1>4, <1>5, OpenMoves
  <1>6. CASE ~UnlockSucceeds(vault, m)
    BY <1>2, <1>3, <1>4, <1>6, CloseMoves
  <1> QED
    BY <1>5, <1>6

LEMMA ReloadMoves ==
  ASSUME AppInv, state # "setup", NEW a \in Answers, Reload(a)
  PROVE  Moves
  <1> DEFINE w == ReloadSync(vault, a)
  <1>1. Sound(vault) /\ a \in SyncData \cup {Garbage}
    BY DataAssumption DEF AppInv, ScreenFits
  <1>2. /\ Sound(w) /\ (w.open => vault.open)
        /\ ReloadSucceeds(vault, a) => w.open
    BY <1>1, ReloadSound
  <1>3. w.open \in BOOLEAN /\ vault.open \in BOOLEAN
    BY <1>1, <1>2 DEF Sound, VaultState
  <1>4. vault' = w /\ IF ReloadSucceeds(vault, a) THEN state' = state
                      ELSE state' = "locked"
    BY DEF Reload
  <1> HIDE DEF w
  <1>5. CASE ReloadSucceeds(vault, a)
    BY <1>2, <1>3, <1>4, <1>5, StayMoves
  <1>6. CASE ~ReloadSucceeds(vault, a)
    BY <1>2, <1>3, <1>4, <1>6, LeaveMoves
  <1> QED
    BY <1>5, <1>6

LEMMA LoadAndOpenMoves ==
  ASSUME AppInv, state # "setup", NEW a \in Answers \ {Garbage}, LoadAndOpen(a),
         vault'.open \in BOOLEAN
  PROVE  Moves
  <1> DEFINE w == UnlockWithMasterKey(LoadSync(vault, a), session.key)
  <1>1. vault' = w /\ state' = IF w.open THEN "unlocked" ELSE "locked"
    BY DEF LoadAndOpen
  <1>2. w.open \in BOOLEAN
    BY <1>1
  <1> HIDE DEF w
  <1>3. CASE w.open
    BY <1>1, <1>2, <1>3, OpenMoves
  <1>4. CASE ~w.open
    BY <1>1, <1>2, <1>4, LeaveMoves
  <1> QED
    BY <1>3, <1>4

LEMMA ApplyMoves ==
  ASSUME AppInv, state # "setup", NEW a \in Answers, NEW fresh \in BOOLEAN,
         ApplySyncBlob(a, fresh), vault'.open \in BOOLEAN
  PROVE  Moves
  <1>1. CASE Reload(a)
    BY <1>1, ReloadMoves
  <1>2. CASE UNCHANGED <<state, vault>>
    BY <1>2, StayMoves
  <1>3. CASE a # Garbage /\ LoadAndOpen(a)
    BY <1>3, LoadAndOpenMoves
  <1>4. CASE a # Garbage /\ vault' = LoadSync(vault, a) /\ state' = "locked"
    <2>1. Sound(vault) /\ a \in SyncData \cup {Garbage}
      BY DataAssumption DEF AppInv, ScreenFits
    <2>2. vault'.open = FALSE
      BY <1>4, <2>1, LoadSyncSound
    <2> QED
      BY <1>4, <2>2, LeaveMoves
  <1> QED
    BY <1>1, <1>2, <1>3, <1>4 DEF ApplySyncBlob

LEMMA LockNowMoves ==
  ASSUME AppInv, state # "setup", LockNow
  PROVE  Moves
  <1>1. vault \in VaultState
    BY DEF AppInv, TypeOK
  <1>2. vault'.open = FALSE /\ state' \in {"locked", "login"}
    BY <1>1 DEF LockNow, Lock, VaultState
  <1> QED
    BY <1>2, LeaveMoves

LEMMA RebootMoves ==
  ASSUME AppInv, Reboot, vault'.open \in BOOLEAN
  PROVE  Moves
  <1>1. PICK readable \in DiskOutcomes :
          /\ state' = Booted(disk, readable).state
          /\ vault' = Booted(disk, readable).vault
    BY DEF Reboot
  <1>2. disk \in Disk /\ readable \in BOOLEAN
    BY OutcomesAreBoolean DEF AppInv, TypeOK
  <1>3. state' \in {"setup", "login", "locked"} /\ ~vault'.open
    BY <1>1, <1>2, BootedFits
  <1> QED
    BY <1>3 DEF Moves, Contract!Restarted, Contract!FirstStates

(* The calls of the pages.                                                   *)
LEMMA UserMoves ==
  ASSUME AppInv, User
  PROVE  Moves
  <1>1. ASSUME NEW a \in Accounts, ConfigureAccount(a)
        PROVE  Moves
    BY <1>1, ConfigureMoves DEF ConfigureAccount, Called, Offers
  <1>2. CASE LockCall
    <2>1. state # "setup"
      BY <1>2 DEF LockCall, Called, Offers
    <2> QED
      BY <1>2, <2>1, LockNowMoves DEF LockCall
  <1>3. CASE SignOut
    <2>1. state # "setup" /\ state' = "login" /\ vault' = Lock(vault)
      BY <1>3 DEF SignOut, Called, Offers
    <2>2. vault'.open = FALSE
      BY <2>1 DEF Lock, AppInv, TypeOK, VaultState
    <2> QED
      BY <2>1, <2>2, LeaveMoves
  <1>4. CASE CancelLogin
    <2>1. state = "twofactor" /\ state' = "login" /\ vault' = vault
      BY <1>4 DEF CancelLogin, Called, Offers
    <2> QED
      BY <2>1, LeaveMoves
  <1>5. ASSUME NEW p \in Passwords, UnlockCall(p)
        PROVE  Moves
    <2>1. /\ state # "setup" /\ vault' = vault
          /\ state' = "login" \/ state' = state
      BY <1>5 DEF UnlockCall, Called, Offers
    <2> QED
      BY <2>1, LeaveMoves, StayMoves
  <1>6. ASSUME NEW i \in AutoLocks, SetAutoLockMinutes(i)
        PROVE  Moves
    <2>1. Sound(vault) /\ i \in Nat
      BY ControllerAssumption DEF AppInv, ScreenFits
    <2>2. state' = state /\ vault'.open = vault.open
      BY <1>6, <2>1, SetAutoLockSound DEF SetAutoLockMinutes, ui
    <2> QED
      BY <2>2, StayMoves
  <1>7. CASE UNCHANGED <<state, vault>>
    BY <1>7, StayMoves
  <1> QED
    BY <1>1, <1>2, <1>3, <1>4, <1>5, <1>6, <1>7 DEF User, StartLogin,
       EnablePin, UnlockWithPin, SubmitTwoFactor, DisablePin, SyncNow, Write,
       SetLockOnMinimize, ui

(* The answers.                                                              *)
LEMMA DeliveryMoves ==
  ASSUME AppInv, AppInv', NEW s \in Slots, Deliver(s)
  PROVE  Moves
  <1>1. state # "setup" /\ vault'.open \in BOOLEAN
    <2>1. net[s] # NoRequest
      BY DEF Deliver, Waits, PreloginAnswered, LoginAnswered, CodeAnswered,
         LoginSynced, Refreshed, Synced, Written, WriteRefreshed, Rewritten,
         WriteSynced
    <2> QED
      BY <2>1 DEF AppInv, SetupIdle, TypeOK, VaultState
  <1>2. CASE LoginAnswered(s)
    <2>1. CASE Reboot
      BY <1>1, <2>1, RebootMoves
    <2>2. CASE state' = "twofactor" /\ vault' = vault
      BY <1>1, <2>2, CodeMoves
    <2>3. CASE UNCHANGED <<state, vault>>
      BY <2>3, StayMoves
    <2> QED
      BY <1>2, <2>1, <2>2, <2>3 DEF LoginAnswered, FinishLogin, ui
  <1>3. CASE LoginSynced(s)
    <2>1. CASE state' = "login" /\ UNCHANGED vault
      BY <1>1, <2>1, LeaveMoves
    <2>2. ASSUME NEW a \in SyncAnswers(net[s].token), ApplySyncBlob(a, TRUE)
          PROVE  Moves
      BY <1>1, <2>2, ApplyMoves DEF SyncAnswers
    <2> QED
      BY <1>3, <2>1, <2>2 DEF LoginSynced
  <1>4. CASE Synced(s)
    <2>1. CASE UNCHANGED <<state, vault>>
      BY <2>1, StayMoves
    <2>2. ASSUME NEW a \in SyncAnswers(net[s].token), ApplySyncBlob(a, FALSE)
          PROVE  Moves
      BY <1>1, <2>2, ApplyMoves DEF SyncAnswers
    <2> QED
      BY <1>4, <2>1, <2>2 DEF Synced
  <1>5. CASE WriteSynced(s)
    <2>1. CASE UNCHANGED <<state, vault>>
      BY <2>1, StayMoves
    <2>2. ASSUME NEW a \in SyncAnswers(net[s].token), Reload(a)
          PROVE  Moves
      BY <1>1, <2>2, ReloadMoves DEF SyncAnswers
    <2> QED
      BY <1>5, <2>1, <2>2 DEF WriteSynced
  <1>6. CASE Refreshed(s)
    <2>1. vault' = vault /\ (state' = state \/ state' = "login")
      BY <1>6 DEF Refreshed
    <2> QED
      BY <1>1, <2>1, StayMoves, LeaveMoves
  <1>7. CASE UNCHANGED <<state, vault>>
    BY <1>7, StayMoves
  <1> QED
    BY <1>2, <1>3, <1>4, <1>5, <1>6, <1>7 DEF Deliver, PreloginAnswered,
       CodeAnswered, FinishLogin, Written, WriteRefreshed, Rewritten, ui

(* Workers, timer and minimizing.                                            *)
LEMMA SystemMoves ==
  ASSUME AppInv, AppInv', System
  PROVE  Moves
  <1>1. CASE \E s \in Slots : Deliver(s)
    BY <1>1, DeliveryMoves
  <1>2. CASE UnlockDerived
    <2>1. state # "setup" /\ derive.key \in NoSecret
      BY <1>2 DEF UnlockDerived, AppInv, SetupIdle, TypeOK, Derive
    <2>2. CASE UNCHANGED <<state, vault>>
      BY <2>2, StayMoves
    <2>3. CASE derive.key # NoMaster /\ TryOpen(derive.key)
      BY <2>1, <2>3, TryOpenMoves DEF NoSecret
    <2> QED
      BY <1>2, <2>2, <2>3 DEF UnlockDerived
  <1>3. CASE PinUnwrapped
    <2>1. state # "setup" /\ pinJob.key \in NoSecret
      BY <1>3 DEF PinUnwrapped, AppInv, SetupIdle, TypeOK, PinJob
    <2>2. CASE UNCHANGED <<state, vault>>
      BY <2>2, StayMoves
    <2>3. CASE pinJob.key # NoMaster /\ TryOpen(pinJob.key)
      BY <2>1, <2>3, TryOpenMoves DEF NoSecret
    <2> QED
      BY <1>3, <2>2, <2>3 DEF PinUnwrapped
  <1>4. CASE AutoLockFires
    <2>1. Sound(vault) /\ vault \in VaultState
      BY DEF AppInv, ScreenFits, TypeOK
    <2>2. vault.open
      BY <1>4, <2>1 DEF AutoLockFires, Sound, Consistent, HoldsNothing
    <2>3. state # "setup"
      BY <2>2 DEF AppInv, SetupIdle
    <2>4. Lock(vault).open = FALSE
      BY <2>1 DEF Lock, VaultState
    <2> QED
      BY <1>4, <2>3, <2>4, CloseMoves DEF AutoLockFires
  <1>5. CASE Minimize
    <2>1. CASE UNCHANGED <<state, vault>>
      BY <2>1, StayMoves
    <2>2. CASE vault.open /\ LockNow
      <3>1. state # "setup"
        BY <2>2 DEF AppInv, SetupIdle
      <3> QED
        BY <2>2, <3>1, LockNowMoves
    <2> QED
      BY <1>5, <2>1, <2>2 DEF Minimize
  <1>6. CASE UNCHANGED <<state, vault>>
    BY <1>6, StayMoves
  <1> QED
    BY <1>1, <1>2, <1>3, <1>4, <1>5, <1>6 DEF System, DeriveFinishes,
       DeriveDelivers, LoginDerived, EnablePinDerived, PinFinishes,
       PinDelivers, PinWrapped, Activate, ui

(* Whatever order answers, jobs, timers, calls and restarts come in, the     *)
(* pages see the moves of module Screen and no others.                       *)
THEOREM ContractKept == Spec => KeepsContract
  <1>1. Init => Contract!Booted
    <2> SUFFICES ASSUME Init PROVE Contract!Booted
      OBVIOUS
    <2>1. PICK d \in Disks, readable \in DiskOutcomes :
            /\ state = Booted(d, readable).state
            /\ vault = Booted(d, readable).vault
      BY DEF Init
    <2>2. d \in Disk /\ readable \in BOOLEAN
      BY ControllerAssumption, OutcomesAreBoolean
    <2>3. state \in {"setup", "login", "locked"} /\ ~vault.open
      BY <2>1, <2>2, BootedFits
    <2>4. vault.open \in BOOLEAN
      BY InitKeeps DEF AppInv, TypeOK, VaultState
    <2> QED
      BY <2>3, <2>4 DEF Contract!Booted, Contract!FirstStates
  <1>2. ASSUME AppInv, AppInv', [Next]_vars
        PROVE  Moves
    <2>1. CASE UNCHANGED vars
      BY <2>1, StayMoves DEF vars
    <2>2. CASE Restart
      BY <1>2, <2>2, RebootMoves DEF Restart, AppInv, TypeOK, VaultState
    <2> QED
      BY <1>2, <2>1, <2>2, UserMoves, SystemMoves DEF Next
  <1> QED
    BY <1>1, <1>2, AppSound, PTL DEF Spec, KeepsContract, Contract!ScreenSpec, Moves

-----------------------------------------------------------------------------
(***************************************************************************)
(* What is wrapped under the PIN.                                           *)
(***************************************************************************)
Served(key) == \E a \in Answers \ {Garbage} : key = a.key.wrap

(* What earlier sessions may have left: a pin.dat this program wrote.        *)
ServedDisks == \A d \in Disks : d.pin # NoPin => Served(d.pin.key)

VaultServed == vault.data # NoData => Served(vault.data.key.wrap)
DiskServed  == disk.pin # NoPin => Served(disk.pin.key)
WrapServed  == pinJob.phase # "idle" /\ pinJob.next = "wrap" => Served(pinJob.key)

(* The inductive invariant, on top of AppInv.                                *)
PinInv == VaultServed /\ DiskServed /\ WrapServed

(* The data of a vault only ever comes from an answer.                       *)
DataStep ==
  \/ vault'.data = vault.data
  \/ \E a \in Answers \ {Garbage} : vault'.data.key = a.key
  \/ vault'.data = NoData

LEMMA DataStepServes ==
  ASSUME VaultServed, DataStep
  PROVE  VaultServed'
  BY DEF VaultServed, DataStep, Served

LEMMA LockData ==
  ASSUME NEW v \in VaultState
  PROVE  Lock(v).data = v.data
  BY DEF Lock, VaultState

LEMMA LoadData ==
  ASSUME NEW v \in VaultState, NEW a \in Answers
  PROVE  \/ LoadSync(v, a).data = v.data
         \/ a # Garbage /\ LoadSync(v, a).data.key = a.key
  <1>1. CASE a = Garbage
    BY <1>1 DEF LoadSync
  <1>2. CASE a # Garbage
    <2>1. a \in SyncData
      BY <1>2, DataAssumption
    <2>2. LoadSync(v, a).data = Parse(a)
      BY <1>2 DEF LoadSync, Lock, VaultState
    <2> QED
      BY <1>2, <2>1, <2>2, ParseType
  <1> QED
    BY <1>1, <1>2

LEMMA ReloadData ==
  ASSUME NEW v \in VaultState, NEW a \in Answers
  PROVE  \/ ReloadSync(v, a).data = v.data
         \/ a # Garbage /\ ReloadSync(v, a).data.key = a.key
  <1> DEFINE r == Replaced(v, a)
  <1>1. CASE ~v.open \/ a = Garbage
    <2>1. ReloadSync(v, a) = v
      BY <1>1 DEF ReloadSync, ReloadSucceeds
    <2> QED
      BY <2>1
  <1>2. CASE v.open /\ a # Garbage /\ ~SameProtectedKey(v, a)
    <2>1. ReloadSync(v, a) = Lock(v)
      BY <1>2 DEF ReloadSync, ReloadSucceeds
    <2> QED
      BY <2>1, LockData
  <1>3. CASE v.open /\ a # Garbage /\ SameProtectedKey(v, a)
    <2>1. a \in SyncData
      BY <1>3, DataAssumption
    <2>2. Parse(a).key = a.key
      BY <2>1, ParseType
    <2>3. r.data = Parse(a) /\ Lock(r).data = r.data /\ Rebuilt(r).data = r.data
      BY DEF Replaced, Lock, Rebuilt, VaultState
    <2>4. ReloadSync(v, a) = Lock(r) \/ ReloadSync(v, a) = Rebuilt(r)
      BY <1>3 DEF ReloadSync, ReloadSucceeds
    <2> HIDE DEF r
    <2> QED
      BY <1>3, <2>2, <2>3, <2>4
  <1> QED
    BY <1>1, <1>2, <1>3

LEMMA TryOpenData ==
  ASSUME AppInv, NEW m \in MasterKeys, TryOpen(m)
  PROVE  DataStep
  <1>1. Sound(vault)
    BY DEF AppInv, ScreenFits
  <1> QED
    BY <1>1, UnlockSound DEF TryOpen, DataStep

LEMMA ReloadedData ==
  ASSUME AppInv, NEW a \in Answers, Reload(a)
  PROVE  DataStep
  BY ReloadData DEF AppInv, TypeOK, Reload, DataStep

LEMMA AppliedData ==
  ASSUME AppInv, NEW a \in Answers, NEW fresh \in BOOLEAN, ApplySyncBlob(a, fresh)
  PROVE  DataStep
  <1>1. vault \in VaultState /\ Sound(vault) /\ session.key \in NoSecret
    BY DEF AppInv, TypeOK, Session, ScreenFits
  <1>2. CASE Reload(a)
    BY <1>2, ReloadedData
  <1>3. CASE UNCHANGED vault
    BY <1>3 DEF DataStep
  <1>4. CASE a # Garbage /\ LoadAndOpen(a) /\ UnlocksRightAway(fresh)
    <2> DEFINE l == LoadSync(vault, a)
    <2>1. session.key \in MasterKeys
      BY <1>1, <1>4 DEF UnlocksRightAway, NoSecret
    <2>2. Sound(l)
      BY <1>1, DataAssumption, LoadSyncSound
    <2>3. vault' = UnlockWithMasterKey(l, session.key)
      BY <1>4 DEF LoadAndOpen
    <2>4. l.data = vault.data \/ (a # Garbage /\ l.data.key = a.key)
      BY <1>1, LoadData
    <2> HIDE DEF l
    <2>5. vault'.data = l.data
      BY <2>1, <2>2, <2>3, UnlockSound
    <2> QED
      BY <2>4, <2>5 DEF DataStep
  <1>5. CASE vault' = LoadSync(vault, a)
    BY <1>1, <1>5, LoadData DEF DataStep
  <1> QED
    BY <1>2, <1>3, <1>4, <1>5 DEF ApplySyncBlob

(* A start finds a stored answer, or none.                                   *)
LEMMA BootedData ==
  ASSUME NEW d \in Disk, NEW readable \in BOOLEAN
  PROVE  LET v == Booted(d, readable).vault IN
         v.data = NoData \/ \E a \in Answers \ {Garbage} : v.data.key = a.key
  <1> DEFINE f == FreshVault(d.autoLock)
             l == IF d.account # NoAccount /\ d.blob # NoBlob /\ readable
                  THEN LoadSync(f, d.blob) ELSE f
  <1>1. d.autoLock \in Nat /\ d.blob \in Blobs
    BY ControllerAssumption DEF Disk
  <1>2. f \in VaultState /\ f.data = NoData
    BY <1>1, FreshVaultSound DEF Sound, FreshVault
  <1>3. Booted(d, readable).vault = l
    BY DEF Booted
  <1> HIDE DEF f
  <1>4. CASE l = f
    BY <1>2, <1>3, <1>4
  <1>5. CASE l = LoadSync(f, d.blob) /\ d.blob # NoBlob
    BY <1>1, <1>2, <1>3, <1>5, LoadData DEF Blobs
  <1> QED
    BY <1>4, <1>5

(* The vault's data, for every step.                                         *)
LEMMA StepData ==
  ASSUME AppInv, [Next]_vars
  PROVE  DataStep
  <1>0. vault \in VaultState /\ disk \in Disk
    BY DEF AppInv, TypeOK
  <1>1. CASE Reboot
    <2>1. PICK readable \in DiskOutcomes : vault' = Booted(disk, readable).vault
      BY <1>1 DEF Reboot
    <2> QED
      BY <1>0, <2>1, OutcomesAreBoolean, BootedData DEF DataStep
  <1>2. CASE vault' = vault \/ vault' = Lock(vault)
    BY <1>0, <1>2, LockData DEF DataStep
  <1>3. ASSUME NEW i \in AutoLocks, SetAutoLockMinutes(i)
        PROVE  DataStep
    <2>1. Sound(vault) /\ i \in Nat
      BY ControllerAssumption DEF AppInv, ScreenFits
    <2> QED
      BY <1>3, <2>1, SetAutoLockSound DEF SetAutoLockMinutes, DataStep
  <1>4. ASSUME NEW s \in Slots, NEW a \in SyncAnswers(net[s].token),
               NEW fresh \in BOOLEAN, ApplySyncBlob(a, fresh)
        PROVE  DataStep
    BY <1>4, AppliedData DEF SyncAnswers
  <1>5. ASSUME NEW s \in Slots, NEW a \in SyncAnswers(net[s].token), Reload(a)
        PROVE  DataStep
    BY <1>5, ReloadedData DEF SyncAnswers
  <1>6. CASE User
    BY <1>2, <1>3, <1>6 DEF User, ConfigureAccount, StartLogin, UnlockCall,
       EnablePin, UnlockWithPin, SubmitTwoFactor, CancelLogin, DisablePin,
       SyncNow, Write, LockCall, LockNow, SignOut, SetLockOnMinimize
  <1>7. ASSUME NEW s \in Slots, Deliver(s)
        PROVE  DataStep
    <2>1. CASE LoginSynced(s)
      BY <1>2, <1>4, <2>1 DEF LoginSynced
    <2>2. CASE Synced(s)
      BY <1>2, <1>4, <2>2 DEF Synced
    <2>3. CASE WriteSynced(s)
      BY <1>2, <1>5, <2>3 DEF WriteSynced
    <2>4. CASE LoginAnswered(s)
      BY <1>1, <1>2, <2>4 DEF LoginAnswered, FinishLogin
    <2> QED
      BY <1>2, <1>7, <2>1, <2>2, <2>3, <2>4 DEF Deliver, PreloginAnswered,
         CodeAnswered, FinishLogin, Refreshed, Written, WriteRefreshed, Rewritten
  <1>8. CASE UnlockDerived
    BY <1>2, <1>8, TryOpenData DEF UnlockDerived, AppInv, TypeOK, Derive, NoSecret
  <1>9. CASE PinUnwrapped
    BY <1>2, <1>9, TryOpenData DEF PinUnwrapped, AppInv, TypeOK, PinJob, NoSecret
  <1>10. CASE System
    BY <1>2, <1>7, <1>8, <1>9, <1>10 DEF System, DeriveFinishes,
       DeriveDelivers, LoginDerived, EnablePinDerived, PinFinishes,
       PinDelivers, PinWrapped, AutoLockFires, Minimize, LockNow, Activate
  <1>11. CASE UNCHANGED vars
    BY <1>2, <1>11 DEF vars
  <1> QED
    BY <1>1, <1>6, <1>10, <1>11 DEF Next, Restart

(* A step that neither wraps nor touches what is being wrapped, but may      *)
(* remove pin.dat.                                                           *)
PinQuiet ==
  /\ disk'.pin = disk.pin \/ disk'.pin = NoPin
  /\ \/ pinJob' = pinJob
     \/ pinJob'.phase = "idle" \/ pinJob'.next = "unwrap"

LEMMA QuietServes ==
  ASSUME PinInv, PinQuiet
  PROVE  DiskServed' /\ WrapServed'
  BY DEF PinInv, PinQuiet, DiskServed, WrapServed

LEMMA PinForgotten ==
  ASSUME NEW d \in Disk, NEW removed \in BOOLEAN
  PROVE  /\ ForgetPin(d, removed).pin = IF removed THEN NoPin ELSE d.pin
         /\ ForgetPin(d, removed).fails = 0
  BY DEF Disk, ForgetPin

LEMMA ApplyPins ==
  ASSUME AppInv, NEW a, NEW fresh, ApplySyncBlob(a, fresh)
  PROVE  disk'.pin = disk.pin
  BY DEF ApplySyncBlob, SaveBlob, AppInv, TypeOK, Disk

(* The answers leave pin.dat and the PIN job alone.                          *)
LEMMA DeliveryPins ==
  ASSUME AppInv, NEW s \in Slots, Deliver(s)
  PROVE  PinQuiet
  <1>1. disk \in Disk
    BY DEF AppInv, TypeOK
  <1>2. CASE PreloginAnswered(s)
    BY <1>1, <1>2 DEF PreloginAnswered, PinQuiet, Disk
  <1>3. CASE LoginAnswered(s) \/ CodeAnswered(s)
    <2>1. CASE Reboot
      BY <2>1 DEF Reboot, IdlePinJob, PinQuiet
    <2>2. CASE FinishLogin(s)
      BY <1>1, <2>2 DEF FinishLogin, jobs, PinQuiet, Disk
    <2>3. CASE UNCHANGED <<disk, pinJob>>
      BY <2>3 DEF PinQuiet
    <2> QED
      BY <1>3, <2>1, <2>2, <2>3 DEF LoginAnswered, CodeAnswered, jobs
  <1>4. CASE LoginSynced(s) \/ Synced(s)
    BY <1>4, ApplyPins DEF LoginSynced, Synced, PinQuiet
  <1>5. CASE Refreshed(s) \/ WriteRefreshed(s)
    BY <1>1, <1>5 DEF Refreshed, WriteRefreshed, RefreshedTo, jobs, PinQuiet, Disk
  <1>6. CASE WriteSynced(s)
    BY <1>1, <1>6 DEF WriteSynced, SaveBlob, jobs, PinQuiet, Disk
  <1>7. CASE Written(s) \/ Rewritten(s)
    BY <1>7 DEF Written, Rewritten, jobs, PinQuiet
  <1> QED
    BY <1>2, <1>3, <1>4, <1>5, <1>6, <1>7 DEF Deliver

LEMMA UserPins ==
  ASSUME AppInv, User
  PROVE  PinQuiet
  <1>1. disk \in Disk /\ pinJob \in PinJob
    BY DEF AppInv, TypeOK
  <1>2. CASE SignOut
    <2>1. PICK blobGone \in DiskOutcomes, pinGone \in DiskOutcomes :
            disk' = [ForgetPin(disk, pinGone) EXCEPT !.token = NoAccount,
                       !.blob = IF blobGone THEN NoBlob ELSE @]
      BY <1>2 DEF SignOut
    <2> DEFINE f == ForgetPin(disk, pinGone)
    <2>2. f \in Disk /\ f.pin = IF pinGone THEN NoPin ELSE disk.pin
      BY <1>1, OutcomesAreBoolean, PinEdits, PinForgotten
    <2>3. disk' = [f EXCEPT !.token = NoAccount,
                     !.blob = IF blobGone THEN NoBlob ELSE @]
      BY <2>1
    <2> HIDE DEF f
    <2>4. disk'.pin = f.pin
      BY <2>2, <2>3 DEF Disk
    <2> QED
      BY <1>2, <2>2, <2>4 DEF SignOut, jobs, PinQuiet
  <1>3. CASE DisablePin
    BY <1>1, <1>3, OutcomesAreBoolean, PinForgotten DEF DisablePin, jobs, PinQuiet
  <1>4. ASSUME NEW pin \in Pins, UnlockWithPin(pin)
        PROVE  PinQuiet
    BY <1>1, <1>4, OutcomesAreBoolean, PinForgotten DEF UnlockWithPin,
       RunPinWorker, PinQuiet
  <1>5. CASE \/ \E a \in Accounts : ConfigureAccount(a)
             \/ \E i \in AutoLocks : SetAutoLockMinutes(i)
             \/ \E on \in BOOLEAN : SetLockOnMinimize(on)
    BY <1>1, <1>5 DEF ConfigureAccount, SetAutoLockMinutes, SetLockOnMinimize,
       jobs, PinQuiet, Disk
  <1>6. CASE UNCHANGED <<disk, pinJob>>
    BY <1>6 DEF PinQuiet
  <1> QED
    BY <1>2, <1>3, <1>4, <1>5, <1>6 DEF User, StartLogin, UnlockCall,
       EnablePin, SubmitTwoFactor, CancelLogin, SyncNow, Write, LockCall, jobs

LEMMA SystemPins ==
  ASSUME AppInv, PinInv, System
  PROVE  DiskServed' /\ WrapServed'
  <1>1. disk \in Disk /\ pinJob \in PinJob /\ derive \in Derive
    BY DEF AppInv, TypeOK
  <1>2. CASE PinQuiet
    BY <1>2, QuietServes
  <1>3. CASE EnablePinDerived
    <2>1. disk' = disk
      BY <1>3 DEF EnablePinDerived
    <2>2. CASE pinJob' = pinJob
      BY <1>2, <2>1, <2>2 DEF PinQuiet
    <2>3. CASE /\ VerifyMasterKey(vault, derive.key)
               /\ RunPinWorker("wrap", derive.key, derive.pin)
      <3>1. Served(derive.key)
        BY <2>3 DEF VerifyMasterKey, PinInv, VaultServed
      <3>2. pinJob' = pinJob \/ pinJob'.key = derive.key
        BY <2>3 DEF RunPinWorker
      <3> QED
        BY <2>1, <3>1, <3>2 DEF PinInv, DiskServed, WrapServed
    <2> QED
      BY <1>3, <2>2, <2>3 DEF EnablePinDerived
  <1>4. CASE PinWrapped
    <2>1. Served(pinJob.key)
      BY <1>4 DEF PinWrapped, PinInv, WrapServed
    <2>2. disk'.pin = disk.pin \/ disk'.pin = [pin |-> pinJob.pin, key |-> pinJob.key]
      BY <1>1, <1>4 DEF PinWrapped, Disk
    <2>3. pinJob'.phase = "idle"
      BY <1>4 DEF PinWrapped, IdlePinJob
    <2> QED
      BY <2>1, <2>2, <2>3 DEF PinInv, DiskServed, WrapServed
  <1>5. CASE PinUnwrapped
    <2>1. pinJob'.phase = "idle"
      BY <1>5 DEF PinUnwrapped, IdlePinJob
    <2>2. PICK removed \in DiskOutcomes :
            \/ disk' = ForgetPin(disk, removed)
            \/ disk' = [disk EXCEPT !.fails = @ + 1]
            \/ disk' = [disk EXCEPT !.fails = 0]
      BY <1>5 DEF PinUnwrapped, WrongPin
    <2>3. removed \in BOOLEAN
      BY OutcomesAreBoolean
    <2>4. disk'.pin = disk.pin \/ disk'.pin = NoPin
      <3>1. CASE disk' = ForgetPin(disk, removed)
        BY <1>1, <2>3, <3>1, PinForgotten
      <3>2. CASE \/ disk' = [disk EXCEPT !.fails = @ + 1]
                 \/ disk' = [disk EXCEPT !.fails = 0]
        BY <1>1, <3>2 DEF Disk
      <3> QED
        BY <2>2, <3>1, <3>2
    <2> QED
      BY <1>2, <2>1, <2>4 DEF PinQuiet
  <1>6. CASE PinFinishes
    <2>1. /\ disk' = disk /\ pinJob.phase = "running"
          /\ pinJob'.next = pinJob.next /\ pinJob'.key = pinJob.key
      BY <1>1, <1>6 DEF PinFinishes, PinJob
    <2> QED
      BY <2>1 DEF PinInv, DiskServed, WrapServed
  <1>7. CASE UNCHANGED <<disk, pinJob>>
    BY <1>2, <1>7 DEF PinQuiet
  <1> QED
    BY <1>2, <1>3, <1>4, <1>5, <1>6, <1>7, DeliveryPins DEF System,
       DeriveFinishes, DeriveDelivers, LoginDerived, UnlockDerived,
       PinDelivers, AutoLockFires, Minimize, Activate, jobs

LEMMA PinStepKeeps ==
  ASSUME AppInv, PinInv, [Next]_vars
  PROVE  PinInv'
  <1>1. VaultServed'
    BY StepData, DataStepServes DEF PinInv
  <1>2. CASE Restart
    <2>1. PinQuiet
      BY <1>2 DEF Restart, Reboot, IdlePinJob, PinQuiet
    <2> QED
      BY <1>1, <2>1, QuietServes DEF PinInv
  <1>3. CASE UNCHANGED vars
    <2>1. PinQuiet
      BY <1>3 DEF vars, PinQuiet
    <2> QED
      BY <1>1, <2>1, QuietServes DEF PinInv
  <1>4. CASE User
    BY <1>1, <1>4, UserPins, QuietServes DEF PinInv
  <1>5. CASE System
    BY <1>1, <1>5, SystemPins DEF PinInv
  <1> QED
    BY <1>2, <1>3, <1>4, <1>5 DEF Next

(* Given that the pin.dat found on disk, if any, was written by this         *)
(* program, every later one wraps a key some vault was protected with: a     *)
(* mistyped master password is never wrapped, although enablePin's two jobs  *)
(* run while answers replace and timers lock the vault (startPinWrap).       *)
THEOREM PinAlwaysWrapsServedKey ==
  ASSUME ServedDisks
  PROVE  Spec => []PinWrapsServedKey
  <1>1. Init => PinInv
    <2> SUFFICES ASSUME Init PROVE PinInv
      OBVIOUS
    <2>1. PICK d \in Disks, readable \in DiskOutcomes :
            disk = d /\ vault = Booted(d, readable).vault
      BY DEF Init
    <2>2. d \in Disk /\ readable \in BOOLEAN
      BY ControllerAssumption, OutcomesAreBoolean
    <2>3. VaultServed
      BY <2>1, <2>2, BootedData DEF VaultServed, Served
    <2>4. DiskServed
      BY <2>1 DEF ServedDisks, DiskServed
    <2>5. WrapServed
      BY DEF Init, IdlePinJob, WrapServed
    <2> QED
      BY <2>3, <2>4, <2>5 DEF PinInv
  <1>2. PinInv => PinWrapsServedKey
    BY DEF PinInv, DiskServed, Served, PinWrapsServedKey
  <1> QED
    BY <1>1, <1>2, PinStepKeeps, AppSound, PTL DEF Spec

-----------------------------------------------------------------------------
(***************************************************************************)
(* The count of wrong PINs.                                                 *)
(***************************************************************************)
CountFalls == disk'.fails < disk.fails
CountKept  == disk'.fails = disk.fails

LEMMA DeliveryCounts ==
  ASSUME AppInv, NEW s \in Slots, Deliver(s)
  PROVE  CountKept
  <1>1. disk \in Disk
    BY DEF AppInv, TypeOK
  <1>2. CASE PreloginAnswered(s)
    BY <1>1, <1>2 DEF PreloginAnswered, CountKept, Disk
  <1>3. CASE LoginAnswered(s) \/ CodeAnswered(s)
    <2>1. CASE FinishLogin(s)
      BY <1>1, <2>1 DEF FinishLogin, CountKept, Disk
    <2>2. CASE UNCHANGED disk
      BY <2>2 DEF CountKept
    <2> QED
      BY <1>3, <2>1, <2>2 DEF LoginAnswered, CodeAnswered, Reboot
  <1>4. CASE LoginSynced(s) \/ Synced(s)
    BY <1>1, <1>4 DEF LoginSynced, Synced, ApplySyncBlob, SaveBlob, CountKept, Disk
  <1>5. CASE Refreshed(s) \/ WriteRefreshed(s)
    BY <1>1, <1>5 DEF Refreshed, WriteRefreshed, RefreshedTo, CountKept, Disk
  <1>6. CASE WriteSynced(s)
    BY <1>1, <1>6 DEF WriteSynced, SaveBlob, CountKept, Disk
  <1>7. CASE Written(s) \/ Rewritten(s)
    BY <1>7 DEF Written, Rewritten, CountKept
  <1> QED
    BY <1>2, <1>3, <1>4, <1>5, <1>6, <1>7 DEF Deliver

LEMMA UserCounts ==
  ASSUME AppInv, User, DiskFaults = FALSE
  PROVE  CountKept \/ disk'.pin = NoPin
  <1>1. disk \in Disk /\ DiskOutcomes = {TRUE}
    BY DEF AppInv, TypeOK, DiskOutcomes
  <1>2. CASE SignOut
    <2> DEFINE f == ForgetPin(disk, TRUE)
    <2>1. f \in Disk /\ f.pin = NoPin
      BY <1>1, PinEdits, PinForgotten
    <2>2. disk' = [f EXCEPT !.token = NoAccount, !.blob = NoBlob]
      BY <1>1, <1>2 DEF SignOut
    <2> HIDE DEF f
    <2> QED
      BY <2>1, <2>2 DEF Disk
  <1>3. CASE DisablePin
    BY <1>1, <1>3, PinForgotten DEF DisablePin
  <1>4. ASSUME NEW pin \in Pins, UnlockWithPin(pin)
        PROVE  CountKept
    BY <1>1, <1>4 DEF UnlockWithPin, CountKept
  <1>5. CASE \/ \E a \in Accounts : ConfigureAccount(a)
             \/ \E i \in AutoLocks : SetAutoLockMinutes(i)
             \/ \E on \in BOOLEAN : SetLockOnMinimize(on)
    BY <1>1, <1>5 DEF ConfigureAccount, SetAutoLockMinutes, SetLockOnMinimize,
       CountKept, Disk
  <1>6. CASE UNCHANGED disk
    BY <1>6 DEF CountKept
  <1> QED
    BY <1>2, <1>3, <1>4, <1>5, <1>6 DEF User, StartLogin, UnlockCall,
       EnablePin, SubmitTwoFactor, CancelLogin, SyncNow, Write, LockCall

LEMMA UnwrapCounts ==
  ASSUME AppInv, PinUnwrapped, DiskFaults = FALSE, CountFalls
  PROVE  RightPin \/ disk'.pin = NoPin
  <1>1. disk \in Disk /\ pinJob.key \in NoSecret /\ Sound(vault)
    BY DEF AppInv, TypeOK, PinJob, ScreenFits
  <1>2. ForgetPin(disk, TRUE).pin = NoPin
    BY <1>1, PinForgotten
  <1>3. DiskOutcomes = {TRUE}
    BY DEF DiskOutcomes
  <1>4. CASE pinJob.key = NoMaster
    <2>1. disk' = ForgetPin(disk, TRUE) \/ disk' = [disk EXCEPT !.fails = @ + 1]
      BY <1>3, <1>4 DEF PinUnwrapped, WrongPin
    <2>2. disk' # [disk EXCEPT !.fails = @ + 1]
      BY <1>1 DEF CountFalls, Disk
    <2> QED
      BY <1>2, <2>1, <2>2
  <1>5. CASE pinJob.key # NoMaster /\ UnlockSucceeds(vault, pinJob.key)
    <2>1. pinJob.key \in MasterKeys
      BY <1>1, <1>5 DEF NoSecret
    <2>2. vault'.open
      BY <1>1, <1>5, <2>1, UnlockSound DEF PinUnwrapped, TryOpen
    <2> QED
      BY <1>5, <2>2 DEF PinUnwrapped, RightPin
  <1>6. CASE pinJob.key # NoMaster /\ ~UnlockSucceeds(vault, pinJob.key)
    <2>1. disk' = ForgetPin(disk, TRUE)
      BY <1>3, <1>6 DEF PinUnwrapped
    <2> QED
      BY <1>2, <2>1
  <1> QED
    BY <1>4, <1>5, <1>6

(* As long as the disk does what it is asked, the count of wrong PINs falls  *)
(* only with the right PIN, a new PIN or none: unlocking with the password,  *)
(* a re-sync or a restart gives no new attempts.                             *)
THEOREM PinCountAlwaysHonest ==
  ASSUME DiskFaults = FALSE
  PROVE  Spec => PinCountHonest
  <1>1. ASSUME AppInv, [Next]_vars
        PROVE  CountFalls => RightPin \/ disk'.pin = NoPin
    <2> SUFFICES ASSUME CountFalls PROVE RightPin \/ disk'.pin = NoPin
      OBVIOUS
    <2>1. disk.fails \in Int /\ ~CountKept
      BY <1>1 DEF AppInv, TypeOK, Disk, CountFalls, CountKept
    <2>2. CASE UNCHANGED disk
      BY <2>1, <2>2 DEF CountKept
    <2>3. CASE User
      BY <1>1, <2>1, <2>3, UserCounts
    <2>4. CASE \E s \in Slots : Deliver(s)
      BY <1>1, <2>1, <2>4, DeliveryCounts
    <2>5. CASE PinWrapped
      BY <2>5 DEF PinWrapped, RightPin
    <2>6. CASE PinUnwrapped
      BY <1>1, <2>6, UnwrapCounts
    <2> QED
      BY <1>1, <2>2, <2>3, <2>4, <2>5, <2>6 DEF Next, System, Restart, Reboot,
         DeriveFinishes, DeriveDelivers, LoginDerived, UnlockDerived,
         EnablePinDerived, PinFinishes, PinDelivers, AutoLockFires, Minimize,
         Activate, vars
  <1>2. AppInv /\ [Next]_vars
          => [disk'.fails < disk.fails => RightPin \/ disk'.pin = NoPin]_vars
    BY <1>1 DEF CountFalls
  <1> QED
    BY <1>2, AppSound, PTL DEF Spec, PinCountHonest

-----------------------------------------------------------------------------
(***************************************************************************)
(* The context of a login, with any number of requests in flight.           *)
(***************************************************************************)
(* Steps that are not of a login.                                            *)
LoginKinds == {"prelogin", "login", "code", "loginSync"}
NetQuiet ==
  \A s \in Slots : \/ net'[s] = net[s] \/ net'[s] = NoRequest
                   \/ net'[s].kind \notin LoginKinds
LoginQuiet ==
  /\ session'.key = session.key /\ session'.hash = session.hash
  /\ state' = state \/ state' # "twofactor"
  /\ LoginPending' => LoginPending
  /\ NetQuiet

LEMMA QuietKeepsLogin ==
  ASSUME LoginInOrder, LoginQuiet
  PROVE  LoginInOrder'
  <1>1. \A s \in Slots, k \in LoginKinds :
          Waits(s, k)' => Waits(s, k) /\ net'[s] = net[s]
    BY DEF LoginQuiet, NetQuiet, Waits
  <1>2. /\ session'.key = session.key /\ session'.hash = session.hash
        /\ state' = "twofactor" => state = "twofactor"
        /\ LoginPending' => LoginPending
    BY DEF LoginQuiet
  <1>3. LoginContext'
    BY <1>2 DEF LoginInOrder, LoginContext
  <1>4. OwnSecrets' /\ HashSpent'
    BY <1>1, <1>2 DEF LoginInOrder, OwnSecrets, HashSpent, LoginKinds
  <1>5. OneLogin'
    BY <1>1, <1>2 DEF LoginInOrder, OneLogin, Checking, LoginKinds
  <1> QED
    BY <1>3, <1>4, <1>5 DEF LoginInOrder

LEMMA ForwardQuiet ==
  ASSUME AppInv, NEW t \in Slots, NEW r, r.kind \notin LoginKinds, Forward(t, r)
  PROVE  NetQuiet
  BY DEF AppInv, TypeOK, Forward, NetQuiet

LEMMA AnsweredQuiet ==
  ASSUME AppInv, NEW t \in Slots, Answered(t)
  PROVE  NetQuiet
  BY DEF AppInv, TypeOK, Answered, NetQuiet

(* Once nothing of a login is under way but codes and the syncs after them,  *)
(* what is left of the context is the hash.                                  *)
LEMMA NothingChecked ==
  ASSUME ~LoginPending', \A s \in Slots : ~Checking(s)',
         LoginContext', HashSpent'
  PROVE  LoginInOrder'
  BY DEF LoginInOrder, OwnSecrets, OneLogin, Checking

(* Derivations of an unlock or of enablePin.                                 *)
LEMMA DeriveQuiet ==
  ASSUME NEW next \in {"unlock", "enablePin"}, NEW p, NEW k, NEW pin,
         DeriveAsync(next, p, k, pin)
  PROVE  LoginPending' => LoginPending
  BY DEF DeriveAsync, LoginPending

LEMMA UserLogins ==
  ASSUME AppInv, LoginInOrder, User, ~SecondLogin
  PROVE  LoginInOrder'
  <1>0. session \in Session /\ net \in [Slots -> Request \cup {NoRequest}]
    BY DEF AppInv, TypeOK
  <1>1. ASSUME UNCHANGED <<session, derive, net>>,
               state' = state \/ state' # "twofactor"
        PROVE  LoginInOrder'
    BY <1>1, QuietKeepsLogin DEF LoginQuiet, NetQuiet, LoginPending
  <1>2. ASSUME NEW p \in Passwords, StartLogin(p)
        PROVE  LoginInOrder'
    <2>1. PICK t \in Slots :
            net' = [net EXCEPT ![t] = [kind |-> "prelogin",
                      account |-> disk.account, password |-> p]]
      BY <1>2 DEF StartLogin, Send
    <2>2. /\ state = "login" /\ UNCHANGED <<state, session, derive>>
      BY <1>2 DEF StartLogin, Called, Offers, jobs
    <2>3. ~LoginPending /\ \A s \in Slots, k \in LoginKinds : ~Waits(s, k)
      BY <1>2 DEF SecondLogin, LoginUnderWay, LoginKinds
    <2>4. \A s \in Slots : s # t => net'[s] = net[s]
      BY <1>0, <2>1
    <2>5. net'[t].kind = "prelogin"
      BY <1>0, <2>1
    <2>6. \A s \in Slots, k \in LoginKinds : Waits(s, k)' => s = t /\ k = "prelogin"
      BY <2>3, <2>4, <2>5 DEF Waits
    <2>7. ~LoginPending'
      BY <2>2, <2>3 DEF LoginPending
    <2>8. LoginContext' /\ OwnSecrets' /\ HashSpent'
      BY <2>2, <2>6 DEF LoginContext, OwnSecrets, HashSpent, LoginKinds
    <2>9. OneLogin'
      BY <2>2, <2>6, <2>7 DEF OneLogin, Checking, LoginKinds
    <2> QED
      BY <2>8, <2>9 DEF LoginInOrder
  <1>3. ASSUME NEW p \in Passwords, UnlockCall(p)
        PROVE  LoginInOrder'
    <2>1. UNCHANGED <<session, net>> /\ (state' = state \/ state' = "login")
      BY <1>3 DEF UnlockCall
    <2>2. LoginPending' => LoginPending
      BY <1>3, DeriveQuiet DEF UnlockCall, LoginPending
    <2> QED
      BY <2>1, <2>2, QuietKeepsLogin DEF LoginQuiet, NetQuiet
  <1>4. ASSUME NEW p \in Passwords, NEW pin \in Pins, EnablePin(p, pin)
        PROVE  LoginInOrder'
    <2>1. UNCHANGED <<state, session, net>>
      BY <1>4 DEF EnablePin
    <2>2. LoginPending' => LoginPending
      BY <1>4, DeriveQuiet DEF EnablePin
    <2> QED
      BY <2>1, <2>2, QuietKeepsLogin DEF LoginQuiet, NetQuiet
  <1>5. CASE SyncNow \/ Write
    <2>1. UNCHANGED <<state, session, derive>>
      BY <1>5 DEF SyncNow, Write, jobs
    <2>2. NetQuiet
      BY <1>0, <1>5 DEF SyncNow, Write, Send, NetQuiet, LoginKinds
    <2> QED
      BY <2>1, <2>2, QuietKeepsLogin DEF LoginQuiet, LoginPending
  <1>6. CASE CancelLogin
    <2>1. /\ state = "twofactor" /\ state' = "login" /\ UNCHANGED <<derive, net>>
          /\ session'.hash = NoMaster
      BY <1>0, <1>6 DEF CancelLogin, Called, Offers, jobs, Session
    <2>2. ~LoginPending /\ \A s \in Slots : ~Checking(s)
      BY <2>1 DEF LoginInOrder, OneLogin
    <2>3. ~LoginPending' /\ \A s \in Slots : ~Checking(s)'
      BY <2>1, <2>2 DEF LoginPending, Checking, Waits
    <2>4. LoginContext' /\ HashSpent'
      BY <2>1 DEF LoginContext, HashSpent
    <2> QED
      BY <2>3, <2>4, NothingChecked
  <1>7. CASE SignOut
    <2>1. /\ state' = "login" /\ UNCHANGED <<derive, net>>
          /\ session'.key = session.key /\ session'.hash = session.hash
      BY <1>0, <1>7 DEF SignOut, jobs, Session
    <2> QED
      BY <2>1, QuietKeepsLogin DEF LoginQuiet, NetQuiet, LoginPending
  <1>8. CASE LockCall
    BY <1>1, <1>8 DEF LockCall, LockNow, jobs
  <1>9. CASE \/ \E a \in Accounts : ConfigureAccount(a)
             \/ \E pin \in Pins : UnlockWithPin(pin)
             \/ \E i \in AutoLocks : SetAutoLockMinutes(i)
             \/ \E on \in BOOLEAN : SetLockOnMinimize(on)
             \/ DisablePin
    BY <1>1, <1>9 DEF ConfigureAccount, UnlockWithPin, SetAutoLockMinutes,
       SetLockOnMinimize, DisablePin, jobs, ui
  <1>10. CASE SubmitTwoFactor
    <2>1. PICK t \in Slots :
            net' = [net EXCEPT ![t] = [kind |-> "code", account |-> disk.account,
                                       hash |-> session.hash]]
      BY <1>10 DEF SubmitTwoFactor, Send
    <2>2. state = "twofactor" /\ UNCHANGED <<state, session, derive>>
      BY <1>10 DEF SubmitTwoFactor, Called, Offers, jobs
    <2>3. ~LoginPending /\ \A s \in Slots : ~Checking(s)
      BY <2>2 DEF LoginInOrder, OneLogin
    <2>4. \A s \in Slots : net'[s] = net[s] \/ net'[s].kind = "code"
      BY <1>0, <2>1
    <2>5. \A s \in Slots : ~Checking(s)'
      BY <2>3, <2>4 DEF Checking, Waits
    <2>6. \A s \in Slots : Waits(s, "loginSync")' => Waits(s, "loginSync")
      BY <2>4 DEF Waits
    <2>7. LoginContext' /\ HashSpent' /\ ~LoginPending'
      BY <2>2, <2>3, <2>6 DEF LoginInOrder, LoginContext, HashSpent, LoginPending
    <2> QED
      BY <2>5, <2>7, NothingChecked
  <1> QED
    BY <1>2, <1>3, <1>4, <1>5, <1>6, <1>7, <1>8, <1>9, <1>10 DEF User

(* A login whose password is being checked is the only thing of a login      *)
(* under way.                                                                *)
LEMMA CheckedAlone ==
  ASSUME LoginInOrder, NEW s \in Slots, Checking(s)
  PROVE  /\ ~LoginPending /\ state # "twofactor"
         /\ \A t \in Slots : Checking(t) => t = s
         /\ \A t \in Slots : ~Waits(t, "code") /\ ~Waits(t, "loginSync")
  BY DEF LoginInOrder, OneLogin

LEMMA PendingAlone ==
  ASSUME LoginInOrder, LoginPending
  PROVE  /\ state # "twofactor"
         /\ \A t \in Slots, k \in LoginKinds : ~Waits(t, k)
  BY DEF LoginInOrder, OneLogin, Checking, LoginKinds

LEMMA FinishLoginKeepsContext ==
  ASSUME AppInv, LoginInOrder, NEW s \in Slots,
         Waits(s, "login") \/ Waits(s, "code"), FinishLogin(s)
  PROVE  LoginInOrder'
  <1>1. session \in Session /\ net \in [Slots -> Request \cup {NoRequest}]
    BY DEF AppInv, TypeOK
  <1>2. UNCHANGED <<state, derive>> /\ session'.hash = NoMaster
    BY <1>1 DEF FinishLogin, Session, ui, jobs
  <1>3. net'[s].kind = "loginSync" /\ \A t \in Slots : t # s => net'[t] = net[t]
    BY <1>1 DEF FinishLogin, Forward
  <1>4. ~LoginPending /\ \A t \in Slots : Checking(t) => t = s
    BY CheckedAlone DEF Checking, LoginInOrder, OneLogin
  <1>5. ~LoginPending'
    BY <1>2, <1>4 DEF LoginPending
  <1>6. \A t \in Slots : ~Checking(t)'
    BY <1>3, <1>4 DEF Checking, Waits
  <1>7. LoginContext' /\ HashSpent'
    BY <1>2 DEF LoginContext, HashSpent
  <1> QED
    BY <1>5, <1>6, <1>7, NothingChecked

LEMMA PreloginAnsweredKeepsContext ==
  ASSUME AppInv, LoginInOrder, NEW s \in Slots, PreloginAnswered(s)
  PROVE  LoginInOrder'
  <1>1. net \in [Slots -> Request \cup {NoRequest}]
    BY DEF AppInv, TypeOK
  <1>2. /\ UNCHANGED <<state, session>> /\ Waits(s, "prelogin")
        /\ net' = [net EXCEPT ![s] = NoRequest]
    BY DEF PreloginAnswered, Answered
  <1>3. Checking(s)
    BY <1>2 DEF Checking
  <1>4. \A t \in Slots, k \in LoginKinds : ~Waits(t, k)'
    BY <1>1, <1>2, <1>3, CheckedAlone DEF Checking, Waits, LoginKinds
  <1>5. state' # "twofactor"
    BY <1>2, <1>3, CheckedAlone
  <1> QED
    BY <1>4, <1>5 DEF LoginInOrder, LoginContext, OwnSecrets, OneLogin, Checking,
       HashSpent, LoginKinds

LEMMA LoginDerivedKeepsContext ==
  ASSUME AppInv, LoginInOrder, LoginDerived
  PROVE  LoginInOrder'
  <1>1. /\ session \in Session /\ derive \in Derive
        /\ net \in [Slots -> Request \cup {NoRequest}]
    BY DEF AppInv, TypeOK
  <1>2. LoginPending /\ state' = state /\ ~LoginPending'
    BY <1>1 DEF LoginDerived, LoginPending, IdleDerive, Derive
  <1>3. state # "twofactor" /\ \A t \in Slots, k \in LoginKinds : ~Waits(t, k)
    BY <1>2, PendingAlone
  <1>4. CASE UNCHANGED <<session, net>>
    BY <1>2, <1>4, QuietKeepsLogin DEF LoginQuiet, NetQuiet
  <1>5. CASE /\ session' = [session EXCEPT !.key = derive.key]
             /\ Send([kind |-> "login", account |-> disk.account,
                      hash |-> derive.key])
    <2> DEFINE r == [kind |-> "login", account |-> disk.account,
                     hash |-> derive.key]
    <2>1. PICK t \in Slots : net' = [net EXCEPT ![t] = r]
      BY <1>5 DEF Send
    <2>2. net'[t] = r /\ \A u \in Slots : u # t => net'[u] = net[u]
      BY <1>1, <2>1
    <2>3. net'[t].kind = "login" /\ net'[t].hash = derive.key
      BY <2>2
    <2> HIDE DEF r
    <2>4. \A u \in Slots, k \in LoginKinds : Waits(u, k)' => u = t /\ k = "login"
      BY <1>3, <2>2, <2>3 DEF Waits
    <2>5. session'.key = derive.key
      BY <1>1, <1>5 DEF Session
    <2>6. LoginContext' /\ HashSpent'
      BY <1>2, <1>3, <2>4 DEF LoginContext, HashSpent, LoginKinds
    <2>7. OwnSecrets'
      BY <2>3, <2>4, <2>5 DEF OwnSecrets, LoginKinds
    <2>8. OneLogin'
      BY <1>2, <1>3, <2>4 DEF OneLogin, Checking, LoginKinds
    <2> QED
      BY <2>6, <2>7, <2>8 DEF LoginInOrder
  <1> QED
    BY <1>4, <1>5 DEF LoginDerived

LEMMA RebootKeepsContext ==
  ASSUME AppInv, Reboot
  PROVE  LoginInOrder'
  <1>1. PICK readable \in DiskOutcomes : state' = Booted(disk, readable).state
    BY DEF Reboot
  <1>2. disk \in Disk /\ readable \in BOOLEAN
    BY OutcomesAreBoolean DEF AppInv, TypeOK
  <1>3. state' # "twofactor"
    BY <1>1, <1>2, BootedFits
  <1>4. \A s \in Slots, k \in LoginKinds : ~Waits(s, k)'
    BY DEF Reboot, Waits
  <1> QED
    BY <1>3, <1>4 DEF LoginInOrder, LoginContext, OwnSecrets, OneLogin, Checking,
       HashSpent, LoginKinds

(* The code is asked for: the hash to be submitted is that of the request    *)
(* the server has just accepted.                                             *)
LEMMA LoginAnsweredKeepsContext ==
  ASSUME AppInv, LoginInOrder, NEW s \in Slots, LoginAnswered(s)
  PROVE  LoginInOrder'
  <1>1. session \in Session /\ net \in [Slots -> Request \cup {NoRequest}]
    BY DEF AppInv, TypeOK
  <1>2. Waits(s, "login") /\ Checking(s)
    BY DEF LoginAnswered, Checking
  <1>3. /\ session.key = net[s].hash /\ ~LoginPending /\ state # "twofactor"
        /\ \A t \in Slots : t # s => \A k \in LoginKinds : ~Waits(t, k)
    BY <1>2, CheckedAlone DEF LoginInOrder, OwnSecrets, Checking, LoginKinds
  <1>4. ASSUME Answered(s), UNCHANGED derive
        PROVE  ~LoginPending' /\ \A t \in Slots, k \in LoginKinds : ~Waits(t, k)'
    BY <1>1, <1>3, <1>4 DEF Answered, Waits, LoginPending
  <1>5. CASE FinishLogin(s)
    BY <1>2, <1>5, FinishLoginKeepsContext
  <1>6. CASE Reboot
    BY <1>6, RebootKeepsContext
  <1>7. CASE /\ Accepts(net[s]) /\ session' = [session EXCEPT !.hash = session.key]
             /\ Answered(s) /\ UNCHANGED derive
    <2>1. session'.hash = session'.key /\ session'.key = net[s].hash
      BY <1>1, <1>3, <1>7 DEF Session
    <2>2. session'.key \in ServerKeys
      BY <1>7, <2>1 DEF Accepts
    <2> QED
      BY <1>4, <1>7, <2>1, <2>2, NothingChecked DEF LoginContext, HashSpent,
         Checking, LoginKinds
  <1>8. CASE Answered(s) /\ UNCHANGED <<state, derive>>
    BY <1>3, <1>4, <1>8, NothingChecked DEF LoginContext, HashSpent, Checking,
       LoginKinds
  <1> QED
    BY <1>5, <1>6, <1>7, <1>8 DEF LoginAnswered, jobs

(* What an answer does to page, secrets and derivation.                      *)
LEMMA ApplyContext ==
  ASSUME AppInv, NEW a \in Answers, NEW fresh \in BOOLEAN, ApplySyncBlob(a, fresh)
  PROVE  /\ state' = state \/ state' # "twofactor"
         /\ session'.hash = session.hash
         /\ LoginPending' => LoginPending
         /\ ~fresh => session' = session /\ derive' = derive
  <1>1. session \in Session /\ derive \in Derive
    BY DEF AppInv, TypeOK
  <1>2. CASE Reload(a) /\ UNCHANGED <<session, derive>>
    BY <1>2 DEF Reload, LoginPending
  <1>3. CASE UNCHANGED <<state, session, derive>>
    BY <1>3 DEF LoginPending
  <1>4. CASE UnlocksRightAway(fresh) /\ LoadAndOpen(a)
    <2>1. state' # "twofactor" /\ session'.hash = session.hash /\ fresh
      BY <1>1, <1>4 DEF LoadAndOpen, UnlocksRightAway, Session
    <2>2. LoginPending' => LoginPending
      BY <1>4 DEF LoadAndOpen, LoginPending, IdleDerive
    <2> QED
      BY <2>1, <2>2
  <1>5. CASE state' = "locked" /\ UNCHANGED <<session, derive>>
    BY <1>5 DEF LoginPending
  <1> QED
    BY <1>2, <1>3, <1>4, <1>5 DEF ApplySyncBlob

LEMMA LoginSyncedKeepsContext ==
  ASSUME AppInv, LoginInOrder, NEW s \in Slots, LoginSynced(s)
  PROVE  LoginInOrder'
  <1>1. session \in Session /\ net \in [Slots -> Request \cup {NoRequest}]
    BY DEF AppInv, TypeOK
  <1>2. session.hash = NoMaster /\ ~LoginPending /\ \A t \in Slots : ~Checking(t)
    BY DEF LoginSynced, LoginInOrder, HashSpent, OneLogin
  <1>3. \A t \in Slots, k \in LoginKinds : Waits(t, k)' => Waits(t, k)
    BY <1>1 DEF LoginSynced, Answered, Waits
  <1>4. session'.hash = session.hash /\ (LoginPending' => LoginPending)
    <2>1. CASE /\ session' = [session EXCEPT !.key = NoMaster]
               /\ UNCHANGED derive
      BY <1>1, <2>1 DEF Session, LoginPending
    <2>2. ASSUME NEW a \in SyncAnswers(net[s].token), ApplySyncBlob(a, TRUE)
          PROVE  session'.hash = session.hash /\ (LoginPending' => LoginPending)
      BY <2>2, ApplyContext DEF SyncAnswers
    <2> QED
      BY <2>1, <2>2 DEF LoginSynced
  <1>5. \A t \in Slots : ~Checking(t)'
    BY <1>2, <1>3 DEF Checking, LoginKinds
  <1>6. LoginContext' /\ HashSpent'
    BY <1>2, <1>4 DEF LoginContext, HashSpent
  <1> QED
    BY <1>2, <1>4, <1>5, <1>6, NothingChecked

LEMMA DeliveryKeepsContext ==
  ASSUME AppInv, LoginInOrder, NEW s \in Slots, Deliver(s)
  PROVE  LoginInOrder'
  <1>1. session \in Session
    BY DEF AppInv, TypeOK
  <1>2. CASE PreloginAnswered(s)
    BY <1>2, PreloginAnsweredKeepsContext
  <1>3. CASE LoginAnswered(s)
    BY <1>3, LoginAnsweredKeepsContext
  <1>4. CASE CodeAnswered(s)
    <2>1. CASE FinishLogin(s)
      BY <1>4, <2>1, FinishLoginKeepsContext DEF CodeAnswered
    <2>2. CASE Answered(s) /\ UNCHANGED <<state, session, derive>>
      BY <2>2, AnsweredQuiet, QuietKeepsLogin DEF LoginQuiet, LoginPending
    <2> QED
      BY <1>4, <2>1, <2>2 DEF CodeAnswered, jobs
  <1>5. CASE LoginSynced(s)
    BY <1>5, LoginSyncedKeepsContext
  <1>6. CASE Refreshed(s) \/ WriteRefreshed(s)
    <2>1. /\ session'.key = session.key /\ session'.hash = session.hash
          /\ UNCHANGED derive /\ (state' = state \/ state' = "login")
      BY <1>1, <1>6 DEF Refreshed, WriteRefreshed, RefreshedTo, Session, jobs
    <2>2. NetQuiet
      BY <1>6, AnsweredQuiet, ForwardQuiet DEF Refreshed, WriteRefreshed, LoginKinds
    <2> QED
      BY <2>1, <2>2, QuietKeepsLogin DEF LoginQuiet, LoginPending
  <1>7. CASE Synced(s)
    <2>1. NetQuiet
      BY <1>7, AnsweredQuiet DEF Synced
    <2>2. UNCHANGED <<session, derive>> /\ (state' = state \/ state' # "twofactor")
      BY <1>7, ApplyContext DEF Synced, SyncAnswers
    <2> QED
      BY <2>1, <2>2, QuietKeepsLogin DEF LoginQuiet, LoginPending
  <1>8. CASE Written(s) \/ Rewritten(s)
    <2>1. UNCHANGED <<state, session, derive>>
      BY <1>8 DEF Written, Rewritten, jobs
    <2>2. NetQuiet
      BY <1>8, AnsweredQuiet, ForwardQuiet DEF Written, Rewritten, FinishWrite,
         RefreshThenWrite, LoginKinds
    <2> QED
      BY <2>1, <2>2, QuietKeepsLogin DEF LoginQuiet, LoginPending
  <1>9. CASE WriteSynced(s)
    <2>1. UNCHANGED <<session, derive>> /\ (state' = state \/ state' = "locked")
      BY <1>9 DEF WriteSynced, Reload, jobs
    <2>2. NetQuiet
      BY <1>9, AnsweredQuiet DEF WriteSynced
    <2> QED
      BY <2>1, <2>2, QuietKeepsLogin DEF LoginQuiet, LoginPending
  <1> QED
    BY <1>2, <1>3, <1>4, <1>5, <1>6, <1>7, <1>8, <1>9 DEF Deliver

LEMMA SystemKeepsContext ==
  ASSUME AppInv, LoginInOrder, System
  PROVE  LoginInOrder'
  <1>1. derive \in Derive
    BY DEF AppInv, TypeOK
  <1>2. ASSUME UNCHANGED <<session, net>>, LoginPending' => LoginPending,
               state' = state \/ state' # "twofactor"
        PROVE  LoginInOrder'
    BY <1>2, QuietKeepsLogin DEF LoginQuiet, NetQuiet
  <1>3. CASE \E s \in Slots : Deliver(s)
    BY <1>3, DeliveryKeepsContext
  <1>4. CASE LoginDerived
    BY <1>4, LoginDerivedKeepsContext
  <1>5. CASE UnlockDerived
    <2>1. ~LoginPending' /\ UNCHANGED <<session, net>>
      BY <1>5 DEF UnlockDerived, LoginPending, IdleDerive
    <2>2. state' = state \/ state' # "twofactor"
      BY <1>5 DEF UnlockDerived, TryOpen, StateAfter
    <2> QED
      BY <1>2, <2>1, <2>2
  <1>6. CASE EnablePinDerived
    <2>1. UNCHANGED state /\ UNCHANGED <<session, net>>
      BY <1>6 DEF EnablePinDerived
    <2>2. derive'.phase = "idle"
      <3>1. IdleDerive.phase = "idle"
        BY DEF IdleDerive
      <3>2. [derive EXCEPT !.phase = "idle", !.pin = NoPin].phase = "idle"
        BY <1>1 DEF Derive
      <3>3. \/ derive' = IdleDerive
            \/ derive' = [derive EXCEPT !.phase = "idle", !.pin = NoPin]
        <4>1. CASE derive.key = NoMaster
          BY <1>6, <4>1 DEF EnablePinDerived
        <4>2. CASE derive.key # NoMaster
          BY <1>6, <4>2 DEF EnablePinDerived
        <4> QED
          BY <4>1, <4>2
      <3> QED
        BY <3>1, <3>2, <3>3
    <2>3. LoginPending' => LoginPending
      BY <2>2 DEF LoginPending
    <2> QED
      BY <1>2, <2>1, <2>3
  <1>7. CASE DeriveFinishes
    <2>1. (LoginPending' => LoginPending) /\ UNCHANGED <<state, session, net>>
      BY <1>1, <1>7 DEF DeriveFinishes, LoginPending, Derive, ui
    <2> QED
      BY <1>2, <2>1
  <1>8. CASE PinFinishes \/ PinWrapped \/ PinUnwrapped
    <2>1. UNCHANGED <<derive, session, net>>
      BY <1>8 DEF PinFinishes, PinWrapped, PinUnwrapped
    <2>2. state' = state \/ state' # "twofactor"
      BY <1>8 DEF PinFinishes, PinWrapped, PinUnwrapped, TryOpen, StateAfter, ui
    <2> QED
      BY <1>2, <2>1, <2>2 DEF LoginPending
  <1>9. CASE AutoLockFires \/ Minimize \/ Activate
    <2>1. UNCHANGED <<derive, session, net>>
      BY <1>9 DEF AutoLockFires, Minimize, Activate, jobs
    <2>2. state' = state \/ state' # "twofactor"
      BY <1>9 DEF AutoLockFires, Minimize, Activate, LockNow, StateAfter
    <2> QED
      BY <1>2, <2>1, <2>2 DEF LoginPending
  <1> QED
    BY <1>3, <1>4, <1>5, <1>6, <1>7, <1>8, <1>9 DEF System, DeriveDelivers,
       PinDelivers

LEMMA LoginStepKeeps ==
  ASSUME AppInv, LoginInOrder, [Next]_vars, ~SecondLogin
  PROVE  LoginInOrder'
  <1>1. CASE UNCHANGED vars
    BY <1>1, QuietKeepsLogin DEF vars, LoginQuiet, NetQuiet, LoginPending
  <1> QED
    BY <1>1, UserLogins, SystemKeepsContext, RebootKeepsContext DEF Next, Restart

LEMMA NoLoginAtStart ==
  ASSUME Init
  PROVE  LoginInOrder
  <1>1. PICK d \in Disks, readable \in DiskOutcomes :
          state = Booted(d, readable).state
    BY DEF Init
  <1>2. d \in Disk /\ readable \in BOOLEAN
    BY ControllerAssumption, OutcomesAreBoolean
  <1>3. state # "twofactor"
    BY <1>1, <1>2, BootedFits
  <1>4. \A s \in Slots, k \in LoginKinds : ~Waits(s, k)
    BY DEF Init, Waits
  <1> QED
    BY <1>3, <1>4 DEF LoginInOrder, LoginContext, OwnSecrets, OneLogin, Checking,
       HashSpent, LoginKinds

(* Only a login started while another is under way upsets the context the    *)
(* logins share, with any number of requests in flight, for every number of  *)
(* accounts, passwords and KDFs, with derivations refused, replaced or late. *)
THEOREM SecondLoginUpsets == Spec => OnlySecondLoginUpsets
  <1>1. AppInv /\ [Next]_vars
          => [LoginInOrder /\ ~SecondLogin => LoginInOrder']_vars
    BY LoginStepKeeps
  <1> QED
    BY <1>1, NoLoginAtStart, AppSound, PTL DEF Spec, OnlySecondLoginUpsets

(* So while no login is started over another, the hash and secrets pending   *)
(* when a code is asked for are those of one password the server accepted.   *)
THEOREM LoginInContext == Spec /\ [][~SecondLogin]_vars => []LoginContext
  <1>1. LoginInOrder /\ UNCHANGED vars => LoginInOrder'
    BY QuietKeepsLogin DEF vars, LoginQuiet, NetQuiet, LoginPending
  <1>2. LoginInOrder => LoginContext
    BY DEF LoginInOrder
  <1> QED
    BY <1>1, <1>2, SecondLoginUpsets, PTL DEF OnlySecondLoginUpsets
=============================================================================
