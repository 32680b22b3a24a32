---------------------------- MODULE VaultProofs -----------------------------
(***************************************************************************)
(* The invariants of module Vault for every set of keys, items, answers and *)
(* auto-lock intervals.  The inductive invariant is Sound(vault), of which  *)
(* each of them is a part; it is needed whole because what a reload shows   *)
(* depends on the key the vault already holds.                              *)
(***************************************************************************)
EXTENDS Vault, VaultOpsProofs

(* The inductive invariant of the module.                                    *)
IInv == Sound(vault)

(* A new vault object, whatever its auto-lock interval, is sound.            *)
LEMMA InitSound == Init => IInv
  <1> SUFFICES ASSUME NEW i \in Intervals, vault = FreshVault(i)
               PROVE  IInv
    BY DEF Init
  <1> QED
    BY IntervalsAssumption, FreshVaultSound DEF IInv

(* One call, one tick or one expiry keeps the vault sound, and a vault open  *)
(* before and after it has kept its protected key.                           *)
LEMMA NextSound ==
  ASSUME IInv, [Next]_vault
  PROVE  /\ IInv'
         /\ vault.open /\ vault'.open => vault'.data.key = vault.data.key
  <1> USE DEF IInv
  <1>0. Answers \subseteq SyncData \cup {Garbage} /\ Intervals \subseteq Nat
    BY DataAssumption, IntervalsAssumption
  <1>1. ASSUME NEW a \in Answers, CallLoadSync(a)
        PROVE  Sound(vault') /\ (vault'.open => vault' = vault)
    <2>1. CASE a = Garbage
      BY <1>1, <2>1 DEF CallLoadSync, LoadSync
    <2>2. CASE a # Garbage
      <3>1. Sound(LoadSync(vault, a)) /\ ~LoadSync(vault, a).open
        BY <1>0, <2>2, LoadSyncSound
      <3> QED
        BY <1>1, <3>1 DEF CallLoadSync
    <2> QED
      BY <2>1, <2>2
  <1>2. ASSUME NEW m \in MasterKeys, CallUnlock(m)
        PROVE  Sound(vault') /\ vault'.data = vault.data
    BY <1>2, UnlockSound DEF CallUnlock
  <1>3. ASSUME NEW a \in Answers, CallReloadSync(a)
        PROVE  /\ Sound(vault')
               /\ vault'.open => vault'.data.key = vault.data.key
    BY <1>0, <1>3, ReloadSound DEF CallReloadSync
  <1>4. ASSUME CallLock
        PROVE  Sound(vault') /\ ~vault'.open
    BY <1>4, LockSound DEF CallLock, Sound
  <1>5. ASSUME NEW i \in Intervals, CallSetAutoLock(i)
        PROVE  Sound(vault') /\ vault'.data = vault.data
    BY <1>0, <1>5, SetAutoLockSound DEF CallSetAutoLock
  <1>6. ASSUME CallNoteActivity
        PROVE  Sound(vault') /\ vault'.data = vault.data
    BY <1>6, NoteActivitySound DEF CallNoteActivity
  <1>7. ASSUME Tick
        PROVE  Sound(vault') /\ vault'.data = vault.data
    BY <1>7, TickedSound DEF Tick
  <1>8. ASSUME AutoLockFires
        PROVE  Sound(vault') /\ ~vault'.open
    BY <1>8, LockSound DEF AutoLockFires, Sound
  <1>9. CASE UNCHANGED vault
    BY <1>9
  <1> QED
    BY <1>1, <1>2, <1>3, <1>4, <1>5, <1>6, <1>7, <1>8, <1>9 DEF Next

(* Every reachable vault object is well typed and consistent.                *)
THEOREM VaultSound == Spec => []IInv
  <1>1. IInv /\ [Next]_vault => IInv'
    BY NextSound
  <1> QED
    BY <1>1, InitSound, PTL DEF Spec

(* The members of the class keep their types.                                *)
THEOREM TypeCorrect == Spec => []TypeOK
  <1>1. IInv => TypeOK
    BY DEF IInv, Sound, TypeOK
  <1> QED
    BY <1>1, VaultSound, PTL

(* Whatever is called in whatever order, a locked vault holds no key and no  *)
(* plaintext, and its timer is off.                                          *)
THEOREM LockForgets == Spec => []LockedHoldsNothing
  <1>1. IInv => LockedHoldsNothing
    BY DEF IInv, Sound, Consistent, LockedHoldsNothing
  <1> QED
    BY <1>1, VaultSound, PTL

(* The user key of an open vault is always the one its loaded data needs.    *)
THEOREM KeyAlwaysFits == Spec => []KeyFitsData
  <1>1. IInv => KeyFitsData
    BY DEF IInv, Sound, Consistent, KeyFitsData
  <1> QED
    BY <1>1, VaultSound, PTL

(* An open vault shows all it can and nothing else.                          *)
THEOREM NeverPartial == Spec => []NothingPartial
  <1>1. IInv => NothingPartial
    BY DEF IInv, Sound, Consistent, NothingPartial
  <1> QED
    BY <1>1, VaultSound, PTL

(* An open vault with an auto-lock interval always has its timer running.    *)
THEOREM TimerNeverLost == Spec => []AutoLockArmed
  <1>1. IInv => AutoLockArmed
    BY DEF IInv, Sound, Consistent, AutoLockArmed
  <1> QED
    BY <1>1, VaultSound, PTL

(* A vault that stays open keeps the protected key it was opened with.       *)
THEOREM RotationAlwaysLocks == Spec => RotationLocks
  <1>1. IInv /\ [Next]_vault
        => [vault.open /\ vault'.open
              => vault'.data.key = vault.data.key]_vault
    BY NextSound
  <1> QED
    BY <1>1, VaultSound, PTL DEF Spec, RotationLocks
=============================================================================
