------------------------------- MODULE Vault --------------------------------
(***************************************************************************)
(* The lock/unlock life cycle of Vault::Vault under an arbitrary caller:    *)
(* the caller loads and reloads sync answers, unlocks with right and wrong  *)
(* master keys, locks, reports activity and changes the auto-lock setting   *)
(* in any order, while the auto-lock timer runs.                            *)
(***************************************************************************)
EXTENDS VaultOps

CONSTANTS Intervals      \* auto-lock settings in ticks, 0 meaning "Never"

ASSUME IntervalsAssumption == Intervals \subseteq Nat /\ Intervals # {}

VARIABLE vault

Init == \E i \in Intervals : vault = FreshVault(i)

CallLoadSync(a)    == vault' = LoadSync(vault, a)
CallUnlock(m)      == vault' = UnlockWithMasterKey(vault, m)
CallReloadSync(a)  == vault' = ReloadSync(vault, a)
CallLock           == vault' = Lock(vault)
CallSetAutoLock(i) == vault' = SetAutoLock(vault, i)
CallNoteActivity   == vault' = NoteActivity(vault)
Tick               == TimerTicks(vault) /\ vault' = Ticked(vault)
AutoLockFires      == TimerDue(vault) /\ vault' = Lock(vault)

Next ==
  \/ \E a \in Answers : CallLoadSync(a) \/ CallReloadSync(a)
  \/ \E m \in MasterKeys : CallUnlock(m)
  \/ \E i \in Intervals : CallSetAutoLock(i)
  \/ CallLock
  \/ CallNoteActivity
  \/ Tick
  \/ AutoLockFires

(* Time passes and an expired timer's slot runs; no caller has to call.      *)
Spec == Init /\ [][Next]_vault /\ WF_vault(Tick) /\ WF_vault(AutoLockFires)

-----------------------------------------------------------------------------
(* The members of the class keep their types.                                *)
TypeOK == vault \in VaultState

(* A locked vault holds no user key, no private key, no organization key, no *)
(* item and no folder name, and its auto-lock timer is off                   *)
(* (Vault::lock; doc/ARCHITECTURE.md:56).                                    *)
LockedHoldsNothing == ~vault.open => HoldsNothing(vault)

(* The user key of an open vault is the one the loaded protected key holds:  *)
(* however often the contents are replaced by re-syncs, the key in memory    *)
(* fits them (reloadSync's comparison of the protected keys).                *)
KeyFitsData == vault.open => HoldsItsKey(vault)

(* What an open vault displays is exactly what its data and its keys allow:  *)
(* nothing left over from an earlier sync, nothing missing because an unlock *)
(* or a reload stopped half-way (vault.h:13, "nothing partial").             *)
NothingPartial == vault.open => ShowsAllItHolds(vault)

(* An open vault with an auto-lock interval has its timer running and due no *)
(* later than the interval; without one the timer is off.                    *)
AutoLockArmed == vault.open => TimerArmed(vault)

(* A vault that stays open never changes the protected key it was opened     *)
(* with: a re-sync that brings another one locks (vault.h:63-67).            *)
RotationLocks ==
  [][vault.open /\ vault'.open => vault'.data.key = vault.data.key]_vault

(* Once the caller stops unlocking, touching and reconfiguring the vault, it *)
(* locks for good unless auto-lock is off - re-syncs in the background do    *)
(* not count as activity.                                                    *)
Background    == Tick \/ AutoLockFires \/ \E a \in Answers : CallReloadSync(a)
IdleVaultLocks ==
  <>[][Background]_vault => <>[](~vault.open \/ vault.interval = 0)

(* "One bad item must not make the whole vault unreadable"                   *)
(* (syncparser.h:28-29): when nothing but items is damaged, the master key   *)
(* that wraps the loaded protected key unlocks the vault.                    *)
OneBadItemIsSkipped ==
  LET d == vault.data IN
  /\ d # NoData
  /\ d.key.holds # BadKey /\ d.privateKey # "bad"
  /\ d.folders \cap BadFolders = {}
  => UnlockSucceeds(vault, d.key.wrap)
=============================================================================
