--------------------------- MODULE VaultOpsProofs ---------------------------
(***************************************************************************)
(* Every operation of the vault maps a well-typed, consistent vault object  *)
(* to a well-typed, consistent one.  These lemmas are about the operators   *)
(* of VaultOps; the theorems of VaultProofs and AppControllerProofs rest on *)
(* them.                                                                    *)
(***************************************************************************)
EXTENDS VaultOps, TLAPS

(* Shorthand of the lemmas: what every operation keeps.                      *)
Sound(v) == v \in VaultState /\ Consistent(v)

(* A new vault object is sound.                                              *)
LEMMA FreshVaultSound ==
  ASSUME NEW seconds \in Nat
  PROVE  Sound(FreshVault(seconds))
  BY KeysAssumption DEF Sound, FreshVault, VaultState, Consistent,
     HoldsNothing, Stopped

(* Locking yields a sound vault whatever was held, and keeps data, interval. *)
LEMMA LockSound ==
  ASSUME NEW v \in VaultState
  PROVE  /\ Sound(Lock(v))
         /\ ~Lock(v).open
         /\ Lock(v).data = v.data
         /\ Lock(v).interval = v.interval
  BY KeysAssumption DEF Sound, Lock, VaultState, Consistent, HoldsNothing,
     Stopped

(* What the parser keeps of an answer is sync data with the same keys.       *)
LEMMA ParseType ==
  ASSUME NEW a \in SyncData
  PROVE  /\ Parse(a) \in SyncData
         /\ Parse(a).key = a.key
         /\ Parse(a) # NoData
  <1>1. Parse(a) \in SyncData
    BY DEF Parse, SyncData
  <1>2. Parse(a).key = a.key
    BY DEF Parse, SyncData
  <1> QED
    BY <1>1, <1>2, DataAssumption

(* Loading a sync answer locks the vault, or changes nothing.                *)
LEMMA LoadSyncSound ==
  ASSUME NEW v, Sound(v), NEW a \in SyncData \cup {Garbage}
  PROVE  /\ Sound(LoadSync(v, a))
         /\ a # Garbage => ~LoadSync(v, a).open /\ LoadSync(v, a).data # NoData
  <1>1. CASE a = Garbage
    BY <1>1 DEF LoadSync
  <1>2. CASE a # Garbage
    <2>1. v \in VaultState
      BY DEF Sound
    <2>2. a \in SyncData
      BY <1>2
    <2>3. LoadSync(v, a) = [Lock(v) EXCEPT !.data = Parse(a)]
      BY <1>2 DEF LoadSync
    <2>4. Parse(a) \in SyncData /\ Parse(a) # NoData
      BY <2>2, ParseType
    <2>5. Lock(v) \in VaultState /\ HoldsNothing(Lock(v)) /\ ~Lock(v).open
      BY <2>1, LockSound DEF Sound, Consistent
    <2>6. /\ LoadSync(v, a) \in VaultState
          /\ LoadSync(v, a).data = Parse(a)
          /\ ~LoadSync(v, a).open
          /\ HoldsNothing(LoadSync(v, a))
      BY <2>3, <2>4, <2>5 DEF VaultState, HoldsNothing
    <2> QED
      BY <2>4, <2>6 DEF Sound, Consistent
  <1> QED
    BY <1>1, <1>2

(* Decrypting the display data of a vault that holds data keeps its type.    *)
LEMMA RebuiltType ==
  ASSUME NEW v \in VaultState, v.data # NoData
  PROVE  Rebuilt(v) \in VaultState
  <1>1. v.data \in SyncData
    BY DEF VaultState
  <1>2. /\ v.data.orgs \subseteq Orgs /\ v.data.folders \subseteq Folders
        /\ v.data.ciphers \subseteq Cipher
    BY <1>1 DEF SyncData
  <1>3. HasPrivateKey(v) \in BOOLEAN
    BY DEF HasPrivateKey, VaultState
  <1>4. OrgKeysOf(v) \subseteq Orgs
    BY <1>2 DEF OrgKeysOf, VaultState
  <1>5. Displayable(v) \subseteq Cipher
    BY <1>2 DEF Displayable
  <1>6. /\ v.folders \cup v.data.folders \subseteq Folders
        /\ v.items \cup Displayable(v) \subseteq Cipher
    BY <1>2, <1>5 DEF VaultState
  <1> QED
    BY <1>3, <1>4, <1>6 DEF Rebuilt, VaultState

(* Decrypting into an emptied vault shows all it holds: the organization     *)
(* keys it ends with are those the displayed set was computed from.          *)
LEMMA RebuiltShowsAll ==
  ASSUME NEW v \in VaultState, v.data # NoData,
         v.orgKeys = {}, v.items = {}, v.folders = {},
         ~RebuildThrows(v)
  PROVE  ShowsAllItHolds(Rebuilt(v))
  <1> DEFINE w == Rebuilt(v)
  <1>1. /\ w.data = v.data /\ w.userKey = v.userKey
        /\ w.privateKey = HasPrivateKey(v)
        /\ w.orgKeys = OrgKeysOf(v)
        /\ w.items = Displayable(v)
        /\ w.folders = v.data.folders
    BY DEF Rebuilt, VaultState
  <1>2. HasPrivateKey(w) = HasPrivateKey(v)
    BY <1>1 DEF HasPrivateKey, VaultState
  <1>3. OrgKeysOf(w) = OrgKeysOf(v) /\ OrgKeysOf(v) \subseteq v.data.orgs
    BY <1>1, <1>2 DEF OrgKeysOf
  <1>4. \A c : CipherKeyResolves(w, c) <=> CipherKeyResolves(v, c)
    BY <1>1, <1>3 DEF CipherKeyResolves, OwnerKeyFits, FitsUserKey
  <1>5. Displayable(w) = Displayable(v)
    BY <1>1, <1>4 DEF Displayable
  <1>6. v.data.ciphers \subseteq Cipher
    BY DEF VaultState, SyncData
  <1>7. \A c \in Displayable(v) : c \in Cipher /\ c.display # "bad"
    BY <1>6 DEF RebuildThrows, Displayable
  <1>8. \A c \in Displayable(v) : c.display = "ok"
    BY <1>7 DEF Cipher
  <1> QED
    BY <1>1, <1>3, <1>5, <1>8 DEF ShowsAllItHolds

(* The emptied vault with the user key of its protected key in place.        *)
LEMMA WithUserKeyType ==
  ASSUME NEW v \in VaultState, v.data # NoData
  PROVE  LET w == WithUserKey(v) IN
         /\ w \in VaultState
         /\ w.data = v.data /\ w.interval = v.interval
         /\ w.userKey = v.data.key.holds
         /\ w.orgKeys = {} /\ w.items = {} /\ w.folders = {}
         /\ w.timer = Stopped
  <1>1. v.data.key.holds \in UserKeys \cup {BadKey}
    BY DEF VaultState, SyncData, ProtectedKey
  <1>2. Lock(v) \in VaultState
    BY LockSound DEF Sound
  <1> QED
    BY <1>1, <1>2 DEF WithUserKey, Lock, VaultState

(* Opening a vault from display data just decrypted: sound, and armed.       *)
LEMMA OpenedSound ==
  ASSUME NEW v \in VaultState, v.data # NoData,
         v.userKey \in UserKeys, FitsUserKey(v),
         v.orgKeys = {}, v.items = {}, v.folders = {}, v.timer = Stopped,
         ~RebuildThrows(v)
  PROVE  LET w == Armed([Rebuilt(v) EXCEPT !.open = TRUE]) IN
         /\ Sound(w) /\ w.open
         /\ w.data = v.data /\ w.interval = v.interval
  <1> DEFINE r == Rebuilt(v)
             o == [r EXCEPT !.open = TRUE]
             w == Armed(o)
  <1>1. r \in VaultState /\ ShowsAllItHolds(r)
    BY RebuiltType, RebuiltShowsAll
  <1>2. /\ r.data = v.data /\ r.userKey = v.userKey
        /\ r.timer = Stopped /\ r.interval = v.interval
    BY DEF Rebuilt, VaultState
  <1>3. /\ o \in VaultState /\ o.open /\ o.data = r.data
        /\ o.userKey = r.userKey /\ o.privateKey = r.privateKey
        /\ o.orgKeys = r.orgKeys /\ o.items = r.items
        /\ o.folders = r.folders /\ o.timer = Stopped
        /\ o.interval = r.interval
    BY <1>1, <1>2 DEF VaultState
  <1>4. /\ w \in VaultState /\ w.open /\ w.data = o.data
        /\ w.userKey = o.userKey /\ w.privateKey = o.privateKey
        /\ w.orgKeys = o.orgKeys /\ w.items = o.items
        /\ w.folders = o.folders /\ w.interval = o.interval
        /\ w.timer = IF w.interval > 0 THEN w.interval ELSE Stopped
    BY <1>3 DEF Armed, VaultState
  <1>5. HoldsItsKey(w)
    BY <1>2, <1>3, <1>4 DEF HoldsItsKey, FitsUserKey
  <1>6. \A c : CipherKeyResolves(w, c) <=> CipherKeyResolves(r, c)
    BY <1>3, <1>4 DEF CipherKeyResolves, OwnerKeyFits, FitsUserKey,
       OrgKeysOf, HasPrivateKey
  <1>7. Displayable(w) = Displayable(r)
    BY <1>3, <1>4, <1>6 DEF Displayable
  <1>8. ShowsAllItHolds(w)
    BY <1>1, <1>3, <1>4, <1>7 DEF ShowsAllItHolds
  <1>9. TimerArmed(w)
    BY <1>4 DEF TimerArmed, VaultState, Stopped
  <1> QED
    BY <1>2, <1>3, <1>4, <1>5, <1>8, <1>9 DEF Sound, Consistent

(* unlockWithMasterKey leaves a sound vault; it is open only if the master   *)
(* key wraps the loaded protected key, or if it was open and nothing is      *)
(* loaded, which no consistent vault is.                                     *)
LEMMA UnlockSound ==
  ASSUME NEW v, Sound(v), NEW m \in MasterKeys
  PROVE  LET w == UnlockWithMasterKey(v, m) IN
         /\ Sound(w)
         /\ w.data = v.data /\ w.interval = v.interval
         /\ w.open <=> UnlockSucceeds(v, m)
  <1> DEFINE w == UnlockWithMasterKey(v, m)
  <1>0. v \in VaultState /\ Consistent(v)
    BY DEF Sound
  <1>1. CASE v.data = NoData
    <2>1. w = v /\ ~UnlockSucceeds(v, m)
      BY <1>1 DEF UnlockWithMasterKey, UnlockSucceeds
    <2>2. ~v.open
      BY <1>0, <1>1 DEF Consistent, HoldsItsKey
    <2> QED
      BY <2>1, <2>2
  <1>2. CASE v.data # NoData /\ ~UnlockSucceeds(v, m)
    <2>1. w = Lock(v)
      BY <1>2 DEF UnlockWithMasterKey
    <2> QED
      BY <1>0, <1>2, <2>1, LockSound
  <1>3. CASE UnlockSucceeds(v, m)
    <2> DEFINE k == WithUserKey(v)
    <2>1. v.data # NoData /\ v.data.key.holds # BadKey /\ ~RebuildThrows(k)
      BY <1>3 DEF UnlockSucceeds
    <2>2. w = Armed([Rebuilt(k) EXCEPT !.open = TRUE])
      BY <1>3, <2>1 DEF UnlockWithMasterKey
    <2>3. /\ k \in VaultState
          /\ k.data = v.data /\ k.interval = v.interval
          /\ k.userKey = v.data.key.holds
          /\ k.orgKeys = {} /\ k.items = {} /\ k.folders = {}
          /\ k.timer = Stopped
      BY <1>0, <2>1, WithUserKeyType
    <2>4. v.data.key.holds \in UserKeys
      BY <1>0, <2>1 DEF VaultState, SyncData, ProtectedKey
    <2>5. k.userKey \in UserKeys /\ FitsUserKey(k) /\ k.data # NoData
      BY <2>1, <2>3, <2>4 DEF FitsUserKey
    <2>6. Sound(w) /\ w.open /\ w.data = k.data /\ w.interval = k.interval
      BY <2>1, <2>2, <2>3, <2>5, OpenedSound
    <2> QED
      BY <1>3, <2>3, <2>6
  <1> QED
    BY <1>1, <1>2, <1>3

(* reloadSync leaves a sound vault; the vault is open afterwards only if it  *)
(* was open before, and then with the protected key it had.                  *)
LEMMA ReloadSound ==
  ASSUME NEW v, Sound(v), NEW a \in SyncData \cup {Garbage}
  PROVE  LET w == ReloadSync(v, a) IN
         /\ Sound(w)
         /\ w.open => v.open /\ w.data.key = v.data.key
         /\ w.data = NoData <=> v.data = NoData
         /\ w.interval = v.interval
         /\ ReloadSucceeds(v, a) => w.open
         /\ v.open /\ a # Garbage => (ReloadSucceeds(v, a) <=> w.open)
  <1> DEFINE w == ReloadSync(v, a)
             r == Replaced(v, a)
  <1>0. v \in VaultState /\ Consistent(v)
    BY DEF Sound
  <1>1. CASE ~v.open \/ a = Garbage
    <2>1. w = v /\ ~ReloadSucceeds(v, a)
      BY <1>1 DEF ReloadSync, ReloadSucceeds
    <2> QED
      BY <1>1, <2>1
  <1>2. CASE v.open /\ a # Garbage /\ ~SameProtectedKey(v, a)
    <2>1. w = Lock(v) /\ ~ReloadSucceeds(v, a)
      BY <1>2 DEF ReloadSync, ReloadSucceeds
    <2> QED
      BY <1>0, <1>2, <2>1, LockSound
  <1>3. ASSUME v.open, a # Garbage, SameProtectedKey(v, a)
        PROVE  /\ a \in SyncData
               /\ r \in VaultState
               /\ r.open /\ r.data # NoData /\ r.data.key = v.data.key
               /\ r.userKey = v.userKey /\ r.timer = v.timer
               /\ r.interval = v.interval
               /\ r.orgKeys = {} /\ r.items = {} /\ r.folders = {}
               /\ v.data # NoData
    <2>1. a \in SyncData
      BY <1>3
    <2>2. Parse(a) \in SyncData /\ Parse(a).key = a.key /\ Parse(a) # NoData
      BY <2>1, ParseType
    <2>3. v.data # NoData
      BY <1>0, <1>3 DEF Consistent, HoldsItsKey
    <2> QED
      BY <1>0, <1>3, <2>1, <2>2, <2>3
         DEF Replaced, VaultState, SameProtectedKey
  <1>4. CASE /\ v.open /\ a # Garbage /\ SameProtectedKey(v, a)
             /\ RebuildThrows(r)
    <2>1. w = Lock(r) /\ ~ReloadSucceeds(v, a)
      BY <1>4 DEF ReloadSync, ReloadSucceeds
    <2> QED
      BY <1>3, <1>4, <2>1, LockSound
  <1>5. CASE ReloadSucceeds(v, a)
    <2>1. /\ v.open /\ a # Garbage /\ SameProtectedKey(v, a)
          /\ ~RebuildThrows(r)
      BY <1>5 DEF ReloadSucceeds
    <2>2. w = Rebuilt(r)
      BY <1>5, <2>1 DEF ReloadSync
    <2>3. w \in VaultState /\ ShowsAllItHolds(w)
      BY <1>3, <2>1, <2>2, RebuiltType, RebuiltShowsAll
    <2>4. /\ w.open /\ w.data = r.data /\ w.userKey = v.userKey
          /\ w.timer = v.timer /\ w.interval = v.interval
      BY <1>3, <2>1, <2>2 DEF Rebuilt, VaultState
    <2>5. HoldsItsKey(v) /\ TimerArmed(v)
      BY <1>0, <2>1 DEF Consistent
    <2>6. HoldsItsKey(w)
      BY <1>3, <2>1, <2>4, <2>5 DEF HoldsItsKey, FitsUserKey
    <2>7. TimerArmed(w)
      BY <2>4, <2>5 DEF TimerArmed
    <2> QED
      BY <1>3, <1>5, <2>1, <2>3, <2>4, <2>6, <2>7 DEF Sound, Consistent
  <1> QED
    BY <1>1, <1>2, <1>4, <1>5 DEF ReloadSucceeds

(* Changing nothing but the auto-lock timer and its interval is sound when   *)
(* the timer of an open vault is within the interval and that of a locked    *)
(* one stays off; it neither locks nor unlocks.                              *)
LEMMA TimerChangeSound ==
  ASSUME NEW v, Sound(v), NEW t \in Nat \cup {Stopped}, NEW i \in Nat,
         v.open => IF i > 0 THEN t \in 0 .. i ELSE t = Stopped,
         ~v.open => t = Stopped
  PROVE  LET w == [v EXCEPT !.timer = t, !.interval = i] IN
         Sound(w) /\ w.open = v.open /\ w.data = v.data /\ w.interval = i
  <1> DEFINE w == [v EXCEPT !.timer = t, !.interval = i]
  <1>0. v \in VaultState /\ Consistent(v)
    BY DEF Sound
  <1>1. /\ w \in VaultState /\ w.timer = t /\ w.interval = i
        /\ w.open = v.open /\ w.data = v.data /\ w.userKey = v.userKey
        /\ w.privateKey = v.privateKey /\ w.orgKeys = v.orgKeys
        /\ w.items = v.items /\ w.folders = v.folders
    BY <1>0 DEF VaultState
  <1> HIDE DEF w
  <1>2. HoldsNothing(v) /\ t = Stopped => HoldsNothing(w)
    BY <1>1 DEF HoldsNothing
  <1>3. HoldsItsKey(v) => HoldsItsKey(w)
    BY <1>1 DEF HoldsItsKey, FitsUserKey
  <1>4. \A c : CipherKeyResolves(w, c) <=> CipherKeyResolves(v, c)
    BY <1>1 DEF CipherKeyResolves, OwnerKeyFits, FitsUserKey, OrgKeysOf,
       HasPrivateKey
  <1>5. Displayable(w) = Displayable(v)
    BY <1>1, <1>4 DEF Displayable
  <1>6. ShowsAllItHolds(v) => ShowsAllItHolds(w)
    BY <1>1, <1>5 DEF ShowsAllItHolds
  <1>7. v.open => TimerArmed(w)
    BY <1>1 DEF TimerArmed
  <1>8. Sound(w)
    BY <1>0, <1>1, <1>2, <1>3, <1>6, <1>7 DEF Sound, Consistent
  <1> QED
    BY <1>1, <1>8 DEF w

(* setAutoLockSeconds: sound, and neither locks nor unlocks.                 *)
LEMMA SetAutoLockSound ==
  ASSUME NEW v, Sound(v), NEW i \in Nat
  PROVE  LET w == SetAutoLock(v, i) IN
         Sound(w) /\ w.open = v.open /\ w.data = v.data
  <1> DEFINE t == IF i = 0 THEN Stopped ELSE IF v.open THEN i ELSE v.timer
  <1>0. v \in VaultState /\ Consistent(v)
    BY DEF Sound
  <1>1. SetAutoLock(v, i) = [v EXCEPT !.timer = t, !.interval = i]
    <2>1. CASE i = 0
      BY <2>1 DEF SetAutoLock
    <2>2. CASE i > 0
      <3>1. t = IF v.open THEN i ELSE v.timer
        BY <2>2
      <3>2. SetAutoLock(v, i) =
              [v EXCEPT !.timer = IF v.open THEN i ELSE v.timer,
                        !.interval = i]
        BY <1>0, <2>2 DEF SetAutoLock, VaultState
      <3> HIDE DEF t
      <3> QED
        BY <3>1, <3>2
    <2> QED
      BY <2>1, <2>2
  <1>2. ~v.open => v.timer = Stopped
    BY <1>0 DEF Consistent, HoldsNothing
  <1>3. t \in Nat \cup {Stopped}
    BY <1>0 DEF VaultState
  <1>4. v.open => IF i > 0 THEN t \in 0 .. i ELSE t = Stopped
    OBVIOUS
  <1>7. ~v.open => t = Stopped
    BY <1>2
  <1> HIDE DEF t
  <1> DEFINE w == [v EXCEPT !.timer = t, !.interval = i]
  <1>5. Sound(w) /\ w.open = v.open /\ w.data = v.data /\ w.interval = i
    <2>1. CASE v.open
      BY <1>3, <1>4, <2>1, TimerChangeSound
    <2>2. CASE ~v.open
      BY <1>3, <1>7, <2>2, TimerChangeSound
    <2> QED
      BY <2>1, <2>2
  <1>6. SetAutoLock(v, i) = w
    BY <1>1
  <1> HIDE DEF w
  <1> QED
    BY <1>5, <1>6

(* noteActivity: sound, and neither locks nor unlocks.                       *)
LEMMA NoteActivitySound ==
  ASSUME NEW v, Sound(v)
  PROVE  LET w == NoteActivity(v) IN
         /\ Sound(w) /\ w.open = v.open /\ w.data = v.data
         /\ w.interval = v.interval
  <1> DEFINE t == IF v.interval > 0 THEN v.interval ELSE v.timer
  <1>0. v \in VaultState /\ Consistent(v)
    BY DEF Sound
  <1>1. CASE ~v.open
    BY <1>1 DEF NoteActivity
  <1>2. CASE v.open
    <2>1. NoteActivity(v) = [v EXCEPT !.timer = t, !.interval = v.interval]
      BY <1>0, <1>2 DEF NoteActivity, Armed, VaultState
    <2>2. t \in Nat \cup {Stopped} /\ v.interval \in Nat
      BY <1>0 DEF VaultState
    <2>3. IF v.interval > 0 THEN t \in 0 .. v.interval ELSE t = Stopped
      BY <1>0, <1>2, <2>2 DEF Consistent, TimerArmed
    <2> HIDE DEF t
    <2> DEFINE w == [v EXCEPT !.timer = t, !.interval = v.interval]
    <2>4. /\ Sound(w) /\ w.open = v.open /\ w.data = v.data
          /\ w.interval = v.interval
      BY <1>2, <2>2, <2>3, TimerChangeSound
    <2>5. NoteActivity(v) = w
      BY <2>1
    <2> HIDE DEF w
    <2> QED
      BY <2>4, <2>5
  <1> QED
    BY <1>1, <1>2, <1>0 DEF VaultState

(* A tick of a running timer: sound, and neither locks nor unlocks.          *)
LEMMA TickedSound ==
  ASSUME NEW v, Sound(v), TimerTicks(v)
  PROVE  LET w == Ticked(v) IN
         /\ Sound(w) /\ w.open = v.open /\ w.data = v.data
         /\ w.interval = v.interval
  <1> DEFINE t == v.timer - 1
  <1>0. v \in VaultState /\ Consistent(v)
    BY DEF Sound
  <1>1. v.timer \in Nat /\ v.timer > 0 /\ v.interval \in Nat
    BY <1>0 DEF TimerTicks, VaultState, Stopped
  <1>2. v.open
    BY <1>0, <1>1 DEF Consistent, HoldsNothing, Stopped
  <1>3. Ticked(v) = [v EXCEPT !.timer = t, !.interval = v.interval]
    BY <1>0 DEF Ticked, VaultState
  <1>4. t \in Nat /\ IF v.interval > 0 THEN t \in 0 .. v.interval
                                       ELSE t = Stopped
    BY <1>0, <1>1, <1>2 DEF Consistent, TimerArmed, Stopped
  <1> HIDE DEF t
  <1> DEFINE w == [v EXCEPT !.timer = t, !.interval = v.interval]
  <1>5. /\ t \in Nat \cup {Stopped} /\ v.interval \in Nat
        /\ IF v.interval > 0 THEN t \in 0 .. v.interval ELSE t = Stopped
    BY <1>1, <1>4
  <1>7. /\ Sound(w) /\ w.open = v.open /\ w.data = v.data
        /\ w.interval = v.interval
    BY <1>2, <1>5, TimerChangeSound
  <1>6. Ticked(v) = w
    BY <1>3
  <1> HIDE DEF w
  <1> QED
    BY <1>6, <1>7
=============================================================================
