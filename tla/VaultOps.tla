------------------------------ MODULE VaultOps ------------------------------
(***************************************************************************)
(* The operations of Vault::Vault (src/vault/vault.cpp) as functions from   *)
(* the state of a vault object to its next state.  Every operation of the   *)
(* class is synchronous and runs on the GUI thread, so a caller composes    *)
(* them inside one atomic step: module Vault lets an arbitrary caller use   *)
(* them one at a time, module AppController calls them from its handlers.   *)
(*                                                                          *)
(* An operator marked "mutant" is a broken variant of the one below it, of  *)
(* the kind a slip in the code would be: PROJECT.json names the invariant   *)
(* that fails when it takes the other's place.                              *)
(*                                                                          *)
(* Cryptography is modelled by what it lets through: a protected key is     *)
(* opened by one master key and holds one user key; a ciphertext made under *)
(* a key decrypts under that key and throws CryptoError under another.      *)
(***************************************************************************)
EXTENDS Integers

CONSTANTS
  MasterKeys,   \* master keys (the output of the password KDF)
  UserKeys,     \* account user keys a protected key may hold
  BadKey,       \* plaintext of a protected key that is no 64-byte user key
  NoKey,        \* absence of a key
  Orgs,         \* organizations
  NoOrg,        \* organization of a personal item
  Folders,      \* folders
  BadFolders,   \* folders whose name does not decrypt
  CipherIds,    \* identities of items; an id stands for one revision of it
  NoData,       \* SyncData before anything was loaded
  Answers,      \* the sync answers a run considers, Garbage among them or not
  Garbage       \* an HTTP 200 body parseSyncJson rejects

ASSUME KeysAssumption ==
  /\ NoKey \notin MasterKeys
  /\ NoKey \notin UserKeys \cup {BadKey}
  /\ BadFolders \subseteq Folders
  /\ NoOrg \notin Orgs

(***************************************************************************)
(* Data.                                                                    *)
(***************************************************************************)
Stopped == -1       \* m_autoLockTimer is not active

ProtectedKey == [wrap : MasterKeys, holds : UserKeys \cup {BadKey}]

(* One entry of "ciphers".  listed: what parseSyncJson makes of it; itemKey: *)
(* the per-item key, absent, unwrappable or corrupt; display: whether the    *)
(* name, user name and first URI are well-formed ciphertexts.                *)
Cipher == [id : CipherIds, listed : {"live", "trashed", "malformed"},
           org : Orgs \cup {NoOrg}, itemKey : {"none", "ok", "bad"},
           display : {"ok", "bad"}]

(* privateKey: absent, or a ciphertext under the user key that is intact or  *)
(* not; orgs: the organizations whose RSA-wrapped key is intact.             *)
SyncData == [key : ProtectedKey, privateKey : {"none", "ok", "bad"},
             orgs : SUBSET Orgs, folders : SUBSET Folders,
             ciphers : SUBSET Cipher]

ASSUME DataAssumption ==
  /\ NoData \notin SyncData
  /\ Garbage \notin SyncData
  /\ Answers \subseteq SyncData \cup {Garbage}

(* The members of class Vault.  timer counts the ticks until the auto-lock   *)
(* timer fires, 0 being an expired timer whose slot has not run yet.         *)
VaultState == [data : SyncData \cup {NoData}, open : BOOLEAN,
               userKey : UserKeys \cup {BadKey, NoKey}, privateKey : BOOLEAN,
               orgKeys : SUBSET Orgs, items : SUBSET Cipher,
               folders : SUBSET Folders,
               timer : Nat \cup {Stopped}, interval : Nat]

FreshVault(seconds) ==
  [data |-> NoData, open |-> FALSE, userKey |-> NoKey, privateKey |-> FALSE,
   orgKeys |-> {}, items |-> {}, folders |-> {},
   timer |-> Stopped, interval |-> seconds]

-----------------------------------------------------------------------------
(* parseSyncJson: items in the trash are hidden, malformed ones skipped.     *)
Parse(answer) ==
  [answer EXCEPT !.ciphers = {c \in answer.ciphers : c.listed = "live"}]

(* Mutant of Lock: the organization keys stay.                               *)
LockKeepingOrgKeys(v) ==
  [v EXCEPT !.timer = Stopped, !.userKey = NoKey, !.privateKey = FALSE,
            !.items = {}, !.folders = {}, !.open = FALSE]

(* Vault::lock: keys, display data and timer all go.                         *)
Lock(v) ==
  [v EXCEPT !.timer = Stopped, !.userKey = NoKey, !.privateKey = FALSE,
            !.orgKeys = {}, !.items = {}, !.folders = {}, !.open = FALSE]

(* Mutant of LoadSync: the data is moved in before the parse is checked.     *)
LoadSyncUnchecked(v, answer) ==
  [Lock(v) EXCEPT !.data = IF answer = Garbage THEN answer ELSE Parse(answer)]

LoadSync(v, answer) ==
  IF answer = Garbage THEN v ELSE [Lock(v) EXCEPT !.data = Parse(answer)]

-----------------------------------------------------------------------------
(* rebuildDisplayData on the keys the vault holds at that moment.            *)
FitsUserKey(v) == v.userKey = v.data.key.holds

HasPrivateKey(v) == v.privateKey \/ v.data.privateKey # "none"

OrgKeysOf(v) == IF HasPrivateKey(v) THEN v.orgKeys \cup v.data.orgs
                                    ELSE v.orgKeys

OwnerKeyFits(v, c) == c.org = NoOrg => FitsUserKey(v)

(* cipherKey: the key of the organization must be there, and a per-item key  *)
(* must unwrap under the owner's key.                                        *)
CipherKeyResolves(v, c) ==
  /\ c.org \in OrgKeysOf(v) \cup {NoOrg}
  /\ c.itemKey = "none" \/ (c.itemKey = "ok" /\ OwnerKeyFits(v, c))

Displayable(v) == {c \in v.data.ciphers : CipherKeyResolves(v, c)}

RebuildThrows(v) ==
  \/ v.data.privateKey = "bad"
  \/ v.data.privateKey = "ok" /\ ~FitsUserKey(v)
  \/ v.data.folders \cap BadFolders # {}
  \/ v.data.folders # {} /\ ~FitsUserKey(v)
  \/ \E c \in Displayable(v) :
        c.display = "bad" \/ (c.itemKey = "none" /\ ~OwnerKeyFits(v, c))

Rebuilt(v) ==
  [v EXCEPT !.privateKey = HasPrivateKey(v), !.orgKeys = OrgKeysOf(v),
            !.folders = @ \cup v.data.folders, !.items = @ \cup Displayable(v)]

-----------------------------------------------------------------------------
(* unlockWithMasterKey.  The protected key opens under the master key that   *)
(* wrapped it only; what it holds must be a user key and the display data    *)
(* must decrypt, otherwise the vault is locked again.                        *)
WithUserKey(v) == [Lock(v) EXCEPT !.userKey = v.data.key.holds]

UnlockSucceeds(v, masterKey) ==
  /\ v.data # NoData
  /\ v.data.key.wrap = masterKey
  /\ v.data.key.holds # BadKey
  /\ ~RebuildThrows(WithUserKey(v))

Armed(v) == [v EXCEPT !.timer = IF v.interval > 0 THEN v.interval ELSE @]

UnlockWithMasterKey(v, masterKey) ==
  CASE v.data = NoData -> v
    [] v.data # NoData /\ ~UnlockSucceeds(v, masterKey) -> Lock(v)
    [] UnlockSucceeds(v, masterKey) ->
         Armed([Rebuilt(WithUserKey(v)) EXCEPT !.open = TRUE])

(* verifyMasterKey: read only.                                               *)
(* Mutant of VerifyMasterKey: anything passes once data is loaded.           *)
VerifyAnyKey(v, masterKey) == v.data # NoData

VerifyMasterKey(v, masterKey) ==
  v.data # NoData /\ v.data.key.wrap = masterKey

-----------------------------------------------------------------------------
(* reloadSync.  An answer that does not parse leaves the vault as it is; a   *)
(* different protected key, or display data that does not decrypt, locks it. *)
(* Mutants of Replaced: the old items stay; a reload restarts the timer.     *)
ReplacedKeepingItems(v, answer) ==
  [v EXCEPT !.data = Parse(answer), !.orgKeys = {}, !.folders = {}]
ReplacedRestarting(v, answer) ==
  [v EXCEPT !.data = Parse(answer), !.orgKeys = {}, !.items = {},
            !.folders = {}, !.timer = IF v.interval > 0 THEN v.interval ELSE @]

Replaced(v, answer) ==
  [v EXCEPT !.data = Parse(answer), !.orgKeys = {}, !.items = {},
            !.folders = {}]

(* Mutant of SameProtectedKey: the comparison is missing.                    *)
AnyProtectedKey(v, answer) == TRUE

SameProtectedKey(v, answer) == answer.key = v.data.key

ReloadSucceeds(v, answer) ==
  /\ v.open
  /\ answer # Garbage
  /\ SameProtectedKey(v, answer)
  /\ ~RebuildThrows(Replaced(v, answer))

ReloadSync(v, answer) ==
  CASE ~v.open \/ answer = Garbage -> v
    [] v.open /\ answer # Garbage /\ ~SameProtectedKey(v, answer) -> Lock(v)
    [] /\ v.open /\ answer # Garbage
       /\ SameProtectedKey(v, answer)
       /\ RebuildThrows(Replaced(v, answer)) -> Lock(Replaced(v, answer))
    [] ReloadSucceeds(v, answer) -> Rebuilt(Replaced(v, answer))

-----------------------------------------------------------------------------
(* The auto-lock timer.  Mutant of SetAutoLock: the running timer keeps the  *)
(* time it was started with.                                                 *)
SetAutoLockLater(v, seconds) ==
  [v EXCEPT !.interval = seconds, !.timer = IF seconds = 0 THEN Stopped ELSE @]

SetAutoLock(v, seconds) ==
  CASE seconds = 0 -> [v EXCEPT !.timer = Stopped, !.interval = 0]
    [] seconds > 0 -> [v EXCEPT !.timer = IF v.open THEN seconds ELSE @,
                                !.interval = seconds]

NoteActivity(v) == IF v.open THEN Armed(v) ELSE v

(* Time passes for a running timer; an expired one waits for its slot.       *)
TimerTicks(v) == v.timer > 0
Ticked(v)     == [v EXCEPT !.timer = @ - 1]
TimerDue(v)   == v.timer = 0

-----------------------------------------------------------------------------
(***************************************************************************)
(* What it means for a vault object to be consistent, for the modules that  *)
(* hold one: stated there as invariants, kept by every operation above      *)
(* (proved in VaultOpsProofs).                                              *)
(***************************************************************************)
HoldsNothing(v) ==
  /\ v.userKey = NoKey /\ ~v.privateKey /\ v.orgKeys = {}
  /\ v.items = {} /\ v.folders = {}
  /\ v.timer = Stopped

HoldsItsKey(v) == v.data # NoData /\ v.userKey \in UserKeys /\ FitsUserKey(v)

ShowsAllItHolds(v) ==
  /\ v.items = Displayable(v)
  /\ v.folders = v.data.folders
  /\ v.orgKeys \subseteq v.data.orgs
  /\ \A c \in v.items : c.display = "ok"

TimerArmed(v) ==
  IF v.interval > 0 THEN v.timer \in 0 .. v.interval ELSE v.timer = Stopped

Consistent(v) ==
  /\ ~v.open => HoldsNothing(v)
  /\ v.open => HoldsItsKey(v) /\ ShowsAllItHolds(v) /\ TimerArmed(v)
=============================================================================
