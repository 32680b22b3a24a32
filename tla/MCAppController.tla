-------------------------- MODULE MCAppController ---------------------------
(* Constants of the TLC runs of module AppController.                        *)
EXTENDS AppController

Key(account, password) ==
  [account |-> account, password |-> password, kdf |-> "kdf"]
AliceKey  == Key("alice", "old")
AliceKey2 == Key("alice", "new")

MCMasterKeys == [account : {"alice"}, password : {"old", "new"}, kdf : {"kdf"}]
ThreePasswords == {"old", "new", "typo"}
MoreMasterKeys == [account : {"alice"}, password : ThreePasswords, kdf : {"kdf"}]
OneKey       == {AliceKey}
BothKeys     == {AliceKey, AliceKey2}

Login == [id |-> "login", listed |-> "live", org |-> NoOrg,
          itemKey |-> "none", display |-> "ok"]
Note  == [Login EXCEPT !.id = "note"]

Contents(masterKey, ciphers) ==
  [key |-> [wrap |-> masterKey, holds |-> "user"], privateKey |-> "none",
   orgs |-> {}, folders |-> {}, ciphers |-> ciphers]

Original == Contents(AliceKey, {Login})
Edited   == Contents(AliceKey, {Login, Note})
Rotated  == Contents(AliceKey2, {Login})

SteadyAnswers  == {Original, Edited}
RotatedAnswers == {Original, Rotated}
AllAnswers     == {Original, Rotated, Garbage}
DamagedAnswers == {Original, Garbage}

(* A fresh install, and the disk of a user who signed in earlier.            *)
FreshDisk ==
  [account |-> NoAccount, kdf |-> NoKdf, token |-> NoAccount, blob |-> NoBlob,
   pin |-> NoPin, fails |-> 0, autoLock |-> 1, lockOnMinimize |-> TRUE]
SignedInDisk ==
  [FreshDisk EXCEPT !.account = "alice", !.kdf = "kdf", !.token = "alice",
                    !.blob = Original]
PinDisk == [SignedInDisk EXCEPT !.pin = [pin |-> "1234", key |-> AliceKey]]

FreshDisks    == {FreshDisk}
SignedInDisks == {SignedInDisk}
PinDisks      == {PinDisk}
=============================================================================
