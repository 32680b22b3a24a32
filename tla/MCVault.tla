------------------------------ MODULE MCVault -------------------------------
(* Constants of the TLC runs of module Vault.                                *)
EXTENDS Vault

Item(i, organization, itemKey) ==
  [id |-> i, listed |-> "live", org |-> organization, itemKey |-> itemKey,
   display |-> "ok"]

Login1   == Item("login-rev1", NoOrg, "none")
Login2   == Item("login-rev2", NoOrg, "ok")
Shared   == Item("shared", "acme", "none")
Damaged  == [Item("damaged", NoOrg, "none") EXCEPT !.display = "bad"]
KeyLost  == Item("key-lost", NoOrg, "bad")
Deleted  == [Item("deleted", NoOrg, "none") EXCEPT !.listed = "trashed"]
Nameless == [Item("nameless", NoOrg, "none") EXCEPT !.listed = "malformed"]

Contents(protected, private, folders, ciphers) ==
  [key |-> protected, privateKey |-> private, orgs |-> {"acme"},
   folders |-> folders, ciphers |-> ciphers]

(* The protected key as first synced, after a password change, after a       *)
(* rotation of the user key, and one whose plaintext has the wrong length.   *)
MCProtectedKeys ==
  { [wrap |-> "m1", holds |-> "u1"], [wrap |-> "m2", holds |-> "u1"],
    [wrap |-> "m1", holds |-> "u2"], [wrap |-> "m1", holds |-> BadKey] }

(* Every protected key with or without an RSA key and folders, around every  *)
(* mixture of a personal item, a shared one and one whose name is damaged;   *)
(* an edited and trashed variant, an undecryptable folder, and garbage.      *)
MCAnswers ==
  { Contents(k, p, f, c) :
      k \in MCProtectedKeys, p \in {"none", "ok"}, f \in {{}, {"home"}},
      c \in SUBSET {Login1, Shared, Damaged} }
  \cup
  { Contents(k, "ok", {"home"}, {Login2, Deleted, KeyLost, Nameless}) :
      k \in MCProtectedKeys }
  \cup
  { Contents(k, "bad", {}, {Login2}) : k \in MCProtectedKeys }
  \cup
  { Contents(k, "ok", {"work"}, {Login2}) : k \in MCProtectedKeys }
  \cup
  { Garbage }

MCCipherIds == {"login-rev1", "login-rev2", "shared", "damaged", "key-lost",
                "deleted", "nameless"}
=============================================================================
