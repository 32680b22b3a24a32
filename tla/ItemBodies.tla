------------------------------ MODULE ItemBodies ------------------------------
(***************************************************************************)
(* What an item is on the wire: the sync parser that reads it               *)
(* (syncparser.cpp, parseCipher), the requests that create and replace it   *)
(* (vault.cpp, buildCreateBody and buildUpdateBody), and the on-demand       *)
(* reads of its secrets.                                                    *)
(*                                                                          *)
(* A JSON object is a function from the keys it has.  A value of another    *)
(* kind than a key calls for is read as if it were null, and so is a key    *)
(* that is missing: Null stands for the three.  Ciphertexts are records of  *)
(* the key they open with and the text.  Module Writes sends these bodies   *)
(* and looks at when; here it is what they do to the item.                  *)
(***************************************************************************)
EXTENDS Filters

CONSTANTS
  Null,
  Refused,    \* an error message instead of a body or a key
  UserKey,    \* m_userKey
  OrgKeys     \* m_orgKeys, from the organizations the account has keys of

Empty == ""   \* QString()

Login == 1
SecureNote == 2

(* Objects: the two spellings of a key, insert (a member over what was       *)
(* there), remove.                                                           *)
Pascal ==
  [id |-> "Id", type |-> "Type", name |-> "Name", notes |-> "Notes",
   favorite |-> "Favorite", folderId |-> "FolderId", key |-> "Key",
   organizationId |-> "OrganizationId", revisionDate |-> "RevisionDate",
   login |-> "Login", username |-> "Username", password |-> "Password",
   totp |-> "Totp", uris |-> "Uris", uri |-> "Uri"]

ValueOf(obj, k) ==
  IF k \in DOMAIN obj THEN obj[k]
  ELSE IF Pascal[k] \in DOMAIN obj THEN obj[Pascal[k]] ELSE Null

Over(new, obj) ==
  [k \in DOMAIN new \cup DOMAIN obj |-> IF k \in DOMAIN new THEN new[k] ELSE obj[k]]
Without(obj, keys) == [k \in DOMAIN obj \ keys |-> obj[k]]

EncryptField(text, key) == [opensWith |-> key, text |-> text]
EncOrNull(text, key) == IF text = Empty THEN Null ELSE EncryptField(text, key)

-----------------------------------------------------------------------------
(* parseCipher, of the members an edit is about; a favorite of no kind is     *)
(* false, ids of no kind are "".                                             *)
IdOf(obj, k) == IF ValueOf(obj, k) = Null THEN Empty ELSE ValueOf(obj, k)

ReadUris(login) ==
  LET uris == IF ValueOf(login, "uris") = Null THEN << >> ELSE ValueOf(login, "uris")
      read == [k \in DOMAIN uris |-> ValueOf(uris[k], "uri")]
  IN Filtered(read, {read[k] : k \in DOMAIN read} \ {Null})

NoLogin == [username |-> Null, password |-> Null, totp |-> Null, uris |-> << >>]
ReadLogin(obj) ==
  IF ValueOf(obj, "type") # Login \/ ValueOf(obj, "login") = Null THEN NoLogin
  ELSE LET login == ValueOf(obj, "login")
       IN [username |-> ValueOf(login, "username"),
           password |-> ValueOf(login, "password"),
           totp |-> ValueOf(login, "totp"), uris |-> ReadUris(login)]

Parses(obj) ==
  IdOf(obj, "id") # Empty /\ ValueOf(obj, "type") \in 1 .. 4
    /\ ValueOf(obj, "name") # Null
ParseCipher(obj) ==
  [id |-> ValueOf(obj, "id"), type |-> ValueOf(obj, "type"), raw |-> obj,
   folderId |-> IdOf(obj, "folderId"),
   organizationId |-> IdOf(obj, "organizationId"),
   favorite |-> ValueOf(obj, "favorite") = TRUE,
   revisionDate |-> IdOf(obj, "revisionDate"),
   key |-> ValueOf(obj, "key"), name |-> ValueOf(obj, "name"),
   notes |-> ValueOf(obj, "notes"), login |-> ReadLogin(obj)]

(* cipherKey: the owner's key, or the item's own key under it.               *)
CipherKey(cipher) ==
  LET org == cipher.organizationId IN
  IF org # Empty /\ org \notin DOMAIN OrgKeys THEN Refused
  ELSE LET owner == IF org = Empty THEN UserKey ELSE OrgKeys[org] IN
       IF cipher.key = Null THEN owner
       ELSE IF cipher.key.opensWith = owner THEN cipher.key.text ELSE Refused

(* itemPassword, itemNotes, itemTotpSecret: "" as well when nothing is there. *)
Read(cipher, enc) ==
  IF enc = Null \/ CipherKey(cipher) = Refused THEN Empty
  ELSE IF enc.opensWith = CipherKey(cipher) THEN enc.text ELSE Empty

-----------------------------------------------------------------------------
(* buildLoginObject: the fields of the editor over what was there; of the     *)
(* URIs the first, and none is dropped unless it is the only one.            *)
FirstUri(uris, uri, key) ==
  LET first == IF uris = << >> THEN << >> ELSE uris[1] IN
  Over([uri |-> EncryptField(uri, key)], Over(first, [match |-> Null]))

(* Mutant of BuildUris: the first URI replaces all of them.                  *)
BuildUrisOnly(existing, uri, key) ==
  [uris |-> IF uri = Empty THEN Null ELSE << FirstUri(<< >>, uri, key) >>]
BuildUris(existing, uri, key) ==
  LET uris == IF ValueOf(existing, "uris") = Null THEN << >>
              ELSE ValueOf(existing, "uris")
  IN CASE uri # Empty ->
            [uris |-> << FirstUri(uris, uri, key) >> \o SubSeq(uris, 2, Len(uris))]
       [] uri = Empty /\ Len(uris) <= 1 -> [uris |-> Null]
       [] OTHER -> << >>

BuildLoginObject(fields, existing, key) ==
  Over(BuildUris(existing, fields.uri, key),
       Over([k \in {"username", "password", "totp"} |-> EncOrNull(fields[k], key)],
            existing))

Edited(fields, key) ==
  [name |-> EncryptField(fields.name, key), notes |-> EncOrNull(fields.notes, key),
   favorite |-> fields.favorite,
   folderId |-> IF fields.folderId = Empty THEN Null ELSE fields.folderId]

BuildCreateBody(type, fields) ==
  IF fields.name = Empty \/ type \notin {Login, SecureNote} THEN Refused
  ELSE Over(Edited(fields, UserKey),
            Over([type |-> type, organizationId |-> Null],
                 IF type = Login THEN [login |-> BuildLoginObject(fields, << >>, UserKey)]
                 ELSE [secureNote |-> [type |-> 0]]))

(* Keys only an answer has: "object", "edit" and so on stand for the others. *)
ResponseOnly == {"id", "Id", "revisionDate", "RevisionDate", "object", "Object"}

BuildUpdateBody(cipher, fields) ==
  IF fields.name = Empty \/ CipherKey(cipher) = Refused THEN Refused
  ELSE LET key  == CipherKey(cipher)
           body == Over(Edited(fields, key), Without(cipher.raw, ResponseOnly))
           revision == IdOf(cipher.raw, "revisionDate")
           lastKnown == IF revision = Empty THEN << >>
                        ELSE [lastKnownRevisionDate |-> revision]
           existing == IF ValueOf(body, "login") = Null THEN << >>
                       ELSE ValueOf(body, "login")
       IN Over(lastKnown,
               IF cipher.type = Login
               THEN Over([login |-> BuildLoginObject(fields, existing, key)],
                         Without(body, {"Login"}))
               ELSE body)

(* What a server that takes the body lists for the item from then on.        *)
Listed(body, id, revision) ==
  Over([id |-> id, revisionDate |-> revision, object |-> "cipher"],
       Without(body, {"lastKnownRevisionDate"}))

-----------------------------------------------------------------------------
(* What the next sync reads back, with the key it will find: the fields as    *)
(* they were typed, empty ones empty.                                        *)
ReadsBack(obj, fields) ==
  LET c == ParseCipher(obj) IN
  /\ Parses(obj)
  /\ Read(c, c.name) = fields.name /\ Read(c, c.notes) = fields.notes
  /\ c.favorite = fields.favorite /\ c.folderId = fields.folderId
  /\ c.type = Login =>
       /\ \A k \in {"username", "password", "totp"} : Read(c, c.login[k]) = fields[k]
       /\ fields.uri # Empty =>
            c.login.uris # << >> /\ Read(c, c.login.uris[1]) = fields.uri

CreateReadsBack(type, fields) ==
  LET body == BuildCreateBody(type, fields) IN
  body # Refused => ReadsBack(Listed(body, "new", "later"), fields)

(* "Start from the original object so unmodeled fields (password history,     *)
(* custom fields, extra URIs, reprompt) survive verbatim" (vault.cpp:722):    *)
(* an update changes what the editor shows, in whichever spelling it came,    *)
(* under the key the item keeps, and leaves the rest alone.  A URI that is    *)
(* cleared goes if it was the only one, and stays otherwise.                 *)
EditorKeys == {"name", "notes", "favorite", "folderId", "login"}
LoginKeys  == {"username", "password", "totp", "uris"}
Spellings(keys) == keys \cup {Pascal[k] : k \in keys}

Kept(before, after, keys) ==
  \A k \in DOMAIN before \ Spellings(keys) : k \in DOMAIN after /\ after[k] = before[k]

EditReadsBack(obj, fields) ==
  LET c == ParseCipher(obj)
      body == BuildUpdateBody(c, fields)
      uris(o) == IF ValueOf(o, "uris") = Null THEN << >> ELSE ValueOf(o, "uris")
  IN Parses(obj) /\ body # Refused =>
       /\ ReadsBack(Listed(body, c.id, "later"), fields)
       /\ Kept(Without(obj, ResponseOnly), body, EditorKeys)
       /\ DOMAIN body \cap ResponseOnly = {}
       /\ c.revisionDate # Empty => body["lastKnownRevisionDate"] = c.revisionDate
       /\ c.type = Login /\ ValueOf(obj, "login") # Null =>
            LET before == ValueOf(obj, "login")
                after  == ValueOf(body, "login")
            IN /\ Kept(before, after, LoginKeys)
               /\ fields.uri # Empty \/ Len(uris(before)) > 1 =>
                    SubSeq(uris(after), 2, Len(uris(after)))
                      = SubSeq(uris(before), 2, Len(uris(before)))
               /\ fields.uri = Empty =>
                    uris(after) = IF Len(uris(before)) > 1 THEN uris(before) ELSE << >>
=============================================================================
