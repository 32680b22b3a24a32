-------------------------------- MODULE Writes --------------------------------
(***************************************************************************)
(* Creating, editing and deleting items: the editor and the detail page it  *)
(* is opened from (qml/pages), the request body built on the last synced    *)
(* item (vault.cpp), the pipeline of AppController that writes, refreshes   *)
(* an expired token and writes again, and syncs; and the server, which      *)
(* other clients use as well.                                               *)
(*                                                                          *)
(* Each user's call keeps its own record: its request in flight has been    *)
(* handled by the server or not, and its answer arrives, arrives in part,   *)
(* or is lost; a request that was given up may still reach the server.      *)
(* Requests of several calls overtake each other.                           *)
(*                                                                          *)
(* An item has two fields: "shown" stands for what the detail page was      *)
(* pushed with (name, user name, URI, folder, favorite), "secret" for what  *)
(* the editor reads itself (password, authenticator key, notes).            *)
(*                                                                          *)
(* Left to AppController: m_busy, QSettings and sync.json, sign-out, syncs  *)
(* of other origin, a changed protected key.  Mutants (see VaultOps) are    *)
(* marked as such.                                                          *)
(***************************************************************************)
EXTENDS ApiClient, FiniteSets

CONSTANTS
  Items, NoItem,    \* server ids; the item of a call that creates one
  Listed,           \* the items there are at first
  Secrets,          \* what their secrets are at first
  Texts,            \* what a user may type into a field
  Empty, Damaged,   \* no text; a ciphertext that does not decrypt
  Absent,           \* an id the server does not list: unused, or in the trash
  NoPage,           \* a page that is not up
  Waiting,          \* the server has not handled the request yet
  MaxCalls,         \* bound: calls of the user
  MaxRev,           \* bound: revisions of an item
  MaxTokens         \* bound: access tokens issued

Fields  == {"shown", "secret"}
Content == [Fields -> Texts \cup {Empty, Damaged}]
Stored  == [rev : 1 .. MaxRev, text : Content]
Store   == [Items -> Stored \cup {Absent}]
Calls   == 1 .. MaxCalls
Tokens  == 1 .. MaxTokens
NoToken == 0
Session == [token : Tokens]   \* the body of a token answer
Replying == [status : Statuses, body : {NoBody} \cup Session \cup Store]
Gone    == 0   \* in place of a revision: the item was moved to the trash

ASSUME WritesAssumption ==
  /\ Listed \subseteq Items /\ Secrets \subseteq Texts \cup {Damaged}
  /\ NoItem \notin Items /\ Absent \notin Stored
  /\ Empty \notin Texts \cup {Damaged} /\ Damaged \notin Texts
  /\ MaxCalls \in Nat /\ {MaxRev, MaxTokens} \subseteq Nat \ {0}
  /\ NoBody \notin Session \cup Store /\ Waiting \notin Replying

Detail == [item : Items, text : Texts \cup {Empty, Damaged}]
Editor == [item : Items \cup {NoItem}, text : Content]

ASSUME PagesAssumption == NoPage \notin Detail /\ NoPage \notin Editor

VARIABLES
  server,   \* the account's items
  valid,    \* access tokens the server accepts
  issued,   \* how many it has issued
  late,     \* per call, its write given up before the server handled it
  access,   \* m_accessToken
  signedIn, \* there is a refresh token
  page,     \* m_state
  open,     \* ~m_vault.isLocked()
  local,    \* m_data.ciphers: the server's items when last synced
  detail,   \* ItemDetailPage
  editor,   \* ItemEditPage
  call,     \* the user's calls of createItem, saveItem and deleteItem
  effect    \* history: what each call did to the server's items

pages   == <<page, open, detail, editor>>
session == <<access, signedIn>>
remote  == <<server, valid, issued, late, effect>>
vars == <<server, valid, issued, late, access, signedIn, page, open, local,
          detail, editor, call, effect>>

Phases == {"unused", "write", "refresh", "rewrite", "sync", "done"}
Tellings == {"nothing", "saved", "unsynced", "failed", "locked"}
Kinds  == {"create", "update", "delete"}

Unused == [phase |-> "unused", kind |-> "create", item |-> NoItem,
           text |-> [f \in Fields |-> Empty], touched |-> {}, seen |-> Absent,
           token |-> NoToken, reply |-> Waiting, told |-> "nothing"]

(* An item whose secret may not decrypt, while its name does.                *)
FirstSynced == {s \in [rev : {1}, text : Content] :
                  s.text["shown"] \in Texts /\ s.text["secret"] \in Secrets}

Init ==
  /\ server \in [Items -> FirstSynced \cup {Absent}]
  /\ \A i \in Items : server[i] # Absent => i \in Listed
  /\ access \in {NoToken, 1} /\ signedIn \in BOOLEAN
  /\ access = NoToken => signedIn
  /\ valid = {access} \ {NoToken} /\ issued = 1
  /\ late = [c \in Calls |-> Unused] /\ local = server
  /\ page = "unlocked" /\ open = TRUE /\ detail = NoPage /\ editor = NoPage
  /\ call = [c \in Calls |-> Unused] /\ effect = [c \in Calls |-> {}]

-----------------------------------------------------------------------------
(* Pages.  VaultPage hands the detail page copies of the display fields; the *)
(* editor takes these over and reads the secrets, an unreadable one as "".   *)
Readable(text) == IF text = Damaged THEN Empty ELSE text

(* Bounds: nothing is opened for a call that MaxCalls would not allow, and    *)
(* nothing else happens once every call has ended.                           *)
CallsLeft == \E c \in Calls : call[c] = Unused
Ongoing   == \E c \in Calls : call[c].phase # "done"

OpenDetail(i) ==
  /\ CallsLeft /\ page = "unlocked" /\ open /\ detail = NoPage /\ editor = NoPage
  /\ local[i] # Absent
  /\ detail' = [item |-> i, text |-> local[i].text["shown"]]
  /\ UNCHANGED <<remote, session, page, open, local, editor, call>>

Back ==
  /\ editor # NoPage \/ detail # NoPage
  /\ editor' = NoPage
  /\ detail' = IF editor = NoPage THEN NoPage ELSE detail
  /\ UNCHANGED <<remote, session, page, open, local, call>>

ItemSecret(i) ==
  IF open /\ local[i] # Absent THEN Readable(local[i].text["secret"]) ELSE Empty

EditItem ==
  /\ CallsLeft /\ detail # NoPage /\ editor = NoPage
  /\ editor' = [item |-> detail.item,
                text |-> [f \in Fields |-> IF f = "shown" THEN detail.text
                                           ELSE ItemSecret(detail.item)]]
  /\ UNCHANGED <<remote, session, page, open, local, detail, call>>

NewItem ==
  /\ CallsLeft /\ page = "unlocked" /\ detail = NoPage /\ editor = NoPage
  /\ editor' = [item |-> NoItem, text |-> [f \in Fields |-> Empty]]
  /\ UNCHANGED <<remote, session, page, open, local, detail, call>>

-----------------------------------------------------------------------------
(* The pipeline: what call c does next, with which token.                    *)
Asked(c, record, phase, token) ==
  call' = [call EXCEPT ![c] = [record EXCEPT
             !.phase = phase, !.reply = Waiting, !.token = token]]

Told(c, telling) ==
  call' = [call EXCEPT ![c] = [Unused EXCEPT !.phase = "done", !.told = telling]]

RefreshThenWrite(c, record) ==
  IF signedIn THEN Asked(c, record, "refresh", NoToken) ELSE Told(c, "failed")

WriteAndResync(record) ==
  \E c \in Calls :
    /\ call[c] = Unused /\ \A d \in Calls : call[d] = Unused => c <= d
    /\ IF access = NoToken THEN RefreshThenWrite(c, record)
       ELSE Asked(c, record, "write", access)

(* Mutant of Body: the update carries no lastKnownRevisionDate.              *)
BodyUnguarded(kind, i, text, touched) ==
  [Unused EXCEPT !.kind = kind, !.item = i, !.text = text, !.touched = touched]

(* The body of an update starts from the item last synced, whose revision it *)
(* carries (lastKnownRevisionDate); every field is written from the editor.  *)
Body(kind, i, text, touched) ==
  [Unused EXCEPT !.kind = kind, !.item = i, !.text = text,
     !.touched = touched,
     !.seen = IF kind = "update" THEN local[i] ELSE Absent]

(* createItem and saveItem, on accepting the editor with what was typed into *)
(* it: over an unlocked state, with a name, for an item the vault still has. *)
CanBuild == open /\ (editor.item # NoItem => local[editor.item] # Absent)

SaveItem(text) ==
  /\ editor # NoPage /\ text["shown"] # Empty
  /\ \A f \in Fields : text[f] \in Texts \cup {editor.text[f]}
  /\ editor' = NoPage
  /\ IF page = "unlocked" /\ CanBuild
     THEN WriteAndResync(Body(IF editor.item = NoItem THEN "create" ELSE "update",
                              editor.item, text,
                              {f \in Fields : text[f] # editor.text[f]}))
     ELSE UNCHANGED call
  /\ UNCHANGED <<remote, session, page, open, local, detail>>

(* The remorse ends 5 s later and pops the page that is then on top.         *)
DeleteItem ==
  /\ detail # NoPage /\ editor' = NoPage
  /\ detail' = IF editor = NoPage THEN NoPage ELSE detail
  /\ IF page = "unlocked"
     THEN WriteAndResync(Body("delete", detail.item,
                              [f \in Fields |-> Empty], {}))
     ELSE UNCHANGED call
  /\ UNCHANGED <<remote, session, page, open, local>>

(* Mutants of Written: any failed write is written again; the answer of the  *)
(* second write is not looked at.                                            *)
WrittenRetrying(c, answer) ==
  IF WriteOk(answer) THEN Asked(c, call[c], "sync", access)
  ELSE RefreshThenWrite(c, call[c])
WrittenUnchecked(c, answer) ==
  IF call[c].phase = "write" /\ TokenExpired(answer)
  THEN RefreshThenWrite(c, call[c])
  ELSE Asked(c, call[c], "sync", access)

(* finishWrite, after the one retry that an expired token is given.          *)
Written(c, answer) ==
  IF WriteOk(answer) THEN Asked(c, call[c], "sync", access)
  ELSE IF call[c].phase = "write" /\ TokenExpired(answer)
       THEN RefreshThenWrite(c, call[c])
       ELSE Told(c, "failed")

WriteAnswered(c, answer) ==
  /\ call[c].phase \in {"write", "rewrite"}
  /\ Written(c, answer)
  /\ UNCHANGED <<session, pages, local>>

(* Mutant of Refreshed: a refused refresh leaves the call where it is.        *)
RefreshedSilent(c, answer) ==
  /\ call[c].phase = "refresh"
  /\ IF TokenOk(answer)
     THEN /\ access' = answer.body.token
          /\ Asked(c, call[c], "rewrite", answer.body.token)
     ELSE UNCHANGED <<access, call>>
  /\ UNCHANGED <<signedIn, pages, local>>

Refreshed(c, answer) ==
  /\ call[c].phase = "refresh"
  /\ IF TokenOk(answer)
     THEN /\ access' = answer.body.token
          /\ Asked(c, call[c], "rewrite", answer.body.token)
     ELSE UNCHANGED access /\ Told(c, "failed")
  /\ UNCHANGED <<signedIn, pages, local>>

(* Mutant of ApplyWriteSync: success is told before the reload is looked at. *)
ApplyWriteSyncHasty(c, answer) ==
  /\ local' = IF answer.body = NoBody THEN local ELSE answer.body
  /\ UNCHANGED pages /\ Told(c, "saved")

(* applyWriteSync: the answer replaces the items of an open vault, or of the *)
(* one unlocked next, unless it does not parse.  Another state than unlocked *)
(* drops the pages.                                                          *)
ApplyWriteSync(c, answer) ==
  /\ local' = IF answer.body = NoBody THEN local ELSE answer.body
  /\ IF open /\ answer.body # NoBody
     THEN UNCHANGED pages /\ Told(c, "saved")
     ELSE /\ page' = "locked" /\ detail' = NoPage /\ editor' = NoPage
          /\ UNCHANGED open /\ Told(c, "locked")

Synced(c, answer) ==
  /\ call[c].phase = "sync"
  /\ IF SyncOk(answer) THEN ApplyWriteSync(c, answer)
     ELSE UNCHANGED <<local, pages>> /\ Told(c, "unsynced")
  /\ UNCHANGED session

Continue(c, answer) ==
  WriteAnswered(c, answer) \/ Refreshed(c, answer) \/ Synced(c, answer)

InFlight(c) == call[c].phase \notin {"unused", "done"}

Arrives(c) ==
  /\ InFlight(c) /\ call[c].reply # Waiting
  /\ \E answer \in Arrivals(call[c].reply) : Continue(c, answer)
  /\ UNCHANGED remote

(* Nothing came within 30 s; the request may be on its way for longer.       *)
TimesOut(c) ==
  /\ InFlight(c) /\ call[c].reply = Waiting
  /\ Continue(c, Silence)
  /\ late' = IF call[c].phase \in {"write", "rewrite"}
             THEN [late EXCEPT ![c] = call[c]] ELSE late
  /\ UNCHANGED <<server, valid, issued, effect>>

-----------------------------------------------------------------------------
(* The vault locks, by hand or by its timer, and is unlocked again.          *)
LockVaultToLogin ==   \* mutant of LockVault
  /\ Ongoing /\ open /\ open' = FALSE /\ page' = "login"
  /\ detail' = NoPage /\ editor' = NoPage
  /\ UNCHANGED <<remote, session, local, call>>

LockVault ==
  /\ Ongoing /\ open /\ open' = FALSE /\ page' = "locked"
  /\ detail' = NoPage /\ editor' = NoPage
  /\ UNCHANGED <<remote, session, local, call>>

UnlockVault ==
  /\ CallsLeft /\ page = "locked" /\ open' = TRUE /\ page' = "unlocked"
  /\ UNCHANGED <<remote, session, local, detail, editor, call>>

-----------------------------------------------------------------------------
(* The server.  An update is refused when the item has another revision than *)
(* the one it names; a body without one would always be taken.               *)
Reply(c, status, body) ==
  call' = [call EXCEPT ![c].reply = Answer(status, body)]

Effects(record) ==
  LET i == record.item IN
  CASE record.kind = "create" ->
         {<<j, 1>> : j \in {j \in Items : server[j] = Absent
                              /\ \A d \in Calls, r \in 0 .. MaxRev :
                                   <<j, r>> \notin effect[d]}}
    [] record.kind = "update" ->
         IF server[i] # Absent /\ server[i].rev < MaxRev
            /\ record.seen \in {Absent, server[i]}
         THEN {<<i, server[i].rev + 1>>} ELSE {}
    [] record.kind = "delete" ->
         IF server[i] # Absent THEN {<<i, Gone>>} ELSE {}

Apply(c, record, e) ==
  /\ server' = [server EXCEPT ![e[1]] =
                  IF e[2] = Gone THEN Absent
                  ELSE [rev |-> e[2], text |-> record.text]]
  /\ effect' = [effect EXCEPT ![c] = @ \cup {e}]

HandleWrite(c) ==
  /\ call[c].phase \in {"write", "rewrite"} /\ call[c].reply = Waiting
  /\ \/ /\ call[c].token \in valid
        /\ \E e \in Effects(call[c]) : Apply(c, call[c], e)
        /\ Reply(c, Accepted, NoBody)
     \/ /\ \E status \in IF call[c].token \in valid
                         THEN {Rejected, Forbidden} ELSE {BadToken} :
             Reply(c, status, NoBody)
        /\ UNCHANGED <<server, effect>>
  /\ UNCHANGED <<valid, issued, late, session, pages, local>>

(* A request given up by the client gets through after all, if it ever does.  *)
HandleLate(c) ==
  /\ late[c] # Unused /\ late' = [late EXCEPT ![c] = Unused]
  /\ \E e \in Effects(late[c]) : Apply(c, late[c], e)
  /\ UNCHANGED <<valid, issued, session, pages, local, call>>

HandleRefresh(c) ==
  /\ call[c].phase = "refresh" /\ call[c].reply = Waiting
  /\ \/ /\ issued < MaxTokens
        /\ issued' = issued + 1 /\ valid' = valid \cup {issued + 1}
        /\ Reply(c, Accepted, [token |-> issued + 1])
     \/ Reply(c, Rejected, NoBody) /\ UNCHANGED <<issued, valid>>
  /\ UNCHANGED <<server, late, effect, session, pages, local>>

HandleSync(c) ==
  /\ call[c].phase = "sync" /\ call[c].reply = Waiting
  /\ IF call[c].token \in valid THEN Reply(c, Accepted, server)
     ELSE Reply(c, BadToken, NoBody)
  /\ UNCHANGED <<remote, session, pages, local>>

ExpireTokens ==
  /\ Ongoing /\ valid # {} /\ valid' = {}
  /\ UNCHANGED <<server, issued, late, effect, session, pages, local, call>>

OtherClientEdits(i) ==
  /\ Ongoing /\ server[i] # Absent /\ server[i].rev + 1 < MaxRev
  /\ \E text \in [Fields -> Texts] :
       server' = [server EXCEPT ![i] = [rev |-> @.rev + 1, text |-> text]]
  /\ UNCHANGED <<valid, issued, late, effect, session, pages, local, call>>

Serves(c) == HandleWrite(c) \/ HandleRefresh(c) \/ HandleSync(c)
Ends(c)   == Arrives(c) \/ TimesOut(c)

User ==
  \/ \E i \in Items : OpenDetail(i)
  \/ Back \/ EditItem \/ NewItem \/ DeleteItem
  \/ \E text \in Content : SaveItem(text)
  \/ LockVault \/ UnlockVault

Next ==
  \/ User
  \/ \E c \in Calls : Serves(c) \/ Ends(c) \/ HandleLate(c)
  \/ ExpireTokens
  \/ \E i \in Items : OtherClientEdits(i)

(* The 30 s of every request end (armTimeout); nothing else is certain.      *)
Spec == Init /\ [][Next]_vars /\ \A c \in Calls : WF_vars(Ends(c))

-----------------------------------------------------------------------------
(* The members keep their types.                                             *)
Call == [phase : Phases, kind : Kinds, item : Items \cup {NoItem},
         text : Content, touched : SUBSET Fields, seen : Stored \cup {Absent},
         token : Tokens \cup {NoToken}, reply : {Waiting} \cup Replying,
         told : Tellings]

TypeOK ==
  /\ server \in Store /\ local \in Store
  /\ issued \in 0 .. MaxTokens /\ valid \subseteq Tokens
  /\ access \in Tokens \cup {NoToken} /\ signedIn \in BOOLEAN
  /\ page \in {"locked", "unlocked"} /\ open \in BOOLEAN
  /\ detail \in Detail \cup {NoPage} /\ editor \in Editor \cup {NoPage}
  /\ call \in [Calls -> Call] /\ late \in [Calls -> Call]
  /\ effect \in [Calls -> SUBSET (Items \X (0 .. MaxRev))]

(* However a write ended, timed out and reached the server late, or was      *)
(* repeated with a new token, it was carried out once at most: the retry of  *)
(* writeAndResync never doubles an item.                                     *)
AppliedAtMostOnce ==
  \A c \in Calls : \A d, e \in effect[c] : d = e

(* What the user is told was saved is on the server, and was put there by    *)
(* this very call ("Item saved", "Saved - sync failed").                     *)
SavedIsStored ==
  \A c \in Calls : call[c].told \in {"saved", "unsynced"} => effect[c] # {}

(* "Pull the server's canonical state" (appcontroller.cpp:778): by the time  *)
(* success is told the vault has what the call made of the item, or what     *)
(* others have made of it since - not a state from before the write.         *)
HasEffect(store, e) ==
  \/ store[e[1]] = Absent
  \/ e[2] # Gone /\ store[e[1]].rev >= e[2]
SavedIsShown ==
  [][\A c \in Calls : call[c].told # "saved" /\ call'[c].told = "saved" =>
       \A e \in effect[c] : HasEffect(local', e)]_vars

(* "the server rejects the edit if the item changed elsewhere since this     *)
(* revision" (vault.cpp:760-761): an edit that is carried out replaces the   *)
(* content it was built on, though others write, and writes arrive late.     *)
Sent(c) == IF InFlight(c) THEN call[c] ELSE late[c]
NoBlindOverwrite ==
  [][\A c \in Calls :
       effect'[c] # effect[c] /\ Sent(c).kind = "update" =>
         server[Sent(c).item] = Sent(c).seen]_vars

(* Every call ends and tells the user how, with the server gone, tokens that *)
(* expire and other calls under way: for the MaxCalls calls there are, none  *)
(* is in flight again and again.                                             *)
CallsEnd == []<>(\A c \in Calls : ~InFlight(c))

-----------------------------------------------------------------------------
(* What the repository says and the program does not keep, checked by a run  *)
(* that finds the counterexample: "every editable field is prefilled with    *)
(* its current value so saving never erases a field the user did not touch"  *)
(* (ItemEditPage.qml:6-8).                                                   *)
UntouchedKept ==
  [][\A c \in Calls :
       effect'[c] # effect[c] /\ Sent(c).kind = "update" =>
         \A f \in Fields \ Sent(c).touched :
           server'[Sent(c).item].text[f] = server[Sent(c).item].text[f]]_vars
=============================================================================
