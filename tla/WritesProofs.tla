---------------------------- MODULE WritesProofs ----------------------------
(***************************************************************************)
(* For every set of items and texts, and every number of calls, revisions   *)
(* and tokens: a write is carried out once at most, a success that is told  *)
(* is stored and shown, and no edit replaces what it was not built on.      *)
(***************************************************************************)
EXTENDS Writes, TLAPS

(* What a call sends, or sent before it was given up.                        *)
Sendable(r) ==
  /\ r.kind # "create" => r.item \in Items
  /\ r.kind = "update" => r.seen # Absent

Once(eff) == \E e \in Items \X (0 .. MaxRev) : eff = {e}

(* A call, its write given up and what it did agree.                         *)
WriteAgrees(r, eff) ==
  r.phase \in {"write", "rewrite"} =>
    IF r.reply # Waiting /\ WriteOk(r.reply) THEN Once(eff) ELSE eff = {}

RefreshAgrees(r, eff) ==
  r.phase = "refresh" =>
    /\ eff = {}
    /\ r.reply # Waiting /\ TokenOk(r.reply) => r.reply.body \in Session

SyncAgrees(r, eff) ==
  r.phase = "sync" =>
    /\ Once(eff)
    /\ r.reply # Waiting /\ SyncOk(r.reply) /\ r.reply.body # NoBody =>
         /\ r.reply.body \in Store
         /\ \A e \in eff : HasEffect(r.reply.body, e)

DoneAgrees(r, eff) ==
  /\ r.phase = "unused" => eff = {}
  /\ r.phase # "done" => r.told = "nothing"
  /\ r.phase = "done" => Once(eff) \/ (r.told = "failed" /\ eff = {})

LateAgrees(r, l, eff) ==
  l # Unused => /\ r.phase = "done" /\ r.told = "failed" /\ eff = {}
                /\ Sendable(l)

Agrees(r, l, eff) ==
  /\ Sendable(r) /\ WriteAgrees(r, eff) /\ RefreshAgrees(r, eff)
  /\ SyncAgrees(r, eff) /\ DoneAgrees(r, eff) /\ LateAgrees(r, l, eff)

CallsAgree == \A c \in Calls : Agrees(call[c], late[c], effect[c])

(* What a call did is there still, or was overtaken; a deleted item is not   *)
(* used again.                                                               *)
ServerKeeps == \A c \in Calls : \A e \in effect[c] : HasEffect(server, e)

WritesInv == TypeOK /\ CallsAgree /\ ServerKeeps

-----------------------------------------------------------------------------
LEMMA UnusedIsCall == Unused \in Call
  BY WritesAssumption DEF Unused, Call, Phases, Kinds, Content, NoToken, Tellings,
     Fields

LEMMA UnusedFields ==
  /\ Unused.phase = "unused" /\ Unused.told = "nothing" /\ Unused.kind = "create"
  /\ Unused.seen = Absent /\ Unused.item = NoItem
  BY DEF Unused

(* A call that ended.                                                        *)
LEMMA Ended ==
  ASSUME NEW telling \in Tellings
  PROVE  LET r == [Unused EXCEPT !.phase = "done", !.told = telling] IN
         /\ r \in Call /\ r.phase = "done" /\ r.told = telling
         /\ r.kind = "create"
  BY UnusedIsCall DEF Call, Unused, Phases

(* A request that the server answered.                                       *)
LEMMA Answered ==
  ASSUME NEW record \in Call, NEW status \in Statuses,
         NEW body \in {NoBody} \cup Session \cup Store
  PROVE  LET r == [record EXCEPT !.reply = Answer(status, body)]
         IN  /\ r \in Call /\ r.reply # Waiting
             /\ r.reply = [status |-> status, body |-> body]
             /\ r.reply.status = status /\ r.reply.body = body
             /\ r.phase = record.phase /\ r.kind = record.kind
             /\ r.item = record.item /\ r.seen = record.seen
             /\ r.told = record.told
  <1>1. Answer(status, body) \in Replying
    BY DEF Answer, Replying
  <1> QED
    BY <1>1, WritesAssumption DEF Call, Answer

-----------------------------------------------------------------------------
(* The pipeline: one call moves on, while what was done stays as it is.      *)
Steady == UNCHANGED <<late, effect, server>>

LEMMA MovesOn ==
  ASSUME WritesInv, Steady, NEW c \in Calls, NEW r \in Call,
         call' = [call EXCEPT ![c] = r], Agrees(r, late[c], effect[c])
  PROVE  call' \in [Calls -> Call] /\ CallsAgree' /\ ServerKeeps'
  <1>1. call' \in [Calls -> Call] /\ call'[c] = r
        /\ \A d \in Calls \ {c} : call'[d] = call[d]
    BY DEF WritesInv, TypeOK
  <1>2. late' = late /\ effect' = effect /\ server' = server
    BY DEF Steady
  <1>3. ASSUME NEW d \in Calls PROVE Agrees(call'[d], late'[d], effect'[d])
    BY <1>1, <1>2 DEF WritesInv, CallsAgree
  <1> QED
    BY <1>1, <1>2, <1>3 DEF WritesInv, CallsAgree, ServerKeeps, HasEffect

LEMMA TellsFailed ==
  ASSUME WritesInv, Steady, NEW c \in Calls, Told(c, "failed"),
         effect[c] = {}, late[c] = Unused
  PROVE  call' \in [Calls -> Call] /\ CallsAgree' /\ ServerKeeps'
  <1> DEFINE r == [Unused EXCEPT !.phase = "done", !.told = "failed"]
  <1>1. r \in Call /\ r.phase = "done" /\ r.told = "failed" /\ r.kind = "create"
    BY Ended DEF Tellings
  <1> HIDE DEF r
  <1>2. Agrees(r, late[c], effect[c])
    BY <1>1 DEF Agrees, Sendable, WriteAgrees, RefreshAgrees, SyncAgrees,
       DoneAgrees, LateAgrees
  <1> QED
    BY <1>1, <1>2, MovesOn DEF Told, r

LEMMA TellsDone ==
  ASSUME WritesInv, Steady, NEW c \in Calls, Once(effect[c]), late[c] = Unused,
         NEW telling \in Tellings, Told(c, telling)
  PROVE  call' \in [Calls -> Call] /\ CallsAgree' /\ ServerKeeps'
  <1> DEFINE r == [Unused EXCEPT !.phase = "done", !.told = telling]
  <1>1. r \in Call /\ r.phase = "done" /\ r.told = telling /\ r.kind = "create"
    BY Ended
  <1> HIDE DEF r
  <1>2. Agrees(r, late[c], effect[c])
    BY <1>1 DEF Agrees, Sendable, WriteAgrees, RefreshAgrees, SyncAgrees,
       DoneAgrees, LateAgrees
  <1> QED
    BY <1>1, <1>2, MovesOn DEF Told, r

(* A write, or the refresh before one, is asked for by a call that did       *)
(* nothing yet; the sync after one by a call that did its part.              *)
LEMMA AsksAgain ==
  ASSUME WritesInv, Steady, NEW c \in Calls, late[c] = Unused,
         NEW record \in Call, Sendable(record), record.told = "nothing",
         NEW phase \in {"write", "refresh", "rewrite", "sync"},
         NEW token \in Tokens \cup {NoToken}, Asked(c, record, phase, token),
         IF phase = "sync" THEN Once(effect[c]) ELSE effect[c] = {}
  PROVE  call' \in [Calls -> Call] /\ CallsAgree' /\ ServerKeeps'
  <1> DEFINE r == [record EXCEPT !.phase = phase, !.reply = Waiting, !.token = token]
  <1>0. phase \in Phases
    BY DEF Phases
  <1>1. /\ r \in Call /\ r.phase = phase /\ r.reply = Waiting
        /\ r.kind = record.kind /\ r.item = record.item /\ r.seen = record.seen
        /\ r.told = record.told
    BY <1>0 DEF Call
  <1> HIDE DEF r
  <1>2. Agrees(r, late[c], effect[c])
    BY <1>1 DEF Agrees, Sendable, WriteAgrees, RefreshAgrees, SyncAgrees,
       DoneAgrees, LateAgrees
  <1> QED
    BY <1>1, <1>2, MovesOn DEF Asked, r

LEMMA RefreshesOrFails ==
  ASSUME WritesInv, Steady, NEW c \in Calls, late[c] = Unused, effect[c] = {},
         NEW record \in Call, Sendable(record), record.told = "nothing",
         RefreshThenWrite(c, record)
  PROVE  call' \in [Calls -> Call] /\ CallsAgree' /\ ServerKeeps'
  BY AsksAgain, TellsFailed DEF RefreshThenWrite

(* What an action leaves of the other variables.                             *)
PagesTyped ==
  /\ page \in {"locked", "unlocked"} /\ open \in BOOLEAN
  /\ detail \in Detail \cup {NoPage} /\ editor \in Editor \cup {NoPage}
  /\ local \in Store /\ access \in Tokens \cup {NoToken} /\ signedIn \in BOOLEAN

LEMMA StartsWrite ==
  ASSUME WritesInv, Steady, NEW record \in Call, Sendable(record),
         record.told = "nothing", WriteAndResync(record)
  PROVE  call' \in [Calls -> Call] /\ CallsAgree' /\ ServerKeeps'
  <1>1. PICK c \in Calls :
          /\ call[c] = Unused
          /\ IF access = NoToken THEN RefreshThenWrite(c, record)
             ELSE Asked(c, record, "write", access)
    BY DEF WriteAndResync
  <1>2. effect[c] = {} /\ late[c] = Unused
    BY <1>1, UnusedFields DEF WritesInv, CallsAgree, Agrees, DoneAgrees, LateAgrees
  <1>3. access \in Tokens \cup {NoToken}
    BY DEF WritesInv, TypeOK
  <1> QED
    BY <1>1, <1>2, <1>3, RefreshesOrFails, AsksAgain

-----------------------------------------------------------------------------
(* The user's actions.                                                       *)
LEMMA OpenDetailKeeps ==
  ASSUME WritesInv, NEW i \in Items, OpenDetail(i)
  PROVE  WritesInv'
  <1>1. detail' \in Detail
    <2>1. local[i] \in Stored
      BY DEF WritesInv, TypeOK, OpenDetail, Store
    <2> QED
      BY <2>1 DEF OpenDetail, Detail, Stored, Content, Fields
  <1>2. UNCHANGED <<server, late, effect, call>>
    BY DEF OpenDetail, remote
  <1> QED
    BY <1>1, <1>2 DEF OpenDetail, WritesInv, TypeOK, CallsAgree, ServerKeeps,
       HasEffect, remote, session

LEMMA BackKeeps ==
  ASSUME WritesInv, Back
  PROVE  WritesInv'
  BY DEF Back, WritesInv, TypeOK, CallsAgree, ServerKeeps, HasEffect, remote, session

LEMMA EditItemKeeps ==
  ASSUME WritesInv, EditItem
  PROVE  WritesInv'
  <1>1. detail \in Detail
    BY DEF WritesInv, TypeOK, EditItem
  <1>2. ItemSecret(detail.item) \in Texts \cup {Empty, Damaged}
    <2>1. detail.item \in Items
      BY <1>1 DEF Detail
    <2>2. local[detail.item] # Absent => local[detail.item] \in Stored
      BY <2>1 DEF WritesInv, TypeOK, Store
    <2>3. local[detail.item] # Absent =>
            local[detail.item].text["secret"] \in Texts \cup {Empty, Damaged}
      BY <2>2 DEF Stored, Content, Fields
    <2> QED
      BY <2>3 DEF ItemSecret, Readable
  <1>3. editor' \in Editor
    BY <1>1, <1>2 DEF EditItem, Editor, Detail, Content, Fields
  <1>4. UNCHANGED <<server, late, effect, call>>
    BY DEF EditItem, remote
  <1> QED
    BY <1>3, <1>4 DEF EditItem, WritesInv, TypeOK, CallsAgree, ServerKeeps,
       HasEffect, remote, session

LEMMA NewItemKeeps ==
  ASSUME WritesInv, NewItem
  PROVE  WritesInv'
  <1>1. editor' \in Editor
    BY DEF NewItem, Editor, Content
  <1> QED
    BY <1>1 DEF NewItem, WritesInv, TypeOK, CallsAgree, ServerKeeps, HasEffect,
       remote, session

(* A body built on the item last synced can be sent.                         *)
LEMMA BodyFits ==
  ASSUME WritesInv, NEW kind \in Kinds, NEW i \in Items \cup {NoItem},
         NEW text \in Content, NEW touched \in SUBSET Fields,
         kind # "create" => i \in Items,
         kind = "update" => local[i] # Absent
  PROVE  LET r == Body(kind, i, text, touched)
         IN  r \in Call /\ Sendable(r) /\ r.told = "nothing"
  <1>1. kind = "update" => local[i] \in Stored
    BY DEF WritesInv, TypeOK, Store
  <1> DEFINE seen == IF kind = "update" THEN local[i] ELSE Absent
  <1>2. seen \in Stored \cup {Absent} /\ (kind = "update" => seen # Absent)
    BY <1>1
  <1> HIDE DEF seen
  <1>3. LET r == [Unused EXCEPT !.kind = kind, !.item = i, !.text = text,
                    !.touched = touched, !.seen = seen]
        IN  /\ r \in Call /\ r.kind = kind /\ r.item = i /\ r.seen = seen
            /\ r.told = "nothing"
    BY <1>2, UnusedIsCall, UnusedFields DEF Call
  <1> QED
    BY <1>2, <1>3 DEF Body, Sendable, seen

LEMMA SaveItemKeeps ==
  ASSUME WritesInv, NEW text \in Content, SaveItem(text)
  PROVE  WritesInv'
  <1>1. Steady
    BY DEF SaveItem, remote, Steady
  <1>2. editor \in Editor
    BY DEF WritesInv, TypeOK, SaveItem
  <1>3. call' \in [Calls -> Call] /\ CallsAgree' /\ ServerKeeps'
    <2>1. CASE page = "unlocked" /\ CanBuild
      <3> DEFINE kind == IF editor.item = NoItem THEN "create" ELSE "update"
                 touched == {f \in Fields : text[f] # editor.text[f]}
                 r == Body(kind, editor.item, text, touched)
      <3>1. kind \in Kinds /\ touched \in SUBSET Fields
        BY DEF Kinds
      <3>2. /\ editor.item \in Items \cup {NoItem}
            /\ kind # "create" => editor.item \in Items
            /\ kind = "update" => local[editor.item] # Absent
        BY <1>2, <2>1 DEF Editor, CanBuild
      <3> HIDE DEF kind, touched
      <3>3. r \in Call /\ Sendable(r) /\ r.told = "nothing"
        BY <3>1, <3>2, BodyFits
      <3>4. WriteAndResync(r)
        BY <2>1 DEF SaveItem, kind, touched
      <3> HIDE DEF r
      <3> QED
        BY <1>1, <3>3, <3>4, StartsWrite
    <2>2. CASE ~(page = "unlocked" /\ CanBuild)
      BY <1>1, <2>2 DEF SaveItem, WritesInv, TypeOK, CallsAgree, ServerKeeps,
         HasEffect, Steady
    <2> QED
      BY <2>1, <2>2
  <1> QED
    BY <1>3 DEF SaveItem, WritesInv, TypeOK, remote, session

LEMMA DeleteItemKeeps ==
  ASSUME WritesInv, DeleteItem
  PROVE  WritesInv'
  <1>1. Steady
    BY DEF DeleteItem, remote, Steady
  <1>2. detail \in Detail
    BY DEF WritesInv, TypeOK, DeleteItem
  <1>3. call' \in [Calls -> Call] /\ CallsAgree' /\ ServerKeeps'
    <2>1. CASE page = "unlocked"
      <3> DEFINE blank == [f \in Fields |-> Empty]
                 r == Body("delete", detail.item, blank, {})
      <3>1. blank \in Content /\ detail.item \in Items
        BY <1>2 DEF Content, Detail
      <3>2. r \in Call /\ Sendable(r) /\ r.told = "nothing"
        BY <3>1, BodyFits DEF Kinds
      <3>3. WriteAndResync(r)
        BY <2>1 DEF DeleteItem
      <3> HIDE DEF r
      <3> QED
        BY <1>1, <3>2, <3>3, StartsWrite
    <2>2. CASE page # "unlocked"
      BY <1>1, <2>2 DEF DeleteItem, WritesInv, TypeOK, CallsAgree, ServerKeeps,
         HasEffect, Steady
    <2> QED
      BY <2>1, <2>2
  <1> QED
    BY <1>3 DEF DeleteItem, WritesInv, TypeOK, remote, session

LEMMA LockVaultKeeps ==
  ASSUME WritesInv, LockVault
  PROVE  WritesInv'
  BY DEF LockVault, WritesInv, TypeOK, CallsAgree, ServerKeeps, HasEffect, remote,
     session

LEMMA UnlockVaultKeeps ==
  ASSUME WritesInv, UnlockVault
  PROVE  WritesInv'
  BY DEF UnlockVault, WritesInv, TypeOK, CallsAgree, ServerKeeps, HasEffect, remote,
     session

-----------------------------------------------------------------------------
(* An answer, whole, cut off or lost, goes with what the server did.         *)
Fits(c, answer) ==
  /\ call[c].phase \in {"write", "rewrite"} =>
       /\ WriteOk(answer) => Once(effect[c])
       /\ TokenExpired(answer) => effect[c] = {}
  /\ call[c].phase = "refresh" /\ TokenOk(answer) => answer.body \in Session
  /\ call[c].phase = "sync" /\ SyncOk(answer) /\ answer.body # NoBody =>
       /\ answer.body \in Store
       /\ \A e \in effect[c] : HasEffect(answer.body, e)

LEMMA SilenceFits ==
  ASSUME WritesInv, NEW c \in Calls
  PROVE  Fits(c, Silence)
  <1>1. /\ ~WriteOk(Silence) /\ ~TokenExpired(Silence)
        /\ ~TokenOk(Silence) /\ ~SyncOk(Silence)
    BY DEF Silence, Answer, NoStatus, WriteOk, TokenExpired,
       TokenOk, SyncOk, Accepted, BadToken, Forbidden
  <1> QED
    BY <1>1 DEF Fits

LEMMA ArrivalFits ==
  ASSUME WritesInv, NEW c \in Calls, call[c].reply # Waiting,
         NEW answer \in Arrivals(call[c].reply)
  PROVE  Fits(c, answer)
  <1> DEFINE reply == call[c].reply
  <1>1. reply \in Replying /\ Agrees(call[c], late[c], effect[c])
    BY DEF WritesInv, TypeOK, Call, CallsAgree
  <1>2. CASE answer = Silence
    BY <1>2, SilenceFits
  <1>3. CASE answer = CutOff(reply)
    <2>1. answer.status = reply.status /\ answer.body = NoBody
      BY <1>1, <1>3 DEF CutOff, Answer, Replying
    <2>2. WriteOk(answer) => WriteOk(reply)
      BY <2>1 DEF WriteOk
    <2>3. TokenExpired(answer) => ~WriteOk(reply)
      BY <2>1 DEF TokenExpired, WriteOk, BadToken, Forbidden
    <2>4. ~TokenOk(answer)
      BY <2>1 DEF TokenOk
    <2> QED
      BY <1>1, <2>1, <2>2, <2>3, <2>4 DEF Fits, Agrees, WriteAgrees
  <1>4. CASE answer = reply
    <2>1. TokenExpired(reply) => ~WriteOk(reply)
      BY DEF TokenExpired, WriteOk, BadToken, Forbidden
    <2> QED
      BY <1>1, <1>4, <2>1 DEF Fits, Agrees, WriteAgrees, RefreshAgrees, SyncAgrees
  <1> QED
    BY <1>2, <1>3, <1>4 DEF Arrivals

(* A call in flight has a record that can be sent and no late write.         *)
LEMMA FlightFacts ==
  ASSUME WritesInv, NEW c \in Calls, InFlight(c)
  PROVE  /\ call[c] \in Call /\ Sendable(call[c]) /\ call[c].told = "nothing"
         /\ late[c] = Unused
         /\ call[c].phase \in {"write", "rewrite", "refresh"} =>
              effect[c] = {} \/ Once(effect[c])
         /\ call[c].phase = "refresh" => effect[c] = {}
         /\ call[c].phase = "sync" => Once(effect[c])
  BY DEF WritesInv, TypeOK, CallsAgree, Agrees, DoneAgrees, LateAgrees, InFlight,
     WriteAgrees, RefreshAgrees, SyncAgrees

LEMMA WrittenKeeps ==
  ASSUME WritesInv, Steady, NEW c \in Calls, NEW answer, Fits(c, answer),
         call[c].phase \in {"write", "rewrite"}, Written(c, answer)
  PROVE  call' \in [Calls -> Call] /\ CallsAgree' /\ ServerKeeps'
  <1>1. InFlight(c)
    BY DEF InFlight
  <1>2. access \in Tokens \cup {NoToken}
    BY DEF WritesInv, TypeOK
  <1>3. CASE WriteOk(answer)
    <2>1. Once(effect[c]) /\ Asked(c, call[c], "sync", access)
      BY <1>3 DEF Fits, Written
    <2> QED
      BY <1>1, <1>2, <2>1, FlightFacts, AsksAgain
  <1>4. CASE ~WriteOk(answer) /\ call[c].phase = "write" /\ TokenExpired(answer)
    <2>1. effect[c] = {} /\ RefreshThenWrite(c, call[c])
      BY <1>4 DEF Fits, Written
    <2> QED
      BY <1>1, <2>1, FlightFacts, RefreshesOrFails
  <1>5. CASE ~WriteOk(answer) /\ ~(call[c].phase = "write" /\ TokenExpired(answer))
    <2>1. Told(c, "failed") /\ "failed" \in Tellings
      BY <1>5 DEF Written, Tellings
    <2> QED
      BY <1>1, <2>1, FlightFacts, TellsFailed, TellsDone
  <1> QED
    BY <1>3, <1>4, <1>5

LEMMA RefreshedKeeps ==
  ASSUME WritesInv, Steady, NEW c \in Calls, NEW answer, Fits(c, answer),
         Refreshed(c, answer)
  PROVE  /\ call' \in [Calls -> Call] /\ CallsAgree' /\ ServerKeeps'
         /\ access' \in Tokens \cup {NoToken}
  <1>1. InFlight(c) /\ call[c].phase = "refresh"
    BY DEF InFlight, Refreshed
  <1>2. CASE TokenOk(answer)
    <2>1. answer.body.token \in Tokens
      BY <1>1, <1>2 DEF Fits, Session
    <2>2. access' = answer.body.token /\ Asked(c, call[c], "rewrite", answer.body.token)
      BY <1>2 DEF Refreshed
    <2> QED
      BY <1>1, <2>1, <2>2, FlightFacts, AsksAgain
  <1>3. CASE ~TokenOk(answer)
    <2>1. Told(c, "failed") /\ access' = access
      BY <1>3 DEF Refreshed
    <2> QED
      BY <1>1, <2>1, FlightFacts, TellsFailed DEF WritesInv, TypeOK
  <1> QED
    BY <1>2, <1>3

LEMMA SyncedKeeps ==
  ASSUME WritesInv, Steady, NEW c \in Calls, NEW answer, Fits(c, answer),
         Synced(c, answer)
  PROVE  /\ call' \in [Calls -> Call] /\ CallsAgree' /\ ServerKeeps'
         /\ local' \in Store
         /\ detail' \in {detail, NoPage} /\ editor' \in {editor, NoPage}
         /\ page' \in {page, "locked"} /\ open' = open
  <1>1. InFlight(c) /\ call[c].phase = "sync" /\ Once(effect[c]) /\ late[c] = Unused
    BY FlightFacts DEF InFlight, Synced
  <1>2. \E telling \in Tellings : Told(c, telling)
    BY DEF Synced, ApplyWriteSync, Tellings
  <1>3. local' \in Store
    BY <1>1 DEF Synced, ApplyWriteSync, Fits, WritesInv, TypeOK
  <1>4. /\ detail' \in {detail, NoPage} /\ editor' \in {editor, NoPage}
        /\ page' \in {page, "locked"} /\ open' = open
    BY DEF Synced, ApplyWriteSync, pages
  <1> QED
    BY <1>1, <1>2, <1>3, <1>4, TellsDone

LEMMA ContinueKeeps ==
  ASSUME WritesInv, Steady, NEW c \in Calls, NEW answer, Fits(c, answer),
         Continue(c, answer), UNCHANGED <<valid, issued>>
  PROVE  WritesInv'
  <1>1. server' = server /\ late' = late /\ effect' = effect
    BY DEF Steady
  <1>2. CASE WriteAnswered(c, answer)
    <2>1. call' \in [Calls -> Call] /\ CallsAgree' /\ ServerKeeps'
      BY <1>2, WrittenKeeps DEF WriteAnswered
    <2> QED
      BY <1>1, <1>2, <2>1 DEF WriteAnswered, WritesInv, TypeOK, session, pages
  <1>3. CASE Refreshed(c, answer)
    <2>1. /\ call' \in [Calls -> Call] /\ CallsAgree' /\ ServerKeeps'
          /\ access' \in Tokens \cup {NoToken}
      BY <1>3, RefreshedKeeps
    <2> QED
      BY <1>1, <1>3, <2>1 DEF Refreshed, WritesInv, TypeOK, pages
  <1>4. CASE Synced(c, answer)
    <2>1. /\ call' \in [Calls -> Call] /\ CallsAgree' /\ ServerKeeps'
          /\ local' \in Store
          /\ detail' \in {detail, NoPage} /\ editor' \in {editor, NoPage}
          /\ page' \in {page, "locked"} /\ open' = open
      BY <1>4, SyncedKeeps
    <2> QED
      BY <1>1, <1>4, <2>1 DEF Synced, WritesInv, TypeOK, session
  <1> QED
    BY <1>2, <1>3, <1>4 DEF Continue

LEMMA ArrivesKeeps ==
  ASSUME WritesInv, NEW c \in Calls, Arrives(c)
  PROVE  WritesInv'
  <1>1. PICK answer \in Arrivals(call[c].reply) : Continue(c, answer)
    BY DEF Arrives
  <1>2. call[c].reply # Waiting /\ Steady /\ UNCHANGED <<valid, issued>>
    BY DEF Arrives, remote, Steady
  <1> QED
    BY <1>1, <1>2, ArrivalFits, ContinueKeeps

LEMMA TimesOutKeeps ==
  ASSUME WritesInv, NEW c \in Calls, TimesOut(c)
  PROVE  WritesInv'
  <1>1. InFlight(c) /\ call[c].reply = Waiting /\ Continue(c, Silence)
    BY DEF TimesOut
  <1>2. CASE call[c].phase \notin {"write", "rewrite"}
    BY <1>1, <1>2, SilenceFits, ContinueKeeps DEF TimesOut, Steady
  <1>3. CASE call[c].phase \in {"write", "rewrite"}
    <2>1. ~WriteOk(Silence) /\ ~TokenExpired(Silence)
      BY DEF Silence, Answer, NoStatus, WriteOk, TokenExpired, BadToken, Forbidden
    <2>2. Told(c, "failed") /\ UNCHANGED <<session, pages, local>>
      BY <1>1, <1>3, <2>1 DEF Continue, WriteAnswered, Written, Refreshed, Synced
    <2>3. /\ late' = [late EXCEPT ![c] = call[c]]
          /\ UNCHANGED <<server, valid, issued, effect>>
      BY <1>3 DEF TimesOut
    <2> DEFINE r == [Unused EXCEPT !.phase = "done", !.told = "failed"]
    <2>4. r \in Call /\ r.phase = "done" /\ r.told = "failed" /\ r.kind = "create"
      BY Ended DEF Tellings
    <2>5. call' = [call EXCEPT ![c] = r]
      BY <2>2 DEF Told
    <2> HIDE DEF r
    <2>6. Sendable(call[c]) /\ call[c] \in Call
      BY <1>1, FlightFacts
    <2>7. effect[c] = {}
      BY <1>1, <1>3 DEF WritesInv, CallsAgree, Agrees, WriteAgrees
    <2>8. Agrees(r, call[c], effect[c])
      BY <2>4, <2>6, <2>7 DEF Agrees, Sendable, WriteAgrees, RefreshAgrees,
         SyncAgrees, DoneAgrees, LateAgrees
    <2>9. call' \in [Calls -> Call] /\ late' \in [Calls -> Call]
      BY <2>3, <2>4, <2>5, <2>6 DEF WritesInv, TypeOK
    <2>10. ASSUME NEW d \in Calls PROVE Agrees(call'[d], late'[d], effect'[d])
      BY <2>3, <2>5, <2>8 DEF WritesInv, TypeOK, CallsAgree
    <2> QED
      BY <2>2, <2>3, <2>9, <2>10 DEF WritesInv, TypeOK, CallsAgree, ServerKeeps,
         HasEffect, session, pages
  <1> QED
    BY <1>2, <1>3

-----------------------------------------------------------------------------
(* The server.                                                               *)
LEMMA ReplyKeeps ==
  ASSUME WritesInv, NEW c \in Calls, NEW status \in Statuses,
         NEW body \in {NoBody} \cup Session \cup Store, NEW eff,
         call[c].phase # "unused", Reply(c, status, body),
         Agrees([call[c] EXCEPT !.reply = Answer(status, body)], late[c], eff),
         effect' \in [Calls -> SUBSET (Items \X (0 .. MaxRev))], effect'[c] = eff,
         \A d \in Calls \ {c} : effect'[d] = effect[d], late' = late
  PROVE  call' \in [Calls -> Call] /\ CallsAgree'
  <1> DEFINE r == [call[c] EXCEPT !.reply = Answer(status, body)]
  <1>1. call[c] \in Call
    BY DEF WritesInv, TypeOK
  <1>2. r \in Call
    BY <1>1, Answered
  <1>3. call' = [call EXCEPT ![c] = r]
    BY DEF Reply
  <1> HIDE DEF r
  <1>4. call' \in [Calls -> Call] /\ call'[c] = r
        /\ \A d \in Calls \ {c} : call'[d] = call[d]
    BY <1>2, <1>3 DEF WritesInv, TypeOK
  <1>5. Agrees(call'[c], late'[c], effect'[c])
    BY <1>4 DEF r
  <1>6. \A d \in Calls \ {c} : Agrees(call'[d], late'[d], effect'[d])
    BY <1>4 DEF WritesInv, CallsAgree
  <1> QED
    BY <1>4, <1>5, <1>6 DEF CallsAgree

(* What an effect is, and that the server keeps those of before.             *)
LEMMA ApplyKeeps ==
  ASSUME WritesInv, NEW c \in Calls, NEW r \in Call, Sendable(r),
         effect[c] = {}, NEW e \in Effects(r), Apply(c, r, e)
  PROVE  /\ e \in Items \X (0 .. MaxRev) /\ effect'[c] = {e}
         /\ \A d \in Calls \ {c} : effect'[d] = effect[d]
         /\ effect' \in [Calls -> SUBSET (Items \X (0 .. MaxRev))]
         /\ server' \in Store /\ ServerKeeps'
  <1>1. MaxRev \in Nat /\ MaxRev # 0
    BY WritesAssumption
  <1>2. server \in [Items -> Stored \cup {Absent}]
        /\ effect \in [Calls -> SUBSET (Items \X (0 .. MaxRev))]
    BY DEF WritesInv, TypeOK, Store
  <1>3. PICK i \in Items, n \in 0 .. MaxRev :
          /\ e = <<i, n>>
          /\ \/ /\ n = 1 /\ server[i] = Absent
                /\ \A d \in Calls, k \in 0 .. MaxRev : <<i, k>> \notin effect[d]
             \/ server[i] # Absent /\ n = server[i].rev + 1
             \/ server[i] # Absent /\ n = Gone
    <2>1. CASE r.kind = "create"
      BY <1>1, <2>1 DEF Effects
    <2>2. CASE r.kind = "update"
      <3>1. r.item \in Items /\ server[r.item] # Absent /\ server[r.item].rev < MaxRev
            /\ e = <<r.item, server[r.item].rev + 1>>
        BY <2>2 DEF Effects, Sendable
      <3>2. server[r.item].rev \in 1 .. MaxRev
        BY <1>2, <3>1 DEF Stored
      <3> QED
        BY <1>1, <3>1, <3>2
    <2>3. CASE r.kind = "delete"
      <3>1. r.item \in Items /\ server[r.item] # Absent /\ e = <<r.item, Gone>>
        BY <2>3 DEF Effects, Sendable
      <3> QED
        BY <1>1, <3>1 DEF Gone
    <2> QED
      BY <2>1, <2>2, <2>3 DEF Call, Kinds
  <1>4. e \in Items \X (0 .. MaxRev) /\ e[1] = i /\ e[2] = n
    BY <1>3
  <1> DEFINE new == IF n = Gone THEN Absent ELSE [rev |-> n, text |-> r.text]
  <1>5. server' = [server EXCEPT ![i] = new] /\ effect' = [effect EXCEPT ![c] = @ \cup {e}]
    BY <1>4 DEF Apply
  <1>6. new \in Stored \cup {Absent} /\ (n # Gone => new.rev = n)
    <2>1. n # Gone => n \in 1 .. MaxRev
      BY <1>1 DEF Gone
    <2>2. r.text \in Content
      BY DEF Call
    <2> QED
      BY <2>1, <2>2 DEF Stored
  <1>7. new = Absent <=> n = Gone
    BY <1>6, WritesAssumption DEF Stored, Gone, Call
  <1> HIDE DEF new
  <1>8. server' \in Store /\ server'[i] = new
        /\ \A j \in Items \ {i} : server'[j] = server[j]
    BY <1>2, <1>5, <1>6 DEF Store
  <1>9. /\ effect'[c] = {e} /\ \A d \in Calls \ {c} : effect'[d] = effect[d]
        /\ effect' \in [Calls -> SUBSET (Items \X (0 .. MaxRev))]
    BY <1>2, <1>4, <1>5
  <1>10. ASSUME NEW d \in Calls \ {c}, NEW f \in effect[d]
         PROVE  HasEffect(server, f) => HasEffect(server', f)
    <2>1. f \in Items \X (0 .. MaxRev) /\ f = <<f[1], f[2]>>
      BY <1>2
    <2>2. CASE f[1] # i
      BY <1>8, <2>1, <2>2 DEF HasEffect
    <2>3. CASE f[1] = i /\ n = Gone
      BY <1>7, <1>8, <2>3 DEF HasEffect
    <2>4. CASE f[1] = i /\ n # Gone
      <3>1. server[i] # Absent /\ n = server[i].rev + 1
        BY <1>3, <2>1, <2>4
      <3>2. server[i].rev \in 1 .. MaxRev
        BY <1>2, <3>1 DEF Stored
      <3> QED
        BY <1>1, <1>6, <1>8, <2>1, <2>4, <3>1, <3>2 DEF HasEffect
    <2> QED
      BY <2>2, <2>3, <2>4
  <1>11. HasEffect(server', e)
    BY <1>4, <1>6, <1>7, <1>8 DEF HasEffect
  <1>12. ServerKeeps'
    BY <1>9, <1>10, <1>11 DEF WritesInv, ServerKeeps, HasEffect
  <1> QED
    BY <1>4, <1>8, <1>9, <1>12

LEMMA HandleWriteKeeps ==
  ASSUME WritesInv, NEW c \in Calls, HandleWrite(c)
  PROVE  WritesInv'
  <1>1. /\ call[c].phase \in {"write", "rewrite"} /\ call[c].reply = Waiting
        /\ UNCHANGED <<valid, issued, late, access, signedIn, page, open, detail,
                       editor, local>>
    BY DEF HandleWrite, session, pages
  <1>2. effect[c] = {} /\ call[c] \in Call /\ Sendable(call[c])
        /\ Agrees(call[c], late[c], effect[c])
    BY <1>1 DEF WritesInv, TypeOK, CallsAgree, Agrees, WriteAgrees
  <1>3. CASE \E e \in Effects(call[c]) : Apply(c, call[c], e)
             /\ Reply(c, Accepted, NoBody)
    <2>1. PICK e \in Effects(call[c]) :
            Apply(c, call[c], e) /\ Reply(c, Accepted, NoBody)
      BY <1>3
    <2>2. /\ e \in Items \X (0 .. MaxRev) /\ effect'[c] = {e}
          /\ \A d \in Calls \ {c} : effect'[d] = effect[d]
          /\ effect' \in [Calls -> SUBSET (Items \X (0 .. MaxRev))]
          /\ server' \in Store /\ ServerKeeps'
      BY <1>2, <2>1, ApplyKeeps
    <2>3. Accepted \in Statuses
      BY DEF Statuses
    <2> DEFINE r == [call[c] EXCEPT !.reply = Answer(Accepted, NoBody)]
    <2>4. /\ r \in Call /\ r.reply # Waiting /\ r.reply.status = Accepted
          /\ r.phase = call[c].phase /\ r.kind = call[c].kind
          /\ r.item = call[c].item /\ r.seen = call[c].seen /\ r.told = call[c].told
      BY <1>2, <2>3, Answered
    <2> HIDE DEF r
    <2>5. WriteOk(r.reply) /\ Once({e})
      BY <2>2, <2>4 DEF WriteOk, Accepted, Once
    <2>6. Agrees(r, late[c], {e})
      BY <1>1, <1>2, <2>4, <2>5 DEF Agrees, Sendable, WriteAgrees, RefreshAgrees,
         SyncAgrees, DoneAgrees, LateAgrees
    <2>7. call' \in [Calls -> Call] /\ CallsAgree'
      BY <1>1, <2>1, <2>2, <2>3, <2>6, ReplyKeeps DEF r
    <2> QED
      BY <1>1, <2>2, <2>7 DEF WritesInv, TypeOK
  <1>4. CASE /\ \E status \in {Rejected, Forbidden, BadToken} : Reply(c, status, NoBody)
             /\ UNCHANGED <<server, effect>>
    <2>1. PICK status \in {Rejected, Forbidden, BadToken} : Reply(c, status, NoBody)
      BY <1>4
    <2>2. status \in Statuses
      BY DEF Statuses
    <2> DEFINE r == [call[c] EXCEPT !.reply = Answer(status, NoBody)]
    <2>3. /\ r \in Call /\ r.reply # Waiting /\ r.reply.status = status
          /\ r.phase = call[c].phase /\ r.kind = call[c].kind
          /\ r.item = call[c].item /\ r.seen = call[c].seen /\ r.told = call[c].told
      BY <1>2, <2>2, Answered
    <2> HIDE DEF r
    <2>4. ~WriteOk(r.reply)
      BY <2>3 DEF WriteOk, Rejected, Forbidden, BadToken
    <2>5. Agrees(r, late[c], effect[c])
      BY <1>1, <1>2, <2>3, <2>4 DEF Agrees, Sendable, WriteAgrees, RefreshAgrees,
         SyncAgrees, DoneAgrees, LateAgrees
    <2>6. effect' = effect /\ effect \in [Calls -> SUBSET (Items \X (0 .. MaxRev))]
      BY <1>4 DEF WritesInv, TypeOK
    <2>7. call' \in [Calls -> Call] /\ CallsAgree'
      BY <1>1, <2>1, <2>2, <2>5, <2>6, ReplyKeeps DEF r
    <2> QED
      BY <1>1, <1>4, <2>7 DEF WritesInv, TypeOK, ServerKeeps, HasEffect
  <1> QED
    BY <1>3, <1>4 DEF HandleWrite

LEMMA HandleLateKeeps ==
  ASSUME WritesInv, NEW c \in Calls, HandleLate(c)
  PROVE  WritesInv'
  <1>1. late[c] # Unused /\ late[c] \in Call /\ Agrees(call[c], late[c], effect[c])
    BY DEF HandleLate, WritesInv, TypeOK, CallsAgree
  <1>2. /\ effect[c] = {} /\ Sendable(late[c])
        /\ call[c].phase = "done" /\ call[c].told = "failed"
    BY <1>1 DEF Agrees, LateAgrees
  <1>3. PICK e \in Effects(late[c]) : Apply(c, late[c], e)
    BY DEF HandleLate
  <1>4. /\ e \in Items \X (0 .. MaxRev) /\ effect'[c] = {e}
        /\ \A d \in Calls \ {c} : effect'[d] = effect[d]
        /\ effect' \in [Calls -> SUBSET (Items \X (0 .. MaxRev))]
        /\ server' \in Store /\ ServerKeeps'
    BY <1>1, <1>2, <1>3, ApplyKeeps
  <1>5. /\ late' = [late EXCEPT ![c] = Unused] /\ call' = call
        /\ UNCHANGED <<valid, issued, access, signedIn, page, open, detail,
                       editor, local>>
    BY DEF HandleLate, session, pages
  <1>6. /\ late' \in [Calls -> Call] /\ late'[c] = Unused
        /\ \A d \in Calls \ {c} : late'[d] = late[d]
    BY <1>5, UnusedIsCall DEF WritesInv, TypeOK
  <1>7. Agrees(call[c], Unused, {e})
    BY <1>1, <1>2, <1>4 DEF Agrees, WriteAgrees, RefreshAgrees, SyncAgrees,
       DoneAgrees, LateAgrees, Once
  <1>8. CallsAgree'
    BY <1>4, <1>5, <1>6, <1>7 DEF WritesInv, CallsAgree
  <1> QED
    BY <1>4, <1>5, <1>6, <1>8 DEF WritesInv, TypeOK

LEMMA HandleRefreshKeeps ==
  ASSUME WritesInv, NEW c \in Calls, HandleRefresh(c)
  PROVE  WritesInv'
  <1>1. /\ call[c].phase = "refresh" /\ call[c].reply = Waiting
        /\ UNCHANGED <<server, late, effect, access, signedIn, page, open, detail,
                       editor, local>>
    BY DEF HandleRefresh, session, pages
  <1>2. call[c] \in Call /\ Agrees(call[c], late[c], effect[c])
    BY DEF WritesInv, TypeOK, CallsAgree
  <1>3. \E status \in Statuses, body \in {NoBody} \cup Session :
          /\ Reply(c, status, body)
          /\ status = Accepted => body \in Session
          /\ issued' \in 0 .. MaxTokens /\ valid' \subseteq Tokens
    <2>1. issued \in 0 .. MaxTokens /\ valid \subseteq Tokens
      BY DEF WritesInv, TypeOK
    <2>2. CASE /\ issued < MaxTokens
               /\ issued' = issued + 1 /\ valid' = valid \cup {issued + 1}
               /\ Reply(c, Accepted, [token |-> issued + 1])
      <3>1. MaxTokens \in Nat
        BY WritesAssumption
      <3>2. issued + 1 \in Tokens
        BY <2>1, <2>2, <3>1 DEF Tokens
      <3>3. [token |-> issued + 1] \in Session
        BY <3>2 DEF Session
      <3>4. Accepted \in Statuses
        BY DEF Statuses
      <3>5. issued' \in 0 .. MaxTokens /\ valid' \subseteq Tokens
        BY <2>1, <2>2, <3>1, <3>2
      <3> QED
        BY <2>2, <3>3, <3>4, <3>5
    <2>3. CASE Reply(c, Rejected, NoBody) /\ UNCHANGED <<issued, valid>>
      <3>1. Rejected \in Statuses /\ Rejected # Accepted
        BY DEF Statuses, Rejected, Accepted
      <3> QED
        BY <2>1, <2>3, <3>1
    <2> QED
      BY <2>2, <2>3 DEF HandleRefresh
  <1>4. PICK status \in Statuses, body \in {NoBody} \cup Session :
          /\ Reply(c, status, body)
          /\ status = Accepted => body \in Session
    BY <1>3
  <1> DEFINE r == [call[c] EXCEPT !.reply = Answer(status, body)]
  <1>5. /\ r.reply.status = status /\ r.reply.body = body
        /\ r.phase = call[c].phase /\ r.kind = call[c].kind
        /\ r.item = call[c].item /\ r.seen = call[c].seen /\ r.told = call[c].told
    <2>1. body \in {NoBody} \cup Session \cup Store
      OBVIOUS
    <2> QED
      BY <1>2, <2>1 DEF Call, Answer
  <1> HIDE DEF r
  <1>6. Agrees(r, late[c], effect[c])
    BY <1>1, <1>2, <1>4, <1>5 DEF Agrees, Sendable, WriteAgrees, RefreshAgrees,
       SyncAgrees, DoneAgrees, LateAgrees, TokenOk
  <1>7. effect \in [Calls -> SUBSET (Items \X (0 .. MaxRev))]
    BY DEF WritesInv, TypeOK
  <1>8. call' \in [Calls -> Call] /\ CallsAgree'
    BY <1>1, <1>4, <1>6, <1>7, ReplyKeeps DEF r
  <1> QED
    BY <1>1, <1>3, <1>8 DEF WritesInv, TypeOK, ServerKeeps, HasEffect

LEMMA HandleSyncKeeps ==
  ASSUME WritesInv, NEW c \in Calls, HandleSync(c)
  PROVE  WritesInv'
  <1>1. /\ call[c].phase = "sync" /\ call[c].reply = Waiting
        /\ UNCHANGED <<server, valid, issued, late, effect, access, signedIn, page,
                       open, detail, editor, local>>
    BY DEF HandleSync, remote, session, pages
  <1>2. call[c] \in Call /\ Agrees(call[c], late[c], effect[c])
        /\ server \in Store /\ \A e \in effect[c] : HasEffect(server, e)
    BY DEF WritesInv, TypeOK, CallsAgree, ServerKeeps
  <1>3. PICK status \in Statuses, body \in {NoBody, server} : Reply(c, status, body)
    BY DEF HandleSync, Statuses
  <1> DEFINE r == [call[c] EXCEPT !.reply = Answer(status, body)]
  <1>4. /\ r.reply.status = status /\ r.reply.body = body
        /\ r.phase = call[c].phase /\ r.kind = call[c].kind
        /\ r.item = call[c].item /\ r.seen = call[c].seen /\ r.told = call[c].told
    <2>1. body \in {NoBody} \cup Session \cup Store
      BY <1>2
    <2> QED
      BY <1>2, <2>1 DEF Call, Answer
  <1> HIDE DEF r
  <1>5. Agrees(r, late[c], effect[c])
    BY <1>1, <1>2, <1>4 DEF Agrees, Sendable, WriteAgrees, RefreshAgrees,
       SyncAgrees, DoneAgrees, LateAgrees
  <1>6. effect \in [Calls -> SUBSET (Items \X (0 .. MaxRev))]
    BY DEF WritesInv, TypeOK
  <1>7. call' \in [Calls -> Call] /\ CallsAgree'
    BY <1>1, <1>2, <1>3, <1>5, <1>6, ReplyKeeps DEF r
  <1> QED
    BY <1>1, <1>7 DEF WritesInv, TypeOK, ServerKeeps, HasEffect

LEMMA ExpireTokensKeeps ==
  ASSUME WritesInv, ExpireTokens
  PROVE  WritesInv'
  BY DEF ExpireTokens, WritesInv, TypeOK, CallsAgree, ServerKeeps, HasEffect, session,
     pages

LEMMA OtherClientEditsKeeps ==
  ASSUME WritesInv, NEW i \in Items, OtherClientEdits(i)
  PROVE  WritesInv'
  <1>1. PICK text \in [Fields -> Texts] :
          server' = [server EXCEPT ![i] = [rev |-> server[i].rev + 1, text |-> text]]
    BY DEF OtherClientEdits
  <1>2. server \in [Items -> Stored \cup {Absent}] /\ MaxRev \in Nat
        /\ effect \in [Calls -> SUBSET (Items \X (0 .. MaxRev))]
    BY WritesAssumption DEF WritesInv, TypeOK, Store
  <1>3. server[i] # Absent /\ server[i].rev + 1 < MaxRev
    BY DEF OtherClientEdits
  <1>4. server[i].rev \in 1 .. MaxRev
    BY <1>2, <1>3 DEF Stored
  <1> DEFINE new == [rev |-> server[i].rev + 1, text |-> text]
  <1>5. new \in Stored /\ new.rev = server[i].rev + 1 /\ new # Absent
    BY <1>2, <1>3, <1>4, WritesAssumption DEF Stored, Content
  <1> HIDE DEF new
  <1>6. server' \in Store /\ server'[i] = new
        /\ \A j \in Items \ {i} : server'[j] = server[j]
    BY <1>1, <1>2, <1>5 DEF Store, new
  <1>7. ASSUME NEW d \in Calls, NEW f \in effect[d]
        PROVE  HasEffect(server', f)
    <2>1. f \in Items \X (0 .. MaxRev) /\ HasEffect(server, f)
      BY <1>2 DEF WritesInv, ServerKeeps
    <2>2. CASE f[1] # i
      BY <1>6, <2>1, <2>2 DEF HasEffect
    <2>3. CASE f[1] = i
      BY <1>3, <1>4, <1>5, <1>6, <2>1, <2>3 DEF HasEffect
    <2> QED
      BY <2>2, <2>3
  <1>8. UNCHANGED <<valid, issued, late, effect, access, signedIn, page, open,
                    detail, editor, local, call>>
    BY DEF OtherClientEdits, session, pages
  <1> QED
    BY <1>6, <1>7, <1>8 DEF WritesInv, TypeOK, CallsAgree, ServerKeeps, HasEffect

-----------------------------------------------------------------------------
LEMMA InitWrites == Init => WritesInv
  <1> SUFFICES ASSUME Init PROVE WritesInv
    OBVIOUS
  <1>1. server \in Store
    <2>1. FirstSynced \subseteq Stored
      BY WritesAssumption DEF FirstSynced, Stored
    <2> QED
      BY <2>1 DEF Init, Store
  <1>2. 1 \in Tokens /\ 1 \in 0 .. MaxTokens
    BY WritesAssumption DEF Tokens
  <1>3. TypeOK
    BY <1>1, <1>2, UnusedIsCall DEF Init, TypeOK
  <1>4. Agrees(Unused, Unused, {})
    BY UnusedFields DEF Agrees, Sendable, WriteAgrees, RefreshAgrees, SyncAgrees,
       DoneAgrees, LateAgrees
  <1> QED
    BY <1>3, <1>4 DEF Init, WritesInv, CallsAgree, ServerKeeps

LEMMA StutterWrites ==
  ASSUME WritesInv, UNCHANGED vars
  PROVE  WritesInv'
  BY DEF vars, WritesInv, TypeOK, CallsAgree, ServerKeeps, HasEffect

LEMMA StepWrites == WritesInv /\ [Next]_vars => WritesInv'
  <1> SUFFICES ASSUME WritesInv, [Next]_vars PROVE WritesInv'
    OBVIOUS
  <1>1. CASE User
    BY <1>1, OpenDetailKeeps, BackKeeps, EditItemKeeps, NewItemKeeps,
       DeleteItemKeeps, SaveItemKeeps, LockVaultKeeps, UnlockVaultKeeps DEF User
  <1>2. ASSUME NEW c \in Calls, Serves(c) PROVE WritesInv'
    BY <1>2, HandleWriteKeeps, HandleRefreshKeeps, HandleSyncKeeps DEF Serves
  <1>3. ASSUME NEW c \in Calls, Ends(c) PROVE WritesInv'
    BY <1>3, ArrivesKeeps, TimesOutKeeps DEF Ends
  <1>4. ASSUME NEW c \in Calls, HandleLate(c) PROVE WritesInv'
    BY <1>4, HandleLateKeeps
  <1>5. CASE ExpireTokens
    BY <1>5, ExpireTokensKeeps
  <1>6. ASSUME NEW i \in Items, OtherClientEdits(i) PROVE WritesInv'
    BY <1>6, OtherClientEditsKeeps
  <1>7. CASE UNCHANGED vars
    BY <1>7, StutterWrites
  <1> QED
    BY <1>1, <1>2, <1>3, <1>4, <1>5, <1>6, <1>7 DEF Next

LEMMA WritesInvariant == Spec => []WritesInv
  BY InitWrites, StepWrites, PTL DEF Spec

(* The members keep their types (TypeOK).                                    *)
THEOREM WritesTypeCorrect == Spec => []TypeOK
  <1>1. WritesInv => TypeOK
    BY DEF WritesInv
  <1> QED
    BY <1>1, WritesInvariant, PTL

(* However a write ended, it was carried out once at most: neither the retry *)
(* of writeAndResync nor a request given up doubles it.                      *)
THEOREM WritesHappenOnce == Spec => []AppliedAtMostOnce
  <1>1. WritesInv => AppliedAtMostOnce
    BY DEF WritesInv, CallsAgree, Agrees, WriteAgrees, RefreshAgrees, SyncAgrees,
       DoneAgrees, Once, AppliedAtMostOnce, TypeOK, Call, Phases
  <1> QED
    BY <1>1, WritesInvariant, PTL

(* What is told to be saved was stored by this call (finishWrite,            *)
(* applyWriteSync).                                                          *)
THEOREM ToldSavedIsStored == Spec => []SavedIsStored
  <1>1. WritesInv => SavedIsStored
    BY DEF WritesInv, CallsAgree, Agrees, DoneAgrees, Once, SavedIsStored
  <1> QED
    BY <1>1, WritesInvariant, PTL

-----------------------------------------------------------------------------
(* Only a sync tells of a success, after the reload.                         *)
TellsNothing == \A d \in Calls : call'[d].told = "saved" => call[d].told = "saved"

LEMMA AskedTellsNothing ==
  ASSUME WritesInv, NEW d \in Calls, NEW record \in Call, NEW phase, NEW token,
         Asked(d, record, phase, token), record.told = "nothing"
  PROVE  TellsNothing
  <1> DEFINE r == [record EXCEPT !.phase = phase, !.reply = Waiting, !.token = token]
  <1>1. r.told = "nothing"
    BY DEF Call
  <1>2. call' = [call EXCEPT ![d] = r]
    BY DEF Asked
  <1> HIDE DEF r
  <1> QED
    BY <1>1, <1>2 DEF TellsNothing, WritesInv, TypeOK

LEMMA ToldTellsNothing ==
  ASSUME WritesInv, NEW d \in Calls, NEW telling \in {"unsynced", "failed", "locked"},
         Told(d, telling)
  PROVE  TellsNothing
  <1> DEFINE r == [Unused EXCEPT !.phase = "done", !.told = telling]
  <1>1. r.told = telling
    BY DEF Unused
  <1>2. call' = [call EXCEPT ![d] = r]
    BY DEF Told
  <1> HIDE DEF r
  <1> QED
    BY <1>1, <1>2 DEF TellsNothing, WritesInv, TypeOK

LEMMA RefreshTellsNothing ==
  ASSUME WritesInv, NEW d \in Calls, NEW record \in Call, record.told = "nothing",
         RefreshThenWrite(d, record)
  PROVE  TellsNothing
  BY AskedTellsNothing, ToldTellsNothing DEF RefreshThenWrite

LEMMA StartTellsNothing ==
  ASSUME WritesInv, NEW record \in Call, record.told = "nothing",
         WriteAndResync(record)
  PROVE  TellsNothing
  BY AskedTellsNothing, RefreshTellsNothing DEF WriteAndResync

LEMMA ReplyTellsNothing ==
  ASSUME WritesInv, NEW d \in Calls, NEW status, NEW body, Reply(d, status, body)
  PROVE  TellsNothing
  BY DEF Reply, TellsNothing, WritesInv, TypeOK, Call

(* Of the two ways a request ends, only the answer of a sync tells of a      *)
(* success, after the reload.                                                *)
LEMMA ContinueTells ==
  ASSUME WritesInv, NEW c \in Calls, NEW answer, Fits(c, answer), Continue(c, answer)
  PROVE  \/ TellsNothing
         \/ /\ Told(c, "saved")
            /\ \A e \in effect[c] : HasEffect(local', e)
  <1>1. InFlight(c)
    BY DEF Continue, WriteAnswered, Refreshed, Synced, InFlight
  <1>2. call[c] \in Call /\ call[c].told = "nothing"
    BY <1>1, FlightFacts
  <1>3. CASE WriteAnswered(c, answer)
    BY <1>2, <1>3, AskedTellsNothing, RefreshTellsNothing, ToldTellsNothing
       DEF WriteAnswered, Written
  <1>4. CASE Refreshed(c, answer)
    BY <1>2, <1>4, AskedTellsNothing, ToldTellsNothing DEF Refreshed
  <1>5. CASE Synced(c, answer)
    <2>1. CASE SyncOk(answer) /\ open /\ answer.body # NoBody
      BY <1>5, <2>1 DEF Synced, ApplyWriteSync, Fits
    <2>2. CASE ~(SyncOk(answer) /\ open /\ answer.body # NoBody)
      BY <1>5, <2>2, ToldTellsNothing DEF Synced, ApplyWriteSync
    <2> QED
      BY <2>1, <2>2
  <1> QED
    BY <1>3, <1>4, <1>5 DEF Continue

ShownOnTelling ==
  \A c \in Calls : call[c].told # "saved" /\ call'[c].told = "saved" =>
    \A e \in effect[c] : HasEffect(local', e)

LEMMA EndsShows ==
  ASSUME WritesInv, NEW c \in Calls, Ends(c)
  PROVE  ShownOnTelling
  <1>1. \E answer : Fits(c, answer) /\ Continue(c, answer)
    BY ArrivalFits, SilenceFits DEF Ends, Arrives, TimesOut
  <1>2. CASE TellsNothing
    BY <1>2 DEF TellsNothing, ShownOnTelling
  <1>3. CASE Told(c, "saved") /\ \A e \in effect[c] : HasEffect(local', e)
    BY <1>3 DEF Told, ShownOnTelling, WritesInv, TypeOK
  <1> QED
    BY <1>1, <1>2, <1>3, ContinueTells

LEMMA SaveItemShows ==
  ASSUME WritesInv, NEW text \in Content, SaveItem(text)
  PROVE  TellsNothing
  <1>1. editor \in Editor
    BY DEF WritesInv, TypeOK, SaveItem
  <1>2. CASE page = "unlocked" /\ CanBuild
    <2> DEFINE kind == IF editor.item = NoItem THEN "create" ELSE "update"
               touched == {f \in Fields : text[f] # editor.text[f]}
               r == Body(kind, editor.item, text, touched)
    <2>1. kind \in Kinds /\ touched \in SUBSET Fields
      BY DEF Kinds
    <2>2. /\ editor.item \in Items \cup {NoItem}
          /\ kind # "create" => editor.item \in Items
          /\ kind = "update" => local[editor.item] # Absent
      BY <1>1, <1>2 DEF Editor, CanBuild
    <2> HIDE DEF kind, touched
    <2>3. r \in Call /\ r.told = "nothing"
      BY <2>1, <2>2, BodyFits
    <2>4. WriteAndResync(r)
      BY <1>2 DEF SaveItem, kind, touched
    <2> HIDE DEF r
    <2> QED
      BY <2>3, <2>4, StartTellsNothing
  <1>3. CASE ~(page = "unlocked" /\ CanBuild)
    BY <1>3 DEF SaveItem, TellsNothing
  <1> QED
    BY <1>2, <1>3

LEMMA DeleteItemShows ==
  ASSUME WritesInv, DeleteItem
  PROVE  TellsNothing
  <1>1. detail \in Detail
    BY DEF WritesInv, TypeOK, DeleteItem
  <1>2. CASE page = "unlocked"
    <2> DEFINE blank == [f \in Fields |-> Empty]
               r == Body("delete", detail.item, blank, {})
    <2>1. blank \in Content /\ detail.item \in Items
      BY <1>1 DEF Content, Detail
    <2>2. r \in Call /\ r.told = "nothing"
      BY <2>1, BodyFits DEF Kinds
    <2>3. WriteAndResync(r)
      BY <1>2 DEF DeleteItem
    <2> HIDE DEF r
    <2> QED
      BY <2>2, <2>3, StartTellsNothing
  <1>3. CASE page # "unlocked"
    BY <1>3 DEF DeleteItem, TellsNothing
  <1> QED
    BY <1>2, <1>3

LEMMA UserShows ==
  ASSUME WritesInv, User
  PROVE  TellsNothing
  <1>1. CASE DeleteItem
    BY <1>1, DeleteItemShows
  <1>2. CASE \E text \in Content : SaveItem(text)
    BY <1>2, SaveItemShows
  <1>3. CASE call' = call
    BY <1>3 DEF TellsNothing
  <1>4. DeleteItem \/ (\E text \in Content : SaveItem(text)) \/ call' = call
    BY DEF User, OpenDetail, Back, EditItem, NewItem, LockVault, UnlockVault
  <1> QED
    BY <1>1, <1>2, <1>3, <1>4

LEMMA ServerShows ==
  ASSUME WritesInv, NEW c \in Calls, Serves(c)
  PROVE  TellsNothing
  BY ReplyTellsNothing DEF Serves, HandleWrite, HandleRefresh, HandleSync

(* By the time success is told the vault has what the call made of the item, *)
(* or what others made of it since (finishWrite, applyWriteSync).            *)
THEOREM ToldSavedIsShown == Spec => SavedIsShown
  <1>1. WritesInv /\ [Next]_vars => ShownOnTelling
    <2> SUFFICES ASSUME WritesInv, [Next]_vars PROVE ShownOnTelling
      OBVIOUS
    <2>1. CASE TellsNothing
      BY <2>1 DEF TellsNothing, ShownOnTelling
    <2>2. CASE call' = call
      BY <2>2 DEF ShownOnTelling
    <2>3. ASSUME NEW c \in Calls, Ends(c) PROVE ShownOnTelling
      BY <2>3, EndsShows
    <2>4. \/ User \/ call' = call
          \/ \E c \in Calls : Serves(c) \/ Ends(c)
      BY DEF Next, HandleLate, ExpireTokens, OtherClientEdits, vars
    <2> QED
      BY <2>1, <2>2, <2>3, <2>4, UserShows, ServerShows
  <1> QED
    BY <1>1, WritesInvariant, PTL DEF Spec, SavedIsShown, ShownOnTelling

-----------------------------------------------------------------------------
LEMMA AppliedToSeen ==
  ASSUME NEW r, Sendable(r), r.kind = "update", NEW e \in Effects(r)
  PROVE  server[r.item] = r.seen
  BY DEF Effects, Sendable

(* An edit that is carried out replaces the content it was built on, though  *)
(* others write and writes arrive late (buildUpdateBody).                    *)
THEOREM NoOverwriteUnseen == Spec => NoBlindOverwrite
  <1> DEFINE Seen == \A c \in Calls :
                       effect'[c] # effect[c] /\ Sent(c).kind = "update" =>
                         server[Sent(c).item] = Sent(c).seen
  <1>1. WritesInv /\ [Next]_vars => Seen
    <2> SUFFICES ASSUME WritesInv, [Next]_vars PROVE Seen
      OBVIOUS
    <2>1. CASE effect' = effect
      BY <2>1
    <2>2. ASSUME NEW c \in Calls, HandleWrite(c) PROVE Seen
      <3>1. CASE effect' = effect
        BY <3>1
      <3>2. CASE effect' # effect
        <4>1. InFlight(c) /\ Sent(c) = call[c]
          BY <2>2 DEF HandleWrite, InFlight, Sent
        <4>2. Sendable(call[c])
          BY <4>1, FlightFacts
        <4>3. PICK e \in Effects(call[c]) : Apply(c, call[c], e)
          BY <2>2, <3>2 DEF HandleWrite
        <4>4. \A d \in Calls \ {c} : effect'[d] = effect[d]
          BY <4>3 DEF Apply, WritesInv, TypeOK
        <4> QED
          BY <4>1, <4>2, <4>3, <4>4, AppliedToSeen
      <3> QED
        BY <3>1, <3>2
    <2>3. ASSUME NEW c \in Calls, HandleLate(c) PROVE Seen
      <3>1. late[c] # Unused /\ call[c].phase = "done" /\ Sendable(late[c])
        BY <2>3 DEF HandleLate, WritesInv, CallsAgree, Agrees, LateAgrees
      <3>2. Sent(c) = late[c]
        BY <3>1 DEF Sent, InFlight
      <3>3. PICK e \in Effects(late[c]) : Apply(c, late[c], e)
        BY <2>3 DEF HandleLate
      <3>4. \A d \in Calls \ {c} : effect'[d] = effect[d]
        BY <3>3 DEF Apply, WritesInv, TypeOK
      <3> QED
        BY <3>1, <3>2, <3>3, <3>4, AppliedToSeen
    <2>4. \/ effect' = effect
          \/ \E c \in Calls : HandleWrite(c) \/ HandleLate(c)
      <3>1. User => effect' = effect
        BY DEF User, OpenDetail, Back, EditItem, NewItem, DeleteItem, SaveItem,
           LockVault, UnlockVault, remote
      <3>2. \A c \in Calls : Serves(c) => HandleWrite(c) \/ effect' = effect
        BY DEF Serves, HandleRefresh, HandleSync, remote
      <3>3. \A c \in Calls : Ends(c) => effect' = effect
        BY DEF Ends, Arrives, TimesOut, remote
      <3> QED
        BY <3>1, <3>2, <3>3 DEF Next, ExpireTokens, OtherClientEdits, vars
    <2> QED
      BY <2>1, <2>2, <2>3, <2>4
  <1> QED
    BY <1>1, WritesInvariant, PTL DEF Spec, NoBlindOverwrite
=============================================================================
