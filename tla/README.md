# A TLA+ model of Leyni

Leyni (`src/`) is a Bitwarden-compatible password manager for Sailfish OS, in
C++/Qt with QML pages.  This directory holds TLA+ modules of its core, the TLC
configurations that check them on small instances, and TLAPS proofs.  Paths of
the code are given below without the leading `src/` directory of the checkout.

## 1. Inventory

| component | state | operations | works with |
|---|---|---|---|
| `Vault::Vault` (`src/vault/vault.cpp`) | loaded sync data, lock flag, user, private and organization keys, display items, folder names, auto-lock timer | `loadSync`, `unlock(WithMasterKey)`, `verifyMasterKey`, `reloadSync`, `lock`, `setAutoLockSeconds`, `noteActivity`, field access, request bodies | called synchronously by the controller and the list model; emits `lockedChanged` |
| `Ui::AppController` (`src/ui/appcontroller.cpp`) | the page's state, busy flag, session tokens, pending login, one password derivation, one PIN job, clipboard timer, settings | every `Q_INVOKABLE`, the constructor, the continuations of requests and workers, `handleAppStateChanged` | owns vault, model, HTTP client, files; is read and called by QML |
| `Api::ApiClient` (`src/api/apiclient.cpp`) | requests in flight, each with a timer | prelogin, token, refresh, sync, cipher writes | one callback per request, on the GUI thread |
| API JSON (`src/api/apijson.cpp`) | none | prelogin, token and error answers; the form fields of a login | HTTP client |
| `SyncStore`, `PinStore` (`src/vault/`) | `sync.json`, `pin.dat` | save (atomic), load, clear, exists | controller |
| `parseSyncJson` (`src/vault/syncparser.cpp`) | none | JSON to `SyncData`; malformed items skipped | vault |
| `VaultListModel` (`src/vault/vaultmodel.cpp`) | copy of the items, filters, visible rows | refresh, filters, row diff | vault (`lockedChanged`), QML |
| crypto (`src/crypto/`) | none | KDF, AES/HMAC, RSA, PIN wrap, base64, EncString | vault, controller |
| TOTP (`src/crypto/totp.cpp`, `parseTotpSecret` of `vault.cpp`) | none | parameters of a secret, code, seconds left | vault, polled by a page |
| password generator (`src/crypto/passwordgen.cpp`) | its options in QSettings | `generatePassword`, `randomIndex` | controller, `GeneratorDialog.qml` |
| pages (`qml/`) | page stack, timers of pages | routing on `stateChanged`, calls of the controller | controller |

Everything but the key derivations runs on the GUI thread, each handler to
completion.  What is hard is that a handler starts something - a request, a
derivation (hundreds of milliseconds to seconds), a PIN job - whose continuation
runs later over whatever the state has become: the user has locked, signed out,
minimized the application, entered another password, cancelled the login; the
auto-lock timer has fired; another answer came first; or the process was killed
and started again over whatever the files then held.  There is no cancellation
and no generation counter anywhere in the controller.  The controller also keeps
three copies of one fact (the vault's lock flag, the page's state, the list
behind the page), kept together by signals and by explicit assignments.

What makes each component correct:

* vault: locked means nothing secret is left; open means the keys fit the data
  loaded and all of it is shown; no failure in the middle leaves something in
  between; an abandoned vault locks.
* controller: page, list and vault agree; a vault opens only because somebody
  asked; a login uses its own secrets; the PIN counter cannot be reset but by the
  right PIN; the busy indicator ends; files never promise what is not there.
* files: see controller.
* list model: the rows are the filtered items after any sequence of filters and
  refreshes, and the view, told of every single row, never sees an item twice or
  loses one that stays.
* pages: the page on top fits the state; a page that is covered or torn down has
  dropped its secrets; a copy announced to be cleared is, and nobody else's is.
* HTTP client and write pipeline: one callback per request (assumed by the
  model); whatever is lost, late or repeated, a call of the user is carried out
  once at most, and what the user is told about it is true.
* request bodies: an update changes what the editor shows and nothing else.
* pure functions: encodings are inverses and refuse what is no encoding; numbers
  from a server or a file reach a derivation within bounds or not at all; a
  one-time code and its countdown change together; a generated password has what
  was asked for, every choice being equally likely.

## 2. Modules

`VaultOps` has the operations of the vault as functions from a vault state to the
next one, `Vault` and `AppController` are the two state machines built from it.

```
VaultOps  --EXTENDS-->  Vault          --> MCVault           (TLC)
    |                     \-> VaultProofs                    (TLAPS)
    |-> VaultOpsProofs ------/        \
    \-> AppController   --> MCAppController (TLC)
         |    \-> AppControllerProofs (with VaultOpsProofs)  (TLAPS)
         |             \-> ContractProofs                    (TLAPS)
         | implements (INSTANCE, state and open)
       Screen --EXTENDS--> Pages (with Clipboard, TLC) --> PagesProofs (TLAPS)
ListModel --> MCListModel (TLC), ListModelProofs (TLAPS)
ApiClient --EXTENDS--> Writes (TLC)  --> WritesProofs           (TLAPS)
Filters --EXTENDS--> Codecs --EXTENDS--> OneTimeCodes \
    \---EXTENDS--> ItemBodies, TokenAnswers; KeyForms  --INSTANCE--> PureFunctions
PasswordGen --EXTENDS-------------------------------------------/    |
                        MCFunctions (TLC), FunctionProofs (TLAPS) <--/
```

### VaultOps and Vault: `vault.cpp`

The record `v` is the object's members: `data` is `m_data` (`NoData` while
`profileKey` is empty), `open` is `!m_locked`, then `m_userKey`, whether
`m_privateKeyDer` is there, `m_orgKeys`, `m_items`, `m_folderNames`, and the timer
with its interval.  Cryptography is modelled by what it lets through: a protected
key is a pair of the master key that wraps it and the user key it holds; a
ciphertext is well-formed or not and made under the user key or an organization
key.  So `RebuildThrows` lists what makes `rebuildDisplayData` throw (a broken
private key, a folder name, a name, user name or first URI of an item whose key
resolves), and `CipherKeyResolves` what it skips (`cipherKey` returning false).  A
throw half way through is followed by `lock()` within the same call, so the model
goes to the locked state at once: nobody can see the half-built maps in between,
as the vault is touched by the GUI thread only.

In `Vault` an arbitrary caller calls one operation after the other, which covers
every caller there is or will be; time passes in `Tick`, and an expired timer's slot
(`AutoLockFires`) may be delayed by other calls, as a queued timer event is.

### AppController: `appcontroller.cpp`

One action per invokable, per continuation and per worker; `disk` is what survives
a restart (QSettings, `sync.json`, `pin.dat`), `net` holds the requests in flight,
each in a slot with its kind: its answer is an action that picks any outcome,
a failure or timeout included.  `derive` and `pinJob` are the two future watchers:
idle, running, done but not delivered.  A second call while one runs is refused, a
call while one is done but undelivered replaces it, as `disconnect` followed by
`setFuture` does.  `derive` in phase idle keeps the key of a finished future that
nobody has moved out.

What QML contributes is `Offers`: which page has the button for which call.
Nothing disables a second call while one is under way but the busy flag of some
buttons, so a call may come at any time its page is up.

Abstractions, each of them allowing more than the code does unless said:

* A running auto-lock timer may fire at any moment, so `noteActivity` has no effect
  here (it has one in `Vault`).
* A password is right if the server knows its key; an answer's protected key may
  be any of `Answers` of the token's account.
* A PIN job's result is decided when it starts; so is a derivation's.
* A restart may come at any moment; a crash of the process is the same.
* Reading, writing and removing a file succeeds or fails as a whole; failures are
  on in the runs with `DiskFaults = TRUE`.  Writing QSettings does not fail.
* Fewer than the code: at most `|Slots|` requests are in flight, and a finished login
  derivation is delivered when a slot is free.

### ListModel: `vaultmodel.cpp`

`source`, `query`, `folder`, `rows` and `hasFavorites` are the members of
`VaultListModel`.  A refresh is one action (a model reset); a change of a filter
starts a walk, whose row operations (`RemoveStale`, `KeepRow`, `InsertRow`,
`RemoveTail`) are an action each, because the view is told of each and reads the
model in between.  `fresh` and `settled` are the local variables of
`applyFilterDiff`.  An item is what filters and order tell apart: id, name (a number
in the order of the locale), favorite, folder, and the queries it matches.
`std::stable_sort` is given by the place each item gets (`Place`).  `Sources` are
the lists `Vault::items` may be when the model refreshes; ids are distinct
(`ListAssumption`), as the server's are - nothing in the code checks it.

### Screen, Clipboard and Pages: `qml/`

`Screen` says what the controller promises the pages: how the state and the open
vault move together.  `AppController` implements it (`KeepsContract`, with
`open <- vault.open`), and `Pages` builds on it: any of its moves may come between
any two actions of the user.  `stack` is `pageStack`; a page has its name and what
it `holds`: fields revealed on demand, the polled code, typed text.  A change of
state runs `ItemDetailPage`'s handler and `routeState` within the same step, as the
signal does.  `Clipboard` is the controller's timer and expected text with a
clipboard that other applications write.

Silica's `PageStack` is external: pushing deactivates the page on top, popping
destroys it, `replaceAbove(null, ...)` destroys all, at once.  Transitions take time in
the program, and what a call does during one is not in this repository.  Left out:
the search field's debounce timer, the lists of folders and second factors.

`Offers` in `AppController` follows from what `Pages` shows: `SettingsPage` may stay
while the vault locks and unlocks, so the unlock page and the vault page occur in
both states, and so do their calls.

### ApiClient and Writes: the write pipeline

`ApiClient` says what of an answer arrives: all of it, its status without its body
(the 30 s of `armTimeout` end, or the connection breaks, in the middle of it), or
nothing; and what each kind of request then calls a success.

`Writes` follows the user's calls of `createItem`, `saveItem` and `deleteItem` from
the pages to the server and back.  `call[c]` is the state of one call: the body it
sends, where it is in `writeAndResync` / `refreshThenWrite` / `finishWrite` /
`applyWriteSync` (`phase`), the token it was sent with, the server's `reply` while
that is under way, and what the user was `told`.  The server has items with
revisions, tokens that expire at any moment, other clients that edit, and handles a
request before, after or without its answer getting through; a write the client has
given up may reach it later (`late`).  `local` is what the vault last synced,
`detail` and `editor` are the two pages with the copies they were opened with.
`effect` is history: what a call has done to the server's items.

The server is external; its part is what the code relies on: an update is refused
when the revision it names (`lastKnownRevisionDate`) is not the item's, a request
with a token that has expired gets 401.  An item has two fields, one that the detail page
hands on and one that the editor reads from the vault itself, because that is what
tells a stale copy from a fresh one.  Left to `AppController`: `m_busy`, the stored
file, sign-out, syncs of other origin.

### Pure functions: PureFunctions and what it puts together

* `PasswordGen`: `generatePassword` character by character and swap by swap, with
  `GeneratorDialog` around it and the options the controller keeps; `randomIndex` over
  all values its words may have.
* `Codecs`: base64 and base32, against a reference that reads a sequence of numbers as
  one row of bits.
* `OneTimeCodes`: parameters of a secret, truncation, countdown.  The HMAC is a constant.
* `ItemBodies`: an item on the wire, `parseCipher`, `buildCreateBody`,
  `buildUpdateBody` and the reads of single secrets.  A JSON object is a function from
  the keys it has; each key has a camelCase and a PascalCase spelling.
* `KeyForms`: numbers from a prelogin answer or a PIN file on their way to the
  derivation, with the casts between; EncString and the PIN file by the lengths of
  their parts.
* `TokenAnswers`: the answers to a login, the page they lead to and the second factor
  that goes out.

* `Filters`: the loop that appends what it keeps, which several of them have.

`PureFunctions` has one initial state per input of each function (`Inputs`), with the
generator's steps as the only behaviour; it names what is assumed of inputs and states the
properties, each an invariant over the inputs of its kind.  `MCFunctions` only gives the
inputs their values.  Loops are recursive functions, not `RECURSIVE` operators, so that
theorems can be proved about them.

## 3. Runs

| run | question | bounds |
|---|---|---|
| `Vault` | the vault alone, arbitrary caller: nothing left when locked, everything right when open, timer armed, rotation locks, an idle vault locks | two master keys, two user keys, one organization, one item and one folder in every combination that matters (141 answers), intervals 0..2 |
| `SignIn` | login, two-factor, cancel, re-sync, restart from a fresh install, two logins at a time | one account, two passwords, two requests in flight |
| `Pin` | PIN set-up and use against password changes, wrong PINs, restarts | three passwords, two PINs, rotated answers |
| `Sync` | syncs and writes racing locks and sign-out over failing files | two requests in flight, three answers, `DiskFaults` |
| `ListModel` | filter changes in any order over any vault end with the filtered rows, row by row | four or five items with every choice of favorites, equal names, one folder, two queries, what a re-sync makes of them |
| `Pages` | page stack, secrets in pages and clipboard under a controller that moves at any moment | two fields, two texts copied here and one elsewhere |
| `Writes` | create, edit and delete against lost, cut off, late and reordered answers, expired tokens, other clients, locking | two ids, one of them listed at first, two calls, three revisions, two tokens |
| `Functions` | the password generator in its dialog; encodings, codes, bodies, KDF numbers and login answers over bounded inputs | six characters in four classes, slider 4..5; words of 8 and 32 values, orders of up to 5; texts of up to 5 and 8 characters; numbers at, within and beyond each bound |
| `VaultDamagedItem`, `SignOutPin`, `StaleEditor`, `TwoLogins` | one statement of the documentation each, which the code does not keep | as small as shows it |

Why these bounds are enough: two requests in flight are what it takes for one answer
to arrive between another's request and its answer; every continuation reads the
present state only, so a third adds no new kind of interleaving.  Two master keys
tell the key that fits from one that does not, a third password is one that never
did.  `kMaxPinFailures` is the code's 3, and two PINs are a right and a wrong one.
`Calls` selects the calls of a run; together the passing runs use all of them.  The
state spaces are finite without a constraint: nothing counts but the PIN counter
and the timer.

In `Writes` two calls are what it takes for one to overtake the other's sync or to
refresh the other's token, three revisions are before, the edit and somebody else's
edit, and the second token is the refreshed one.  Pages are opened only while a call is
left to be made, and locking, expiry and other clients stop when all calls have ended
(`CallsLeft`, `Ongoing`): what comes after touches no property.  In `Functions` the
generator has five places for four classes, two of them digits, so that one position
of the slider is refused while all classes are on; `Word` and `IntSize` are made small
enough for a buffer and a cast to overflow within the inputs, and base32 texts of eight
characters overflow the first; every text up to the given length over the ends of each
range of letters, padding, a space and a character of no alphabet is tried; items come
in both spellings, with and without a key of their own, of an organization the account
has and of one it has left, with no, one and two URIs.

Deadlock is checked in every run but `Writes` and `StaleEditor`, which end when all
calls have, and `Functions`, where an input has no step.

### Properties

`Vault`: `LockedHoldsNothing`, `KeyFitsData`, `NothingPartial`, `AutoLockArmed`
(invariants), `RotationLocks` (action), `IdleVaultLocks` (liveness: once nobody
unlocks, notes activity or changes the interval, the vault locks, however often
it re-syncs).  `AppController`: `UnlockedMeansOpen`, `PageHasVault`,
`ListMatchesVault`, `PinWrapsServedKey` (invariants), `PinCountHonest`,
`OpensOnRequest`, `OnlySecondLoginUpsets` (action), `BusyEnds` (liveness), `KeepsContract`
(refinement of `Screen`).  `ListModel`: `RowsAreFiltered`, `RowsDistinct`,
`HasFavoritesExact` (invariants), `SurvivorsStay` (action).  `Pages`:
`SignInPagesFit`, `CoveredHoldsNothing` (invariants), `LeavingClears`,
`OthersCopiesStay` (action), `AnnouncedIsCleared` (liveness).  `Writes`:
`AppliedAtMostOnce`, `SavedIsStored` (invariants), `SavedIsShown`,
`NoBlindOverwrite` (action), `CallsEnd` (liveness).  `Functions`: `PasswordFits`,
`RandomnessFair` (`UniformIndex` and `FairShuffle`), `EncodingsExact`,
`CodesCountDown`, `BodiesReadBack`, `AnswersRead`.  Each is stated
and explained where it is defined, and each has a mutant: an operator, marked so in
its comment, that changes the definition after it the way a slip in the code
would, and under which the property fails.

The context of a login is two members that every login shares (`m_pendingHash`,
`m_pendingSecrets`).  `LoginContext` says of them what `appcontroller.h:241` says, and does
not hold: the Enter key of the login page calls `startLogin` whether or not a login is
under way (`LoginPage.qml:58`; the button below waits for `busy`), and the second
login's key takes the place of the first's (run `TwoLogins`) or is gone when
`appcontroller.cpp:323` reads it, which the model has as a restart.
`OnlySecondLoginUpsets` says that nothing else does it, in the run `SignIn`, where two logins may be
under way at a time: from a context in order (`LoginInOrder`) every step leads to
one, but a `startLogin` made while a login has not ended.  To wait for `busy` would not be
enough: a login that was cancelled while its code was out is not busy and has not ended
(`LoginUnderWay`); its last sync may still drop the next login's secrets.

### Fairness

`Vault`: time passes and an expired timer's slot runs.  `AppController`: a request is
answered or times out (`ApiClient::armTimeout`), a worker ends, a finished
future's continuation runs.  The user, minimizing, restarts and the auto-lock timer
are not fair.  `Pages`: a running clipboard timer fires unless it is started anew;
the property is about a user who has stopped copying.  `Writes`: every request ends, by
its answer or by its timer (`armTimeout`, 30 s); that the server ever handles a request
is not assumed.  `ListModel` has none: the walk is a loop; nor have the functions.

## 4. Known divergences

The violation runs, with the line of the documentation they are about, are in
`PROJECT.json` under `findings`.  Others of the same kind, seen in the model and
without a run of their own:

* A code accepted by the server followed by an answer that does not parse leaves
  the two-factor page up (`appcontroller.cpp:434` returns before any `setState`)
  with the pending hash gone, so every code is refused until the user cancels.
* A sync answered after sign-out stores `sync.json` again (`appcontroller.cpp:415`),
  and an unlock whose derivation ends after sign-out opens the data still in
  memory (`appcontroller.cpp:481`).
* After a changed protected key the old data stays loaded, so the old PIN still
  opens it until a restart (`vault.cpp:227`).
* A refused login leaves the derived master key in the finished future of
  `m_deriveWatcher` (`appcontroller.cpp:333`; "not kept in memory between unlocks",
  `SECURITY.md:206`).
* Minimizing locks an open vault, but an unlock whose derivation is under way then
  opens it in the background (`appcontroller.cpp:473`; "the vault locks on app minimize",
  `appcontroller.h:8`).  `OpensOnRequest` allows it: it takes a continuation that comes
  late for the unlock that was asked for.
* The answer to a sync is stored before it is parsed (`appcontroller.cpp:415`), so a proxy's
  error page with status 200 replaces the stored vault ("unlock and browse fully offline
  afterwards", `README.md:24-25`).
* A `pin.dat` that cannot be removed after the third wrong PIN stays, and the count begins
  anew (`forgetPin`, `appcontroller.cpp:509`; "the app deletes `pin.dat`",
  `SECURITY.md:200`).  `PinCountHonest` is checked, and proved, while file operations succeed.
* A sync answer that does not parse sets the locked state over a vault that stays open
  (`appcontroller.cpp:427`; `doc/ARCHITECTURE.md:83` has one follow the other).  Items
  can still be revealed on a page that has stayed, and when the auto-lock timer then
  locks the vault the state does not change, so nothing is cleared
  (`ItemDetailPage.qml:71`).
* The settings page stays up while the vault locks or unlocks and leads back to the
  page beneath it, which belongs to the state before (`harbour-leyni.qml:23`, `:42`): a
  vault page over a locked vault cannot unlock it, the user has to sign out or start the
  program anew.
* A copy made with clearing switched off is cleared by the timer of an earlier
  copy (`appcontroller.cpp:1036`).
* The search text and the folder stay in the list model over a lock, while the vault
  page of the next unlock starts with empty controls (`VaultPage.qml:134`): the list
  is filtered by what nobody sees.
* A wrong PIN whose result is replaced before delivery is not counted
  (`appcontroller.cpp:282`).

Of requests and writes:

* A request aborted after its headers is an answer with status 200 and a body cut off
  (`apiclient.cpp:33`), so a sync stores the cut-off body.
* The syncs of two writes may be answered out of order; the older snapshot then replaces
  the newer in the vault until the next sync.  `SavedIsShown` is about the moment
  of telling.
* A create that timed out is told to have failed although the server may have carried it
  out; a user who tries again has the item twice.  Each call is carried out once.
* A refresh that fails keeps the refresh token in `refreshThenWrite`, while
  `refreshAndSync` drops it and ends the session.
* The busy flag goes off when the first of two writes under way ends.
* The remorse of a deletion pops whatever page is on top when it ends
  (`ItemDetailPage.qml:107`); in `Writes` that may be the editor.

Of items and numbers:

* A secret that does not decrypt is prefilled as "" and erased by the next save.
* Clearing the URI of an item that has several keeps them all (`vault.cpp:611`).  The
  parser's first URI is the first that is not empty, the editor patches the first of the
  list.  A key spelled in PascalCase stays beside the camelCase one that is written.
* An item whose folder is not in the list is saved without a folder (`folderIndexFor`).
* A period of 2^31 and more (a negative number in the URI) is accepted, and the
  countdown is negative; `CodesCountDown` leaves these out.
* `PinWrappedKey::parse` takes more than its comments say.  "Also rejects any non-type-2
  payload" (`pinwrap.cpp:91-92`): type 4 is read, and refused when it is unwrapped; "02."
  is read as type 2.  "Throws [...] on any malformed input ([...] out-of-range params"
  (`pinwrap.h:50-51`): any number of up to nine digits is read, and refused when the key
  is derived.  `EncodingsExact` asserts neither, only that what is derived is in bounds.
* `base64Decode` takes texts whose unused bits are set.
* A challenge with provider 7 only is shown as "Email" on the two-factor page; a negative
  provider in a string would send no code (`apijson.cpp:68`).
* The token of "remember this device" (`apijson.cpp:184`) and the demands for a new device's
  verification or a captcha are read by nobody.
* The KDF parameters of a prelogin answer are stored before the login they are for has
  succeeded (`appcontroller.cpp:305`).
* The clipboard outlives the process, the timer that was to clear it does not
  (`appcontroller.cpp:1037`).

## 5. Proofs

For every value of the constants that satisfies the named assumptions:

* `VaultOpsProofs`: each operation keeps a vault sound (`Sound`: it has its type and
  is `Consistent`), and what each does to `open`, `data` and the interval.
* `VaultProofs`: `Spec => []IInv` with `IInv == TypeOK /\ Consistent(v)`, one step per
  action by the lemma of its operation; from it the five invariants of the `Vault`
  run, and `RotationLocks` as an action property.  `Consistent` is needed because
  none of the parts is inductive alone: that an open vault shows everything after
  a reload needs that its user key fits the data, which needs that a reload over
  another protected key locks.
* `AppControllerProofs`: `Spec => []AppInv`, and from it `TypeOK`,
  `UnlockedMeansOpen`, `PageHasVault`, `ListMatchesVault` and the action property
  `OpensOnRequest`.  `AppInv` is the conjunction of
  - `TypeOK`, `ScreenFits` (the three invariants and the vault's `Sound`, which
    brings in what a closed vault shows and what an open one has loaded);
  - `SetupIdle`: nothing is under way on the setup page and every other page has an
    account - a derivation builds its key from `disk.account`, so without it the
    key has no type;
  - `JobsCarry`: what the two stages of `enablePin` hand on is a PIN and a key, which
    the job that writes `pin.dat` needs;
  - `WritesHaveVault`: a write in flight was started over a loaded vault, and no later
    step but a restart, which forgets the write, unloads it - otherwise the answer
    to a failing write-sync could put the locked page over nothing.
  One lemma per action, each from lemmas on what its parts do to the vault, the
  disk, the jobs and the requests.  `OpensOnRequest` is shown by the same split: every
  other action leaves the vault shut.

* `ListModelProofs`: `Spec => []IInv` with `IInv` the conjunction of `TypeOK`;
  `Ordered(source, rows)` (the rows are items of the vault in the one master order
  that filtering leaves alone: the precondition of the walk); `WalkFits` (`fresh` is
  the filtered list, and the first `settled` rows are its first items, for good);
  `RowsFit` (outside of a walk the rows are the filtered list).  Without the order a
  row in the wrong place could be neither kept nor removed and be inserted again;
  the order also shows that a row which is not in place and not stale comes after the
  item to insert.  From it `RowsAreFiltered`, `RowsDistinct`, `HasFavoritesExact` and the
  action property `SurvivorsStay`.  That the stable sort is total and leaves no gap
  (`EveryPlaceTaken`) is a counting argument over finite sets of positions.

* `WritesProofs`: `Spec => []WritesInv` with `WritesInv == TypeOK /\ CallsAgree /\
  ServerKeeps`.  `CallsAgree` relates a call's phase, its reply and its late write to
  what it has done to the server: a write not yet accepted has done nothing, one in
  its sync has done one thing, a late write belongs to a call that was told to have
  failed and has done nothing so far - which is why it may still be carried out.
  `ServerKeeps` says that the server's items only move on from what a call has done:
  an item stays gone or at a revision at least as high, so a sync served later has it.
  From it `TypeOK`, `AppliedAtMostOnce`, `SavedIsStored`, and the action properties
  `SavedIsShown` and `NoBlindOverwrite`, for any number of calls, items, revisions
  and tokens.
* `ContractProofs`, from `AppInv`:
  - `ContractKept`: `AppController` implements `Screen` step by step - each action is one
    of the moves of `Screen`, a restart, or leaves page and vault alone, so what is proved of
    `Pages` holds over this controller;
  - `PinAlwaysWrapsServedKey`: what `pin.dat` wraps is a protected key of some answer, by
    `PinInv == VaultServed /\ DiskServed /\ WrapServed` (the same of the vault's data and of
    the wrap under way; the key is read from the vault when the wrap starts and written when
    it ends).  Its hypothesis `ServedDisks` says so of what earlier sessions left;
  - `PinCountAlwaysHonest`: the count of wrong PINs only falls by the right PIN or with
    `pin.dat` gone, under `DiskFaults = FALSE`: a removal that fails clears the count all
    the same;
  - `SecondLoginUpsets`: `OnlySecondLoginUpsets` for any number of requests in flight.
    `LoginInOrder == LoginContext /\ OwnSecrets /\ OneLogin /\ HashSpent` is inductive over
    every step but a second login's start.  `LoginContext` alone is not: the answer that asks
    for a code must find the secrets it was sent with (`OwnSecrets`), so while a password is
    being checked nothing else of a login may be under way that sets or drops them
    (`OneLogin`), and a login past its code must have no hash left to submit (`HashSpent`);
  - `LoginInContext`: hence `LoginContext` in every behaviour in which no login is started
    over another, `Spec /\ [][~SecondLogin]_vars => []LoginContext`.  The hypothesis is what
    the code would have to ensure and does not (`TwoLogins`).

* `PagesProofs`: `Spec => []PagesInv` with `PagesInv == ScreenTypeOK /\ StackInv /\
  ClipboardTypeOK`.  `StackInv` has, besides the two invariants of the run, `StackTypeOK` and
  `Shape`: the page at the bottom is one a state starts with, the unlock and the vault page
  lie nowhere else, the settings lie on them only, and pages without a handler are never
  filled.  Without `Shape` a sign-in page could lie under a page that `routeState` keeps.
  From it `TypeOK`, `SignInPagesFit`, `CoveredHoldsNothing` and the action properties
  `LeavingClears` and `OthersCopiesStay`, for stacks of any height.

* `FunctionProofs`.  The generator: `Spec => []GenInv`: while characters are picked each is
  from the pool of its place; from then on (`Complete`) only their number per class is known,
  and a swap keeps it because it is a bijection of the places (`SwapKeepsNumbers`).  From it
  `PasswordFits` and `StoredWorks`, for every alphabet and length.  `RandomnessFair` is
  `IndexUniform`, for every width of the words and every bound (rejection leaves whole
  buckets, `KeptBelowBuckets`, and moving a draw by the distance of two indexes is a
  bijection between their draws), and `ShuffleFair`, for every length: an order tells the
  choices that led to it, from the last place down (`ChoicesTold`), and every order has
  choices, as each round can fetch what its place is to have (`OrderIsChosen`).
  The functions of one input: `AnswersRead`, `CodesCountDown`, `BodiesReadBack` and
  `EncodingsExact` for every input within the assumptions: any list of second factors, query,
  URIs and object keys, any bytes and texts, however long.
  Their loops are recursive functions over `0 .. n`.  That such a loop takes each of its steps
  (`LoopRuns`), and that what each step keeps holds to the end (`CountingTo`), comes from the
  library's well-founded order of the numbers: the least number at which it failed would have a
  predecessor at which it held.  `FilteredKeeps` and the lemmas about last matches and counts
  follow.  `BodiesReadBack` supposes `NullIsNoObject` (no object is JSON's null), which
  TLC takes for granted of a model value.

  `EncodingsExact` compares each format with one reference: a row of bits, read in numbers
  of so many bits (`Regrouped`).  A number read round by round (`Joined`) is the sum of its
  bits by their powers of two (`SixBits`, `EightBits`, `Eightfold`) and of its decimal digits by
  their powers of ten (`DigitsSay`): the literal powers, to 2^7 and 10^10, are all that is
  needed, and the prover computes them.
    * `Base64Exact`: three bytes are four sixes and back (`OctetParts`, `SextetParts`), the
      padding is what the sixes lack of a multiple of four, and reading gives all places
      but the first of each four a byte (`PlacesOfBytes`).
    * `Base64Read`: a character is read exactly if it is of the alphabet (`AlphabetSought`),
      and a text with its padding is its sixes, so it is read as `PaddedRead` says.
    * `Base32Exact`: the invariant of the loop is `RowHeld`: the bytes given so far are those
      of the row of bits, all but seven bits at most of what was taken, and the buffer ends
      in the last three fives (`EndsInFives`), which is all a byte of the next round is made
      of (`BufferByte`, `FiveByteOfRow`); so the buffer's width may cut off what is above.
    * `HotpExact`: the four bytes at the place named, less their first bit, are the 31 bits
      (`TakenBits`), and the digits are the lower ones of that number, up to ten.
    * `PinFileExact` and `PinFileKeptExact`: a text of at most nine digits is below 10^9
      and so below the modulus of the cast (`NumberBelow`, `UintParsed`), and what `Decimal`
      writes of such a number is read as that number (`DecimalParsed`).

Assumptions: `ListAssumption`, `ClipboardAssumption`, `KeysAssumption`, `DataAssumption`,
`IntervalsAssumption`, `ControllerAssumption`, `RequestAssumption`, `WritesAssumption` and
`PagesAssumption` (absent values are not values; answers are sync data or `Garbage`; a
controller's master keys are those of accounts, passwords and KDF parameters; disks are
disks), `AlphabetAssumption` and `LengthAssumption` (classes share no character; lengths are
integers), `DefaultAssumption` (the options of a fresh install are good for a
password, `appcontroller.cpp`'s defaults), and of the inputs `KindAssumption`,
`RandomAssumption` (a draw among at least one, a password of at least one character),
`BoundsAssumption` (the bounds of a derivation fit a signed integer, as `kdf.h`'s do),
`PreloginAssumption` (numbers of a JSON answer are integers of that width),
`TextAssumption` (inputs are bytes and characters; the buffer of `base32Decode` holds
a multiple of 2^12 values, as a `uint32_t` does; a MAC has 20 bytes or more, as
those of SHA-1, SHA-256 and SHA-512 have), `PinAssumption` (a `uint32_t` holds nine
digits, and the parameters a PIN is wrapped with have no more and are within the bounds),
`TokenAssumption` (entries of the list of second factors are numbers from 0 on, texts or
neither), `CodeAssumption` (time and period are integers) and `BodyAssumption` (URIs are
a list; an item as listed has no `lastKnownRevisionDate`, the key an update adds).  TLC
evaluates them in every run.

Only model-checked:

* `IdleVaultLocks`, `BusyEnds`, `AnnouncedIsCleared`, `CallsEnd`: liveness under
  fairness is beyond the prover;
* the violation runs.

## 6. Not modelled, and the plan

Left to model, most important first:

1. Two accounts: `configureAccount` over the token, blob and PIN of the account
   before.
2. Page transitions that take time, the search field's debounce.
3. What is only shown of an item: `itemDetailFields`, `folders`, cards, identities and
   custom fields.

Nothing is left to prove of the safety and action properties the runs check: each is stated
by a theorem.  What is modelled next brings its own.

Not planned: OpenSSL and Argon2 themselves (libraries; modelled by what they let
through), `serverconfig.cpp` (joins strings), URLs, headers and form encoding,
`main.cpp`, translations, packaging.
