-------------------------------- MODULE Pages --------------------------------
(***************************************************************************)
(* The pages (qml/): the page stack of harbour-leyni.qml, what each page    *)
(* holds of the vault's secrets or of what the user typed, and the copies.  *)
(* The controller is module Screen: any of its moves may come at any time,  *)
(* and each that changes the state is followed, within the same signal, by  *)
(* the pages' handlers and routeState.                                      *)
(*                                                                          *)
(* Of Silica's PageStack this module uses: push deactivates the page on     *)
(* top, pop destroys it, replaceAbove(null, ...) destroys all; transitions  *)
(* take no time.  Mutants (see VaultOps) are marked as such.                *)
(***************************************************************************)
EXTENDS Screen, Clipboard, SequencesExt

CONSTANTS
  Fields  \* what ItemDetailPage reveals on demand: password, notes, details

Code  == "totpCode"   \* polled every second, not revealed on demand
Typed == "typed"      \* what the user typed or had generated

PageNames ==
  {"SetupPage", "LoginPage", "TwoFactorPage", "UnlockPage", "VaultPage",
   "ItemDetailPage", "ItemEditPage", "GeneratorDialog", "SettingsPage",
   "EnablePinDialog"}
Page == [name : PageNames, holds : SUBSET (Fields \cup {Code, Typed})]

VARIABLE
  stack  \* pageStack, its currentPage last

vars == <<state, open, stack, copies>>

-----------------------------------------------------------------------------
(* pageFileForState and pageFamilyForState; EnablePinDialog has no pageName. *)
Home(s) ==
  CASE s = "setup" -> "SetupPage"       [] s = "login"  -> "LoginPage"
    [] s = "twofactor" -> "TwoFactorPage" [] s = "locked" -> "UnlockPage"
    [] s = "unlocked" -> "VaultPage"

Family(s) ==
  CASE s = "setup"     -> {"SetupPage"}
    [] s = "login"     -> {"LoginPage", "SetupPage"}
    [] s = "twofactor" -> {"TwoFactorPage"}
    [] s = "locked"    -> {"UnlockPage", "SettingsPage"}
    [] s = "unlocked"  -> {"VaultPage", "ItemDetailPage", "ItemEditPage",
                           "GeneratorDialog", "SettingsPage"}

Top == Last(stack)
Fresh(name) == [name |-> name, holds |-> {}]

(* Mutant of Deactivated: the handlers are left out.                         *)
DeactivatedHolding(page) == page

(* onStatusChanged: these pages drop what they hold when they are covered.   *)
Deactivated(page) ==
  IF page.name \in {"ItemDetailPage", "LoginPage", "UnlockPage", "TwoFactorPage"}
  THEN [page EXCEPT !.holds = {}] ELSE page

Push(page)  == stack' = Append(Front(stack) \o <<Deactivated(Top)>>, page)
Pop         == stack' = Front(stack)
Fill(holds) == stack' = Front(stack) \o <<[Top EXCEPT !.holds = holds]>>

(* Mutants of RouteState: only the page on top is replaced; a dialog without *)
(* a name is left alone.                                                     *)
RouteStateTop(s) ==
  IF Top.name \in Family(s) THEN stack ELSE Front(stack) \o <<Fresh(Home(s))>>
RouteStateNamed(s) ==
  IF Top.name \in Family(s) \cup {"EnablePinDialog"} THEN stack
  ELSE <<Fresh(Home(s))>>

(* A signal emitted twice in one handler (locking, then signing out) routes  *)
(* twice and ends on the same page.                                          *)
RouteState(s) ==
  IF Top.name \in Family(s) THEN stack ELSE <<Fresh(Home(s))>>

(* ItemDetailPage also listens itself.                                       *)
ClearedSecrets(pages, s) ==
  [i \in DOMAIN pages |->
     IF pages[i].name = "ItemDetailPage" /\ s # "unlocked"
     THEN [pages[i] EXCEPT !.holds = {}] ELSE pages[i]]

OnStateChanged ==
  stack' = IF state' = state THEN stack
           ELSE ClearedSecrets(RouteState(state'), state')

-----------------------------------------------------------------------------
Init ==
  /\ Booted /\ ClipboardInit
  /\ stack = <<Fresh(Home(state))>>

(* What the controller does, whatever page asked for it.                     *)
ControllerMoves == ScreenMoves /\ OnStateChanged /\ UNCHANGED copies

Restart ==
  /\ Restarted /\ ForgetCopies
  /\ stack' = <<Fresh(Home(state'))>>

On(name) == Top.name = name
Stays    == UNCHANGED <<screen, copies>>

-----------------------------------------------------------------------------
(* saveAndContinue: configureAccount, then on to the login page.             *)
SaveAndContinue ==
  /\ On("SetupPage") /\ Configure
  /\ stack' = <<Fresh("LoginPage")>>
  /\ UNCHANGED copies

ChangeAccount == On("LoginPage") /\ Push(Fresh("SetupPage")) /\ Stays

OpenSettings ==
  /\ On("UnlockPage") \/ On("VaultPage")
  /\ Push(Fresh("SettingsPage")) /\ Stays

TypeSecret ==
  /\ Top.name \in {"LoginPage", "TwoFactorPage", "UnlockPage", "ItemEditPage",
                   "EnablePinDialog"}
  /\ Fill(Top.holds \cup {Typed}) /\ Stays

ToggleUsePassword == On("UnlockPage") /\ Fill({}) /\ Stays

(* The list shows items of an open vault only.                               *)
OpenItem == On("VaultPage") /\ open /\ Push(Fresh("ItemDetailPage")) /\ Stays

NewItem == On("VaultPage") /\ Push(Fresh("ItemEditPage")) /\ Stays

(* Component.onCompleted prefills the fields; a locked vault yields "".      *)
EditItem ==
  /\ On("ItemDetailPage")
  /\ Push([name |-> "ItemEditPage", holds |-> IF open THEN Fields ELSE {}])
  /\ Stays

(* Shows a field, or masks it and drops the plaintext.                       *)
Reveal(field) ==
  /\ On("ItemDetailPage")
  /\ Fill(IF field \in Top.holds THEN Top.holds \ {field}
          ELSE IF open THEN Top.holds \cup {field} ELSE Top.holds)
  /\ Stays

(* The page's timer runs while it is active.                                 *)
UpdateTotp ==
  /\ On("ItemDetailPage")
  /\ Fill(IF open THEN Top.holds \cup {Code} ELSE Top.holds \ {Code})
  /\ Stays

(* The remorse of "Delete" pops whatever is on top when it ends.             *)
DeleteItem ==
  /\ \E i \in DOMAIN stack : stack[i].name = "ItemDetailPage"
  /\ Pop /\ Stays

GeneratePassword ==
  /\ On("VaultPage") \/ On("ItemEditPage")
  /\ Push([name |-> "GeneratorDialog", holds |-> {Typed}]) /\ Stays

(* "Use" fills the password field of the editor, "Copy" copies.              *)
UsePassword ==
  /\ On("GeneratorDialog") /\ Last(Front(stack)).name = "ItemEditPage"
  /\ stack' = Front(Front(stack))
              \o <<[Last(Front(stack)) EXCEPT !.holds = @ \cup {Typed}]>>
  /\ Stays

CopyPassword(text) ==
  /\ On("GeneratorDialog") /\ Last(Front(stack)).name = "VaultPage"
  /\ Pop /\ CopyToClipboard(text) /\ UNCHANGED screen

CopyField(text) ==
  /\ On("ItemDetailPage") /\ CopyToClipboard(text)
  /\ UNCHANGED <<screen, stack>>

EnablePin == On("SettingsPage") /\ Push(Fresh("EnablePinDialog")) /\ Stays

SetClipboardClearSeconds ==
  On("SettingsPage") /\ SetClipboardClear /\ UNCHANGED <<screen, stack>>

(* Swiping back, rejecting or accepting a dialog; what accepting calls       *)
(* reaches the pages through the controller's moves.                         *)
GoBack == Len(stack) > 1 /\ Pop /\ Stays

ClipboardTimerFires == ClearClipboardIfOurs /\ UNCHANGED <<screen, stack>>
OtherApplication    == CopiedElsewhere /\ UNCHANGED <<screen, stack>>

Copying == \E text \in Texts : CopyPassword(text) \/ CopyField(text)

Next ==
  \/ ControllerMoves \/ Restart
  \/ SaveAndContinue \/ ChangeAccount \/ OpenSettings
  \/ TypeSecret \/ ToggleUsePassword
  \/ OpenItem \/ NewItem \/ EditItem \/ UpdateTotp \/ DeleteItem
  \/ \E field \in Fields : Reveal(field)
  \/ GeneratePassword \/ UsePassword \/ Copying
  \/ EnablePin \/ SetClipboardClearSeconds \/ GoBack
  \/ ClipboardTimerFires \/ OtherApplication

(* The QTimer fires in the end unless it is started anew.                    *)
Spec == Init /\ [][Next]_vars /\ WF_vars(ClipboardTimerFires)

-----------------------------------------------------------------------------
(* The members keep their types; there is always a page.                     *)
TypeOK ==
  /\ state \in States /\ open \in BOOLEAN
  /\ stack \in Seq(Page) /\ stack # <<>>
  /\ ClipboardTypeOK

(* While signing in no page of the account signed in before is left to go    *)
(* back to, nor a sign-in page once signed in - in spite of the pages that   *)
(* are allowed to stay over a change of state.                               *)
SignInPagesFit ==
  \A i \in DOMAIN stack :
    stack[i].name \in IF state \in {"locked", "unlocked"}
                     THEN Family("locked") \cup Family("unlocked")
                          \cup {"EnablePinDialog"}
                     ELSE Family(state)

(* "drop the whole stack [...] This also destroys any lingering pages,       *)
(* running their onDestruction secret-clearing handlers"                     *)
(* (harbour-leyni.qml:43-47): whatever page was on top of whichever others,  *)
(* once the vault is not shown none holds a secret, typed ones included - but *)
(* an unlock page that was come back to from the settings.                   *)
LeavingClears ==
  [][state = "unlocked" /\ state' # "unlocked" =>
       \A i \in DOMAIN stack' :
         stack'[i].holds # {} => stack'[i].name = "UnlockPage"]_vars

(* "Every one of these MUST be cleared when the page stops being usable      *)
(* (destroyed, hidden, ...)" (ItemDetailPage.qml:23-25), and the typed       *)
(* password of the sign-in pages: a page that is covered holds nothing, the  *)
(* editor under a generator aside.                                           *)
CoveredHoldsNothing ==
  \A i \in 1 .. Len(stack) - 1 :
    stack[i].holds # {} => stack[i].name = "ItemEditPage"

(* "never clears a clipboard the user has since overwritten elsewhere"       *)
(* (doc/PLAN.md:146-147).                                                    *)
OthersCopiesStay ==
  [][~Copying /\ clipboard \in Foreign => clipboard' \in Foreign]_vars

(* "Copied - clears in N s" is kept: once the user copies no more, the text  *)
(* last announced so leaves the clipboard, however copies, settings and      *)
(* locking interleaved before.                                               *)
NothingCopied == ~Copying
AnnouncedIsCleared ==
  <>[][NothingCopied]_vars => <>[](notice = "clears" => clipboard \notin Texts)
=============================================================================
