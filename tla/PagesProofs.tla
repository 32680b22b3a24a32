----------------------------- MODULE PagesProofs -----------------------------
(***************************************************************************)
(* For every set of fields, every order of pages, controller moves and      *)
(* copies: the page stack fits the state (SignInPagesFit), a covered page   *)
(* holds nothing (CoveredHoldsNothing), leaving the unlocked state leaves   *)
(* no secret on a page (LeavingClears) and other applications' copies stay  *)
(* (OthersCopiesStay).                                                      *)
(***************************************************************************)
EXTENDS Pages, SequenceTheorems, TLAPS

(* How pages lie on one another: the pages a state starts with are at the    *)
(* bottom, and the two of them the settings can be opened from nowhere else. *)
Roots == {"SetupPage", "LoginPage", "TwoFactorPage", "UnlockPage", "VaultPage"}
OnlyAtBottom == {"UnlockPage", "VaultPage"}

(* Pages that are never filled.                                              *)
Bare == {"SetupPage", "VaultPage", "SettingsPage"}

Shape ==
  /\ stack[1].name \in Roots
  /\ \A i \in DOMAIN stack :
       /\ stack[i].name \in OnlyAtBottom => i = 1
       /\ stack[i].name = "SettingsPage" => i = 2
       /\ stack[i].name \in Bare => stack[i].holds = {}

ScreenTypeOK == state \in States /\ open \in BOOLEAN
StackTypeOK  == stack \in Seq(Page) /\ stack # <<>>

StackInv == StackTypeOK /\ Shape /\ SignInPagesFit /\ CoveredHoldsNothing

(* The inductive invariant.                                                  *)
PagesInv == ScreenTypeOK /\ StackInv /\ ClipboardTypeOK

-----------------------------------------------------------------------------
(* Stacks of pages: taking the top off, changing it, pushing on it.          *)
LEMMA TopAndFront ==
  ASSUME NEW s \in Seq(Page), s # <<>>
  PROVE  /\ Len(s) \in Nat \ {0} /\ DOMAIN s = 1 .. Len(s)
         /\ Last(s) = s[Len(s)] /\ Last(s) \in Page
         /\ Front(s) \in Seq(Page) /\ Len(Front(s)) = Len(s) - 1
         /\ \A i \in 1 .. Len(s) - 1 : Front(s)[i] = s[i]
  <1>1. Len(s) \in Nat \ {0} /\ DOMAIN s = 1 .. Len(s)
    OBVIOUS
  <1>2. Last(s) = s[Len(s)] /\ Last(s) \in Page
    BY <1>1 DEF Last
  <1>3. /\ Front(s) \in Seq(Page) /\ Len(Front(s)) = Len(s) - 1
        /\ \A i \in 1 .. Len(s) - 1 : Front(s)[i] = s[i]
    BY <1>1 DEF Front
  <1> QED
    BY <1>1, <1>2, <1>3

LEMMA TopReplaced ==
  ASSUME NEW s \in Seq(Page), s # <<>>, NEW page \in Page,
         NEW t \in {Front(s) \o <<page>>}
  PROVE  /\ t \in Seq(Page) /\ t # <<>> /\ Len(t) = Len(s)
         /\ \A i \in 1 .. Len(s) - 1 : t[i] = s[i]
         /\ t[Len(s)] = page
  <1>1. /\ Len(s) \in Nat \ {0}
        /\ Front(s) \in Seq(Page) /\ Len(Front(s)) = Len(s) - 1
        /\ \A i \in 1 .. Len(s) - 1 : Front(s)[i] = s[i]
    BY TopAndFront
  <1>2. <<page>> \in Seq(Page) /\ Len(<<page>>) = 1 /\ <<page>>[1] = page
    OBVIOUS
  <1>3. t = Front(s) \o <<page>>
    OBVIOUS
  <1> QED
    BY <1>1, <1>2, <1>3, ConcatProperties

(* What the top of a stack has, by the inductive invariant.                  *)
LEMMA OnTop ==
  ASSUME StackInv
  PROVE  /\ Len(stack) \in Nat \ {0} /\ DOMAIN stack = 1 .. Len(stack)
         /\ Top = stack[Len(stack)]
         /\ \A i \in 1 .. Len(stack) :
              stack[i].name \in PageNames
              /\ stack[i].holds \in SUBSET (Fields \cup {Code, Typed})
  <1>1. stack \in Seq(Page) /\ stack # <<>>
    BY DEF StackInv, StackTypeOK
  <1>2. /\ Len(stack) \in Nat \ {0} /\ DOMAIN stack = 1 .. Len(stack)
        /\ Last(stack) = stack[Len(stack)]
    BY <1>1, TopAndFront
  <1>3. \A i \in 1 .. Len(stack) : stack[i] \in Page
    BY <1>1, <1>2
  <1> QED
    BY <1>2, <1>3 DEF Top, Page

-----------------------------------------------------------------------------
(* The names SignInPagesFit allows in a state.                               *)
Fitting(s) ==
  IF s \in {"locked", "unlocked"}
  THEN Family("locked") \cup Family("unlocked") \cup {"EnablePinDialog"}
  ELSE Family(s)

LEMMA Fittings ==
  ASSUME NEW s
  PROVE  /\ s = "setup" => Fitting(s) = {"SetupPage"}
         /\ s = "login" => Fitting(s) = {"LoginPage", "SetupPage"}
         /\ s = "twofactor" => Fitting(s) = {"TwoFactorPage"}
         /\ s \in {"locked", "unlocked"} =>
              Fitting(s) = {"UnlockPage", "SettingsPage", "VaultPage",
                            "ItemDetailPage", "ItemEditPage",
                            "GeneratorDialog", "EnablePinDialog"}
  <1>1. s = "setup" => Fitting(s) = {"SetupPage"}
    BY DEF Fitting, Family
  <1>2. s = "login" => Fitting(s) = {"LoginPage", "SetupPage"}
    BY DEF Fitting, Family
  <1>3. s = "twofactor" => Fitting(s) = {"TwoFactorPage"}
    BY DEF Fitting, Family
  <1>4. s \in {"locked", "unlocked"} =>
          Fitting(s) = {"UnlockPage", "SettingsPage", "VaultPage",
                        "ItemDetailPage", "ItemEditPage",
                        "GeneratorDialog", "EnablePinDialog"}
    BY DEF Fitting, Family
  <1> QED
    BY <1>1, <1>2, <1>3, <1>4

LEMMA FreshHome ==
  ASSUME NEW s \in States
  PROVE  /\ Fresh(Home(s)) \in Page /\ Fresh(Home(s)).holds = {}
         /\ Fresh(Home(s)).name = Home(s)
         /\ Home(s) \in Roots \cap Fitting(s)
  <1>1. Home(s) \in Roots /\ Home(s) \in PageNames
    BY DEF Home, States, Roots, PageNames
  <1>2. Home(s) \in Fitting(s)
    BY Fittings DEF Home, States
  <1> QED
    BY <1>1, <1>2 DEF Fresh, Page

(* The stack is replaced.                                                    *)
LEMMA ReplacedKeeps ==
  ASSUME NEW page \in Page, stack' = <<page>>, page.holds = {},
         page.name \in Roots \cap Fitting(state')
  PROVE  StackInv'
  <1>1. /\ stack' \in Seq(Page) /\ stack' # <<>>
        /\ Len(stack') = 1 /\ DOMAIN stack' = {1} /\ stack'[1] = page
    OBVIOUS
  <1>2. Shape'
    BY <1>1 DEF Shape, Roots
  <1>3. SignInPagesFit' /\ CoveredHoldsNothing'
    BY <1>1 DEF SignInPagesFit, CoveredHoldsNothing, Fitting
  <1> QED
    BY <1>1, <1>2, <1>3 DEF StackInv, StackTypeOK

(* Pages are taken off, and the new top one is changed.                      *)
LEMMA TrimmedKeeps ==
  ASSUME StackInv, UNCHANGED state,
         stack' \in Seq(Page), stack' # <<>>, Len(stack') <= Len(stack),
         \A i \in 1 .. Len(stack') - 1 : stack'[i] = stack[i],
         LET n == Len(stack') IN
         /\ stack'[n].name = stack[n].name
         /\ stack'[n].name \in Bare => stack'[n] = stack[n]
  PROVE  StackInv'
  <1> DEFINE n == Len(stack')
  <1>1. /\ Len(stack) \in Nat \ {0} /\ DOMAIN stack = 1 .. Len(stack)
        /\ n \in Nat \ {0} /\ DOMAIN stack' = 1 .. n /\ n <= Len(stack)
    BY OnTop, TopAndFront
  <1>2. \A i \in 1 .. n : stack'[i].name = stack[i].name
    BY <1>1
  <1>3. \A i \in 1 .. n - 1 : stack'[i] = stack[i]
    OBVIOUS
  <1>4. stack'[n].name \in Bare => stack'[n] = stack[n]
    OBVIOUS
  <1> HIDE DEF n
  <1>5. Shape'
    <2>1. stack'[1].name \in Roots
      BY <1>1, <1>2 DEF StackInv, Shape
    <2>2. ASSUME NEW i \in 1 .. n
          PROVE  /\ stack'[i].name \in OnlyAtBottom => i = 1
                 /\ stack'[i].name = "SettingsPage" => i = 2
                 /\ stack'[i].name \in Bare => stack'[i].holds = {}
      <3>1. i \in DOMAIN stack /\ (stack'[i] = stack[i] \/ i = n)
        BY <1>1, <1>3
      <3> QED
        BY <1>2, <1>4, <3>1 DEF StackInv, Shape
    <2> QED
      BY <1>1, <2>1, <2>2 DEF Shape
  <1>6. SignInPagesFit'
    BY <1>1, <1>2 DEF StackInv, SignInPagesFit
  <1>7. CoveredHoldsNothing'
    <2> SUFFICES ASSUME NEW i \in 1 .. n - 1, stack'[i].holds # {}
                 PROVE  stack'[i].name = "ItemEditPage"
      BY DEF CoveredHoldsNothing, n
    <2>1. i \in 1 .. Len(stack) - 1 /\ stack'[i] = stack[i]
      BY <1>1, <1>3
    <2> QED
      BY <2>1 DEF StackInv, CoveredHoldsNothing
  <1> QED
    BY <1>5, <1>6, <1>7 DEF StackInv, StackTypeOK

LEMMA DeactivatedPage ==
  ASSUME NEW page \in Page
  PROVE  /\ Deactivated(page) \in Page
         /\ Deactivated(page).name = page.name
         /\ \/ Deactivated(page) = page
            \/ Deactivated(page).holds = {}
         /\ Deactivated(page).holds # {}
              => page.name \in {"SetupPage", "VaultPage", "ItemEditPage",
                   "GeneratorDialog", "SettingsPage", "EnablePinDialog"}
  BY DEF Deactivated, Page, PageNames

(* A page is pushed on one that is allowed to be covered.                    *)
LEMMA PushKeeps ==
  ASSUME StackInv, UNCHANGED state, NEW page \in Page, Push(page),
         Top.name \notin {"GeneratorDialog", "EnablePinDialog"},
         page.name \in Fitting(state) \ OnlyAtBottom,
         page.name = "SettingsPage" => Top.name \in OnlyAtBottom,
         page.name \in Bare => page.holds = {}
  PROVE  StackInv'
  <1> DEFINE n == Len(stack)
             under == Deactivated(Top)
             rest == Front(stack) \o <<under>>
  <1>1. /\ n \in Nat \ {0} /\ DOMAIN stack = 1 .. n /\ Top = stack[n]
        /\ stack \in Seq(Page) /\ stack # <<>>
    BY OnTop DEF StackInv, StackTypeOK
  <1>2. /\ under \in Page /\ under.name = Top.name
        /\ under = Top \/ under.holds = {}
        /\ under.holds # {}
             => Top.name \in {"SetupPage", "VaultPage", "ItemEditPage",
                  "GeneratorDialog", "SettingsPage", "EnablePinDialog"}
    <2>1. Top \in Page
      BY <1>1
    <2> QED
      BY <2>1, DeactivatedPage
  <1>3. stack' = Append(rest, page) /\ rest \in {Front(stack) \o <<under>>}
    BY DEF Push
  <1> HIDE DEF under, rest
  <1>4. /\ stack' \in Seq(Page) /\ stack' # <<>> /\ Len(stack') = n + 1
        /\ \A i \in 1 .. n - 1 : stack'[i] = stack[i]
        /\ stack'[n] = under /\ stack'[n + 1] = page
    <2>1. /\ rest \in Seq(Page) /\ Len(rest) = n
          /\ \A i \in 1 .. n - 1 : rest[i] = stack[i]
          /\ rest[n] = under
      BY <1>1, <1>2, <1>3, TopReplaced
    <2>2. /\ stack' \in Seq(Page) /\ stack' # <<>>
          /\ Len(stack') = Len(rest) + 1
          /\ \A i \in 1 .. Len(rest) : stack'[i] = rest[i]
          /\ stack'[Len(rest) + 1] = page
      BY <1>3, <2>1, AppendProperties
    <2> QED
      BY <1>1, <2>1, <2>2
  <1>5. DOMAIN stack' = 1 .. n + 1
    BY <1>4
  <1> HIDE DEF n
  <1>6. \A i \in 1 .. n :
          /\ stack'[i].name = stack[i].name
          /\ stack'[i].holds = {} \/ stack'[i] = stack[i]
    BY <1>1, <1>2, <1>4
  <1>7. Top.name \in OnlyAtBottom => n = 1
    BY <1>1 DEF StackInv, Shape
  <1>8. Shape'
    <2>1. stack'[1].name \in Roots
      BY <1>1, <1>6 DEF StackInv, Shape
    <2>2. ASSUME NEW i \in 1 .. n
          PROVE  /\ stack'[i].name \in OnlyAtBottom => i = 1
                 /\ stack'[i].name = "SettingsPage" => i = 2
                 /\ stack'[i].name \in Bare => stack'[i].holds = {}
      BY <1>1, <1>6 DEF StackInv, Shape
    <2>3. /\ stack'[n + 1].name \in OnlyAtBottom => n + 1 = 1
          /\ stack'[n + 1].name = "SettingsPage" => n + 1 = 2
          /\ stack'[n + 1].name \in Bare => stack'[n + 1].holds = {}
      BY <1>4, <1>7
    <2>4. \A i \in 1 .. n + 1 : i \in 1 .. n \/ i = n + 1
      BY <1>1
    <2> QED
      BY <1>5, <2>1, <2>2, <2>3, <2>4 DEF Shape
  <1>9. SignInPagesFit'
    <2>1. \A i \in 1 .. n + 1 : stack'[i].name \in Fitting(state)
      <3>1. \A i \in 1 .. n : stack[i].name \in Fitting(state)
        BY <1>1 DEF StackInv, SignInPagesFit, Fitting
      <3>2. stack'[n + 1].name \in Fitting(state)
        BY <1>4
      <3>3. \A i \in 1 .. n + 1 : i \in 1 .. n \/ i = n + 1
        BY <1>1
      <3> QED
        BY <1>6, <3>1, <3>2, <3>3
    <2> QED
      BY <1>5, <2>1 DEF SignInPagesFit, Fitting
  <1>10. CoveredHoldsNothing'
    <2> SUFFICES ASSUME NEW i \in 1 .. n, stack'[i].holds # {}
                 PROVE  stack'[i].name = "ItemEditPage"
      BY <1>1, <1>4 DEF CoveredHoldsNothing
    <2>1. CASE i \in 1 .. n - 1
      BY <1>4, <2>1 DEF StackInv, CoveredHoldsNothing, n
    <2>2. CASE i = n
      <3>1. under.holds # {} /\ under = Top
        BY <1>2, <1>4, <2>2
      <3>2. Top.name \notin Bare
        BY <1>1, <3>1 DEF StackInv, Shape
      <3> QED
        BY <1>2, <1>4, <2>2, <3>1, <3>2 DEF Bare
    <2> QED
      BY <1>1, <2>1, <2>2
  <1> QED
    BY <1>4, <1>8, <1>9, <1>10 DEF StackInv, StackTypeOK

(* The page on top is filled or emptied.                                     *)
LEMMA FillKeeps ==
  ASSUME StackInv, UNCHANGED state, NEW holds, Fill(holds),
         holds \subseteq Fields \cup {Code, Typed}, Top.name \notin Bare
  PROVE  StackInv'
  <1> DEFINE page == [Top EXCEPT !.holds = holds]
  <1>1. /\ Len(stack) \in Nat \ {0} /\ Top = stack[Len(stack)]
        /\ stack \in Seq(Page) /\ stack # <<>>
    BY OnTop DEF StackInv, StackTypeOK
  <1>2. page \in Page /\ page.name = Top.name
    <2>1. Top \in Page
      BY <1>1
    <2> QED
      BY <2>1 DEF Page
  <1>3. stack' = Front(stack) \o <<page>>
    BY DEF Fill
  <1> HIDE DEF page
  <1>4. /\ stack' \in Seq(Page) /\ stack' # <<>> /\ Len(stack') = Len(stack)
        /\ \A i \in 1 .. Len(stack) - 1 : stack'[i] = stack[i]
        /\ stack'[Len(stack)] = page
    BY <1>1, <1>2, <1>3, TopReplaced
  <1> QED
    BY <1>1, <1>2, <1>4, TrimmedKeeps

LEMMA PopKeeps ==
  ASSUME StackInv, UNCHANGED state, Pop, Len(stack) > 1
  PROVE  StackInv'
  <1>1. stack \in Seq(Page) /\ stack # <<>> /\ Len(stack) \in Nat \ {0}
    BY OnTop DEF StackInv, StackTypeOK
  <1>2. /\ stack' \in Seq(Page) /\ Len(stack') = Len(stack) - 1
        /\ \A i \in 1 .. Len(stack) - 1 : stack'[i] = stack[i]
    BY <1>1, TopAndFront DEF Pop
  <1>3. stack' # <<>> /\ Len(stack') \in Nat \ {0}
    BY <1>1, <1>2
  <1> QED
    BY <1>1, <1>2, <1>3, TrimmedKeeps

LEMMA UsePasswordKeeps ==
  ASSUME StackInv, UsePassword
  PROVE  StackInv'
  <1> DEFINE rest == Front(stack)
             page == [Last(rest) EXCEPT !.holds = @ \cup {Typed}]
  <1>1. /\ Len(stack) \in Nat \ {0} /\ Top = stack[Len(stack)]
        /\ stack \in Seq(Page) /\ stack # <<>>
    BY OnTop DEF StackInv, StackTypeOK
  <1>2. /\ Top.name = "GeneratorDialog" /\ Last(rest).name = "ItemEditPage"
        /\ stack' \in {Front(rest) \o <<page>>} /\ UNCHANGED state
    BY DEF UsePassword, On, Stays, screen
  <1>3. Len(stack) > 1
    BY <1>1, <1>2 DEF StackInv, Shape, Roots
  <1>4. /\ rest \in Seq(Page) /\ Len(rest) = Len(stack) - 1
        /\ \A i \in 1 .. Len(stack) - 1 : rest[i] = stack[i]
    BY <1>1, TopAndFront
  <1> HIDE DEF rest
  <1>5. rest # <<>> /\ Len(rest) \in Nat \ {0}
    BY <1>1, <1>3, <1>4
  <1>6. Last(rest) = stack[Len(rest)] /\ Last(rest) \in Page
    BY <1>1, <1>4, <1>5 DEF Last
  <1>7. page \in Page /\ page.name = "ItemEditPage"
    BY <1>2, <1>6 DEF Page
  <1> HIDE DEF page
  <1>8. /\ stack' \in Seq(Page) /\ stack' # <<>> /\ Len(stack') = Len(rest)
        /\ \A i \in 1 .. Len(rest) - 1 : stack'[i] = rest[i]
        /\ stack'[Len(rest)] = page
    BY <1>2, <1>4, <1>5, <1>7, TopReplaced
  <1>9. \A i \in 1 .. Len(stack') - 1 : stack'[i] = stack[i]
    BY <1>1, <1>4, <1>8
  <1>10. /\ stack'[Len(stack')].name = stack[Len(stack')].name
         /\ stack'[Len(stack')].name \notin Bare
    BY <1>2, <1>6, <1>7, <1>8 DEF Bare
  <1> QED
    BY <1>1, <1>2, <1>4, <1>8, <1>9, <1>10, TrimmedKeeps

(* The root is never taken away: a page that only others can push is on top. *)
LEMMA NotAtBottom ==
  ASSUME StackInv, NEW i \in DOMAIN stack, stack[i].name \notin Roots
  PROVE  Len(stack) > 1
  BY OnTop DEF StackInv, Shape

LEMMA TopFits ==
  ASSUME StackInv
  PROVE  /\ Top.name \in Fitting(state)
         /\ Top.name \in OnlyAtBottom => Len(stack) = 1
         /\ Top.name = "SettingsPage" => Len(stack) = 2
         /\ Top.name \in Bare => Top.holds = {}
         /\ Top.name \notin Roots => Len(stack) > 1
         /\ Top.holds \in SUBSET (Fields \cup {Code, Typed})
  <1>1. /\ Len(stack) \in Nat \ {0} /\ DOMAIN stack = 1 .. Len(stack)
        /\ Top = stack[Len(stack)] /\ Len(stack) \in DOMAIN stack
        /\ Top.holds \in SUBSET (Fields \cup {Code, Typed})
    BY OnTop
  <1>2. Top.name \in Fitting(state)
    BY <1>1 DEF StackInv, SignInPagesFit, Fitting
  <1>3. /\ Top.name \in OnlyAtBottom => Len(stack) = 1
        /\ Top.name = "SettingsPage" => Len(stack) = 2
        /\ Top.name \in Bare => Top.holds = {}
    BY <1>1 DEF StackInv, Shape
  <1>4. Top.name \notin Roots => Len(stack) > 1
    BY <1>1, NotAtBottom
  <1> QED
    BY <1>1, <1>2, <1>3, <1>4

(* A stack routeState keeps over a change of state fits the new one.         *)
LEMMA KeptFits ==
  ASSUME ScreenTypeOK, StackInv, ScreenMoves, state' # state,
         Top.name \in Family(state')
  PROVE  /\ Fitting(state) \subseteq Fitting(state')
         /\ state = "unlocked" => Top.name \in {"UnlockPage", "SettingsPage"}
  <1>1. state \in States /\ state' \in {"login", "twofactor", "locked", "unlocked"}
    BY DEF ScreenTypeOK, ScreenMoves, Configure, AskCode, OpenVault,
       CloseVault, SwitchPage, CloseBehind
  <1>2. Top.name \in Fitting(state)
    BY TopFits
  <1>3. CASE state' = "login"
    <2>1. Top.name \in {"LoginPage", "SetupPage"}
      BY <1>3 DEF Family
    <2>2. state = "setup"
      BY <1>1, <1>2, <1>3, <2>1, Fittings DEF States
    <2> QED
      BY <1>3, <2>2, Fittings
  <1>4. CASE state' = "twofactor"
    <2>1. Top.name = "TwoFactorPage"
      BY <1>4 DEF Family
    <2>2. FALSE
      BY <1>1, <1>2, <1>4, <2>1, Fittings DEF States
    <2> QED
      BY <2>2
  <1>5. CASE state' \in {"locked", "unlocked"}
    <2>1. /\ Top.name \in {"UnlockPage", "SettingsPage", "VaultPage",
               "ItemDetailPage", "ItemEditPage", "GeneratorDialog"}
          /\ state' = "locked" => Top.name \in {"UnlockPage", "SettingsPage"}
      BY <1>5 DEF Family
    <2>2. state \in {"locked", "unlocked"}
      BY <1>1, <1>2, <2>1, Fittings DEF States
    <2> QED
      BY <1>5, <2>1, <2>2, Fittings
  <1> QED
    BY <1>1, <1>3, <1>4, <1>5

(* Both ways to change the state: over the stack as it is, and over a new    *)
(* one.                                                                      *)
LEMMA ControllerKeeps ==
  ASSUME ScreenTypeOK, StackInv, ScreenMoves, OnStateChanged
  PROVE  /\ ScreenTypeOK' /\ StackInv'
         /\ state = "unlocked" /\ state' # "unlocked" =>
              \A i \in DOMAIN stack' :
                stack'[i].holds # {} => stack'[i].name = "UnlockPage"
  <1>1. state \in States /\ state' \in States /\ open' \in BOOLEAN
    BY DEF ScreenTypeOK, ScreenMoves, Configure, AskCode, OpenVault,
       CloseVault, SwitchPage, CloseBehind, States
  <1>2. CASE state' = state
    BY <1>1, <1>2 DEF OnStateChanged, ScreenTypeOK, StackInv, StackTypeOK,
       Shape, SignInPagesFit, CoveredHoldsNothing
  <1>3. CASE state' # state /\ Top.name \in Family(state')
    <2> DEFINE n == Len(stack)
    <2>1. stack' = ClearedSecrets(stack, state')
      BY <1>3 DEF OnStateChanged, RouteState
    <2>2. /\ n \in Nat \ {0} /\ DOMAIN stack = 1 .. n /\ Top = stack[n]
          /\ stack \in Seq(Page) /\ stack # <<>>
      BY OnTop DEF StackInv, StackTypeOK
    <2> HIDE DEF n
    <2>3. ASSUME NEW i \in 1 .. n
          PROVE  /\ stack'[i] \in Page /\ stack'[i].name = stack[i].name
                 /\ stack'[i].holds = {} \/ stack'[i] = stack[i]
      <3>1. stack[i] \in Page
        BY <2>2
      <3>2. stack'[i] = IF stack[i].name = "ItemDetailPage" /\ state' # "unlocked"
                        THEN [stack[i] EXCEPT !.holds = {}] ELSE stack[i]
        BY <2>1, <2>2 DEF ClearedSecrets
      <3> QED
        BY <3>1, <3>2 DEF Page
    <2>4. stack' \in [1 .. n -> Page]
      BY <2>1, <2>2, <2>3 DEF ClearedSecrets
    <2>5. /\ stack' \in Seq(Page) /\ DOMAIN stack' = 1 .. n
          /\ Len(stack') = n /\ stack' # <<>>
      BY <2>2, <2>4
    <2>6. Fitting(state) \subseteq Fitting(state')
      BY <1>3, KeptFits
    <2>7. Shape'
      BY <2>2, <2>3, <2>5 DEF StackInv, Shape
    <2>8. SignInPagesFit'
      <3>1. \A i \in 1 .. n : stack[i].name \in Fitting(state)
        BY <2>2 DEF StackInv, SignInPagesFit, Fitting
      <3>2. \A i \in 1 .. n : stack'[i].name \in Fitting(state')
        BY <2>3, <2>6, <3>1
      <3> QED
        BY <2>5, <3>2 DEF SignInPagesFit, Fitting
    <2>9. CoveredHoldsNothing'
      <3> SUFFICES ASSUME NEW i \in 1 .. n - 1, stack'[i].holds # {}
                   PROVE  stack'[i].name = "ItemEditPage"
        BY <2>5 DEF CoveredHoldsNothing
      <3>1. i \in 1 .. n /\ i \in 1 .. Len(stack) - 1
        BY <2>2 DEF n
      <3>2. stack'[i] = stack[i]
        BY <2>3, <3>1
      <3> QED
        BY <3>1, <3>2 DEF StackInv, CoveredHoldsNothing
    <2>10. ASSUME state = "unlocked", NEW i \in 1 .. n, stack'[i].holds # {}
           PROVE  stack'[i].name = "UnlockPage"
      <3>1. Top.name \in {"UnlockPage", "SettingsPage"}
        BY <1>3, <2>10, KeptFits
      <3>2. stack'[i] = stack[i]
        BY <2>3, <2>10
      <3>3. CASE Top.name = "UnlockPage"
        <4>1. n = 1
          BY <3>3, TopFits DEF OnlyAtBottom, n
        <4> QED
          BY <2>2, <3>2, <3>3, <4>1
      <3>4. CASE Top.name = "SettingsPage"
        <4>1. n = 2 /\ Top.holds = {}
          BY <3>4, TopFits DEF Bare, n
        <4>2. i = 1
          BY <2>2, <2>10, <3>2, <4>1
        <4>3. stack[1].name = "ItemEditPage"
          BY <2>10, <3>2, <4>1, <4>2 DEF StackInv, CoveredHoldsNothing, n
        <4> QED
          BY <4>3 DEF StackInv, Shape, Roots
      <3> QED
        BY <3>1, <3>3, <3>4
    <2> QED
      BY <1>1, <2>5, <2>7, <2>8, <2>9, <2>10 DEF ScreenTypeOK, StackInv,
         StackTypeOK
  <1>4. CASE state' # state /\ Top.name \notin Family(state')
    <2> DEFINE home == Fresh(Home(state'))
    <2>1. stack' = ClearedSecrets(<<home>>, state')
      BY <1>4 DEF OnStateChanged, RouteState
    <2>2. /\ home \in Page /\ home.holds = {}
          /\ home.name \in Roots \cap Fitting(state')
      BY <1>1, FreshHome
    <2> HIDE DEF home
    <2>3. stack' = <<home>>
      <3>1. home.name # "ItemDetailPage"
        BY <2>2 DEF Roots
      <3>2. stack' = [i \in {1} |-> <<home>>[i]]
        BY <2>1, <3>1 DEF ClearedSecrets
      <3> QED
        BY <3>2
    <2>4. StackInv'
      BY <2>2, <2>3, ReplacedKeeps
    <2>5. \A i \in DOMAIN stack' : stack'[i].holds = {}
      BY <2>2, <2>3
    <2> QED
      BY <1>1, <2>4, <2>5 DEF ScreenTypeOK
  <1> QED
    BY <1>2, <1>3, <1>4

LEMMA RestartKeeps ==
  ASSUME PagesInv, Restart
  PROVE  /\ PagesInv'
         /\ \A i \in DOMAIN stack' : stack'[i].holds = {}
  <1> DEFINE home == Fresh(Home(state'))
  <1>1. state' \in States /\ open' \in BOOLEAN
    BY DEF Restart, Restarted, FirstStates, States
  <1>2. /\ home \in Page /\ home.holds = {}
        /\ home.name \in Roots \cap Fitting(state')
    BY <1>1, FreshHome
  <1>3. stack' = <<home>>
    BY DEF Restart
  <1> HIDE DEF home
  <1>4. StackInv'
    BY <1>2, <1>3, ReplacedKeeps
  <1>5. ClipboardTypeOK'
    BY DEF PagesInv, Restart, ForgetCopies, ClipboardTypeOK
  <1> QED
    BY <1>1, <1>2, <1>3, <1>4, <1>5 DEF PagesInv, ScreenTypeOK

LEMMA SaveAndContinueKeeps ==
  ASSUME ScreenTypeOK, StackInv, SaveAndContinue
  PROVE  ScreenTypeOK' /\ StackInv'
  <1> DEFINE page == Fresh("LoginPage")
  <1>1. state' = "login" /\ open' = open /\ stack' = <<page>>
    BY DEF SaveAndContinue, Configure
  <1>2. page \in Page /\ page.holds = {} /\ page.name = "LoginPage"
    BY DEF Fresh, Page, PageNames
  <1>3. page.name \in Roots \cap Fitting(state')
    BY <1>1, <1>2, Fittings DEF Roots
  <1> HIDE DEF page
  <1>4. StackInv'
    BY <1>1, <1>2, <1>3, ReplacedKeeps
  <1> QED
    BY <1>1, <1>4 DEF ScreenTypeOK, States

LEMMA InitKeeps ==
  ASSUME Init
  PROVE  PagesInv
  <1> DEFINE home == Fresh(Home(state))
  <1>1. state \in States /\ open \in BOOLEAN /\ stack = <<home>>
    BY DEF Init, Booted, FirstStates, States
  <1>2. /\ home \in Page /\ home.holds = {}
        /\ home.name \in Roots \cap Fitting(state)
    BY <1>1, FreshHome
  <1> HIDE DEF home
  <1>3. /\ stack \in Seq(Page) /\ stack # <<>>
        /\ Len(stack) = 1 /\ DOMAIN stack = {1} /\ stack[1] = home
    BY <1>1, <1>2
  <1>4. Shape
    BY <1>2, <1>3 DEF Shape, Roots
  <1>5. SignInPagesFit /\ CoveredHoldsNothing
    BY <1>2, <1>3 DEF SignInPagesFit, CoveredHoldsNothing, Fitting
  <1>6. ClipboardTypeOK
    BY DEF Init, ClipboardInit, ClipboardTypeOK
  <1> QED
    BY <1>1, <1>3, <1>4, <1>5, <1>6 DEF PagesInv, ScreenTypeOK, StackInv,
       StackTypeOK

-----------------------------------------------------------------------------
(* What the user opens, types, reveals and closes.                           *)
LEMMA FreshPage ==
  ASSUME NEW name \in PageNames
  PROVE  /\ Fresh(name) \in Page /\ Fresh(name).name = name
         /\ Fresh(name).holds = {}
  BY DEF Fresh, Page

LEMMA StateOfTop ==
  ASSUME ScreenTypeOK, StackInv
  PROVE  /\ Top.name = "LoginPage" => state = "login"
         /\ Top.name \in {"UnlockPage", "SettingsPage", "VaultPage",
              "ItemDetailPage", "ItemEditPage"} => state \in {"locked", "unlocked"}
  BY TopFits, Fittings DEF ScreenTypeOK, States

LEMMA OpeningKeeps ==
  ASSUME ScreenTypeOK, StackInv,
         \/ ChangeAccount \/ OpenSettings \/ OpenItem \/ NewItem \/ EditItem
         \/ GeneratePassword \/ EnablePin
  PROVE  StackInv'
  <1>1. /\ state' = state
        /\ Top.name = "LoginPage" => state = "login"
        /\ Top.name \in {"UnlockPage", "SettingsPage", "VaultPage",
             "ItemDetailPage", "ItemEditPage"} => state \in {"locked", "unlocked"}
    BY StateOfTop DEF ChangeAccount, OpenSettings, OpenItem, NewItem, EditItem,
       GeneratePassword, EnablePin, Stays, screen
  <1>2. CASE ChangeAccount
    <2>1. /\ Fresh("SetupPage") \in Page /\ Fresh("SetupPage").name = "SetupPage"
          /\ Fresh("SetupPage").holds = {}
      BY FreshPage DEF PageNames
    <2>2. Top.name = "LoginPage" /\ Push(Fresh("SetupPage"))
      BY <1>2 DEF ChangeAccount, On
    <2>3. "SetupPage" \in Fitting(state) \ OnlyAtBottom
      BY <1>1, <2>2, Fittings DEF OnlyAtBottom
    <2> QED
      BY <1>1, <2>1, <2>2, <2>3, PushKeeps
  <1>3. CASE OpenSettings
    <2>1. /\ Fresh("SettingsPage") \in Page
          /\ Fresh("SettingsPage").name = "SettingsPage"
          /\ Fresh("SettingsPage").holds = {}
      BY FreshPage DEF PageNames
    <2>2. Top.name \in OnlyAtBottom /\ Push(Fresh("SettingsPage"))
      BY <1>3 DEF OpenSettings, On, OnlyAtBottom
    <2>3. "SettingsPage" \in Fitting(state) \ OnlyAtBottom
      BY <1>1, <2>2, Fittings DEF OnlyAtBottom
    <2> QED
      BY <1>1, <2>1, <2>2, <2>3, PushKeeps DEF OnlyAtBottom
  <1>4. CASE OpenItem
    <2>1. /\ Fresh("ItemDetailPage") \in Page
          /\ Fresh("ItemDetailPage").name = "ItemDetailPage"
      BY FreshPage DEF PageNames
    <2>2. Top.name = "VaultPage" /\ Push(Fresh("ItemDetailPage"))
      BY <1>4 DEF OpenItem, On
    <2>3. "ItemDetailPage" \in Fitting(state) \ OnlyAtBottom
      BY <1>1, <2>2, Fittings DEF OnlyAtBottom
    <2> QED
      BY <1>1, <2>1, <2>2, <2>3, PushKeeps DEF Bare
  <1>5. CASE NewItem
    <2>1. /\ Fresh("ItemEditPage") \in Page
          /\ Fresh("ItemEditPage").name = "ItemEditPage"
      BY FreshPage DEF PageNames
    <2>2. Top.name = "VaultPage" /\ Push(Fresh("ItemEditPage"))
      BY <1>5 DEF NewItem, On
    <2>3. "ItemEditPage" \in Fitting(state) \ OnlyAtBottom
      BY <1>1, <2>2, Fittings DEF OnlyAtBottom
    <2> QED
      BY <1>1, <2>1, <2>2, <2>3, PushKeeps DEF Bare
  <1>6. CASE EditItem
    <2> DEFINE page == [name |-> "ItemEditPage",
                        holds |-> IF open THEN Fields ELSE {}]
    <2>1. page \in Page /\ page.name = "ItemEditPage"
      BY DEF Page, PageNames
    <2>2. Top.name = "ItemDetailPage" /\ Push(page)
      BY <1>6 DEF EditItem, On
    <2> HIDE DEF page
    <2>3. "ItemEditPage" \in Fitting(state) \ OnlyAtBottom
      BY <1>1, <2>2, Fittings DEF OnlyAtBottom
    <2> QED
      BY <1>1, <2>1, <2>2, <2>3, PushKeeps DEF Bare
  <1>7. CASE GeneratePassword
    <2> DEFINE page == [name |-> "GeneratorDialog", holds |-> {Typed}]
    <2>1. page \in Page /\ page.name = "GeneratorDialog"
      BY DEF Page, PageNames
    <2>2. Top.name \in {"VaultPage", "ItemEditPage"} /\ Push(page)
      BY <1>7 DEF GeneratePassword, On
    <2> HIDE DEF page
    <2>3. "GeneratorDialog" \in Fitting(state) \ OnlyAtBottom
      BY <1>1, <2>2, Fittings DEF OnlyAtBottom
    <2> QED
      BY <1>1, <2>1, <2>2, <2>3, PushKeeps DEF Bare
  <1>8. CASE EnablePin
    <2>1. /\ Fresh("EnablePinDialog") \in Page
          /\ Fresh("EnablePinDialog").name = "EnablePinDialog"
      BY FreshPage DEF PageNames
    <2>2. Top.name = "SettingsPage" /\ Push(Fresh("EnablePinDialog"))
      BY <1>8 DEF EnablePin, On
    <2>3. "EnablePinDialog" \in Fitting(state) \ OnlyAtBottom
      BY <1>1, <2>2, Fittings DEF OnlyAtBottom
    <2> QED
      BY <1>1, <2>1, <2>2, <2>3, PushKeeps DEF Bare
  <1> QED
    BY <1>2, <1>3, <1>4, <1>5, <1>6, <1>7, <1>8

LEMMA FillingKeeps ==
  ASSUME StackInv,
         \/ TypeSecret \/ ToggleUsePassword \/ UpdateTotp
         \/ \E field \in Fields : Reveal(field)
  PROVE  StackInv'
  <1>1. Top.holds \in SUBSET (Fields \cup {Code, Typed})
    BY TopFits
  <1>2. PICK holds \in SUBSET (Fields \cup {Code, Typed}) : Fill(holds)
    <2>1. CASE TypeSecret
      BY <1>1, <2>1 DEF TypeSecret
    <2>2. CASE ToggleUsePassword
      BY <2>2 DEF ToggleUsePassword
    <2>3. CASE UpdateTotp
      BY <1>1, <2>3 DEF UpdateTotp
    <2>4. CASE \E field \in Fields : Reveal(field)
      BY <1>1, <2>4 DEF Reveal
    <2> QED
      BY <2>1, <2>2, <2>3, <2>4
  <1>3. state' = state /\ Top.name \notin Bare
    BY DEF TypeSecret, ToggleUsePassword, UpdateTotp, Reveal, On, Stays,
       screen, Bare
  <1> QED
    BY <1>2, <1>3, FillKeeps

LEMMA ClosingKeeps ==
  ASSUME StackInv, \/ DeleteItem \/ GoBack
                   \/ \E text \in Texts : CopyPassword(text)
  PROVE  StackInv'
  <1>1. state' = state /\ Pop
    BY DEF DeleteItem, GoBack, CopyPassword, Stays, screen
  <1>2. Len(stack) > 1
    <2>1. CASE DeleteItem
      BY <2>1, NotAtBottom DEF DeleteItem, Roots
    <2>2. CASE GoBack
      BY <2>2 DEF GoBack
    <2>3. CASE \E text \in Texts : CopyPassword(text)
      BY <2>3, TopFits DEF CopyPassword, On, Roots
    <2> QED
      BY <2>1, <2>2, <2>3
  <1> QED
    BY <1>1, <1>2, PopKeeps

-----------------------------------------------------------------------------
(* The copies.                                                               *)
CopiesStep ==
  \/ UNCHANGED copies \/ SetClipboardClear \/ ClearClipboardIfOurs
  \/ CopiedElsewhere \/ ForgetCopies
  \/ \E text \in Texts : CopyToClipboard(text)

LEMMA CopiesKeep ==
  ASSUME ClipboardTypeOK, CopiesStep
  PROVE  ClipboardTypeOK'
  BY DEF ClipboardTypeOK, CopiesStep, copies, SetClipboardClear,
     ClearClipboardIfOurs, Cleared, CopiedElsewhere, ForgetCopies,
     CopyToClipboard

(* What another application copied is never what the timer is to clear.      *)
LEMMA ForeignStays ==
  ASSUME ClipboardTypeOK, clipboard \in Foreign,
         \/ UNCHANGED copies \/ SetClipboardClear \/ ClearClipboardIfOurs
         \/ CopiedElsewhere \/ ForgetCopies
  PROVE  clipboard' \in Foreign
  BY ClipboardAssumption DEF ClipboardTypeOK, copies, SetClipboardClear,
     ClearClipboardIfOurs, Cleared, CopiedElsewhere, ForgetCopies

-----------------------------------------------------------------------------
(* Every step, and what it is to the screen, the stack and the copies.       *)
Opening == \/ ChangeAccount \/ OpenSettings \/ OpenItem \/ NewItem \/ EditItem
           \/ GeneratePassword \/ EnablePin
Filling == \/ TypeSecret \/ ToggleUsePassword \/ UpdateTotp
           \/ \E field \in Fields : Reveal(field)
Closing == \/ DeleteItem \/ GoBack
           \/ \E text \in Texts : CopyPassword(text)
Aside   == \/ SetClipboardClearSeconds \/ ClipboardTimerFires
           \/ OtherApplication \/ \E text \in Texts : CopyField(text)

LEMMA Steps ==
  ASSUME Next
  PROVE  \/ ControllerMoves \/ Restart \/ SaveAndContinue
         \/ Opening \/ Filling \/ Closing \/ UsePassword \/ Aside
  BY DEF Next, Opening, Filling, Closing, Aside, Copying

LEMMA StepCopies ==
  ASSUME [Next]_vars
  PROVE  /\ CopiesStep
         /\ ~Copying => \/ UNCHANGED copies \/ SetClipboardClear
                        \/ ClearClipboardIfOurs \/ CopiedElsewhere
                        \/ ForgetCopies
  <1>1. CASE UNCHANGED vars
    BY <1>1 DEF vars, copies, CopiesStep
  <1>2. CASE Next
    <2>1. CASE ControllerMoves \/ Restart \/ SaveAndContinue \/ UsePassword
      BY <2>1 DEF ControllerMoves, Restart, SaveAndContinue, UsePassword,
         Stays, CopiesStep
    <2>2. CASE Opening
      BY <2>2 DEF Opening, ChangeAccount, OpenSettings, OpenItem, NewItem,
         EditItem, GeneratePassword, EnablePin, Stays, CopiesStep
    <2>3. CASE Filling
      BY <2>3 DEF Filling, TypeSecret, ToggleUsePassword, UpdateTotp, Reveal,
         Stays, CopiesStep
    <2>4. CASE Closing
      BY <2>4 DEF Closing, DeleteItem, GoBack, CopyPassword, Copying, Stays,
         CopiesStep
    <2>5. CASE Aside
      BY <2>5 DEF Aside, SetClipboardClearSeconds, ClipboardTimerFires,
         OtherApplication, CopyField, Copying, CopiesStep
    <2> QED
      BY <1>2, <2>1, <2>2, <2>3, <2>4, <2>5, Steps
  <1> QED
    BY <1>1, <1>2

LEMMA StepKeeps ==
  ASSUME PagesInv, [Next]_vars
  PROVE  PagesInv'
  <1>1. ClipboardTypeOK'
    BY StepCopies, CopiesKeep DEF PagesInv
  <1>2. CASE UNCHANGED <<screen, stack>>
    BY <1>1, <1>2 DEF PagesInv, ScreenTypeOK, StackInv, StackTypeOK, Shape,
       SignInPagesFit, CoveredHoldsNothing, screen
  <1>3. CASE Next
    <2>1. CASE ControllerMoves
      BY <1>1, <2>1, ControllerKeeps DEF PagesInv, ControllerMoves
    <2>2. CASE Restart
      BY <2>2, RestartKeeps
    <2>3. CASE SaveAndContinue
      BY <1>1, <2>3, SaveAndContinueKeeps DEF PagesInv
    <2>4. CASE Opening \/ Filling \/ Closing \/ UsePassword
      <3>1. StackInv'
        BY <2>4, OpeningKeeps, FillingKeeps, ClosingKeeps, UsePasswordKeeps
           DEF PagesInv, Opening, Filling, Closing
      <3>2. UNCHANGED screen
        BY <2>4 DEF Opening, ChangeAccount, OpenSettings, OpenItem, NewItem,
           EditItem, GeneratePassword, EnablePin, Filling, TypeSecret,
           ToggleUsePassword, UpdateTotp, Reveal, Closing, DeleteItem, GoBack,
           CopyPassword, UsePassword, Stays
      <3> QED
        BY <1>1, <3>1, <3>2 DEF PagesInv, ScreenTypeOK, screen
    <2>5. CASE Aside
      <3>1. UNCHANGED <<screen, stack>>
        BY <2>5 DEF Aside, SetClipboardClearSeconds, ClipboardTimerFires,
           OtherApplication, CopyField
      <3> QED
        BY <1>2, <3>1
    <2> QED
      BY <1>3, <2>1, <2>2, <2>3, <2>4, <2>5, Steps
  <1>4. CASE UNCHANGED vars
    <2>1. UNCHANGED <<screen, stack>>
      BY <1>4 DEF vars, screen
    <2> QED
      BY <1>2, <2>1
  <1> QED
    BY <1>3, <1>4

(* The invariant holds in every state the pages reach.                       *)
THEOREM PagesSound == Spec => []PagesInv
  <1> QED
    BY InitKeeps, StepKeeps, PTL DEF Spec

(* The state is one of the five, the stack is never empty and is made of     *)
(* pages (harbour-leyni.qml, pageStack), the copies keep their types.        *)
THEOREM PagesTypeCorrect == Spec => []TypeOK
  <1>1. PagesInv => TypeOK
    BY DEF PagesInv, ScreenTypeOK, StackInv, StackTypeOK, TypeOK
  <1> QED
    BY <1>1, PagesSound, PTL

(* routeState keeps the stack whenever the page on top belongs to the new    *)
(* state; still no page of another account, and no sign-in page behind the   *)
(* vault, can be gone back to - however many pages were pushed before.       *)
THEOREM SignInPagesAlwaysFit == Spec => []SignInPagesFit
  <1>1. PagesInv => SignInPagesFit
    BY DEF PagesInv, StackInv
  <1> QED
    BY <1>1, PagesSound, PTL

(* The onStatusChanged handlers suffice: the pages without one are never     *)
(* filled or never covered, the editor aside.                                *)
THEOREM CoveredPagesHoldNothing == Spec => []CoveredHoldsNothing
  <1>1. PagesInv => CoveredHoldsNothing
    BY DEF PagesInv, StackInv
  <1> QED
    BY <1>1, PagesSound, PTL

(* Whichever way the unlocked state is left - by a lock, a sign-out, an      *)
(* answer, a code asked for or the end of the process - no page keeps a      *)
(* secret but an unlock page come back to.                                   *)
THEOREM LeavingUnlockedClears == Spec => LeavingClears
  <1> DEFINE Clears == state = "unlocked" /\ state' # "unlocked" =>
                         \A i \in DOMAIN stack' :
                           stack'[i].holds # {} => stack'[i].name = "UnlockPage"
  <1>1. ASSUME PagesInv, [Next]_vars
        PROVE  Clears
    <2>1. CASE UNCHANGED screen
      BY <2>1 DEF screen
    <2>2. CASE ControllerMoves
      BY <1>1, <2>2, ControllerKeeps DEF PagesInv, ControllerMoves
    <2>3. CASE Restart
      BY <1>1, <2>3, RestartKeeps
    <2>4. CASE SaveAndContinue
      BY <2>4 DEF SaveAndContinue, Configure
    <2>5. CASE Opening \/ Filling \/ Closing \/ UsePassword \/ Aside
      <3>1. UNCHANGED screen
        BY <2>5 DEF Opening, ChangeAccount, OpenSettings, OpenItem, NewItem,
           EditItem, GeneratePassword, EnablePin, Filling, TypeSecret,
           ToggleUsePassword, UpdateTotp, Reveal, Closing, DeleteItem, GoBack,
           CopyPassword, UsePassword, Stays, Aside, SetClipboardClearSeconds,
           ClipboardTimerFires, OtherApplication, CopyField
      <3> QED
        BY <2>1, <3>1
    <2>6. CASE UNCHANGED vars
      BY <2>6 DEF vars
    <2> HIDE DEF Clears
    <2> QED
      BY <1>1, <2>1, <2>2, <2>3, <2>4, <2>5, <2>6, Steps
  <1>2. PagesInv /\ [Next]_vars => [Clears]_vars
    BY <1>1
  <1> QED
    BY <1>2, PagesSound, PTL DEF Spec, LeavingClears

(* Only copying in Leyni replaces what another application copied: the       *)
(* timer, locking, the settings and a restart leave it.                      *)
THEOREM OtherCopiesStay == Spec => OthersCopiesStay
  <1>1. ASSUME PagesInv, [Next]_vars
        PROVE  ~Copying /\ clipboard \in Foreign => clipboard' \in Foreign
    BY <1>1, StepCopies, ForeignStays DEF PagesInv
  <1>2. PagesInv /\ [Next]_vars
          => [~Copying /\ clipboard \in Foreign => clipboard' \in Foreign]_vars
    BY <1>1
  <1> QED
    BY <1>2, PagesSound, PTL DEF Spec, OthersCopiesStay
=============================================================================
