----------------------------- MODULE TokenAnswers -----------------------------
(***************************************************************************)
(* What the identity server answers to a login, read by apijson.cpp: the    *)
(* tokens, a demand for a second factor, or an error; what startLogin makes *)
(* of it; and the second factor as TwoFactorPage asks for it and the next   *)
(* request carries it.                                                      *)
(*                                                                          *)
(* A body is a function from the keys it has; texts are members of a small  *)
(* set.  An entry of a list is a JSON number or string, or neither; a text  *)
(* or a number that is no integer has the value NoInt.                      *)
(***************************************************************************)
EXTENDS Filters

CONSTANTS
  NoInt,
  NoText,       \* the empty string, as well as a key that is missing
  HttpText(_)   \* "HTTP %1"

Text(body, k) == IF k \in DOMAIN body THEN body[k] ELSE NoText

-----------------------------------------------------------------------------
(* parseTokenResponse; and parseTokenError.  Of a list of second factors the  *)
(* numbers and the strings that read as one count: a number from 0 on, a     *)
(* string whatever it is.                                                    *)
ParsesAsToken(body) == Text(body, "access_token") # NoText

CountsNumbers(entry) == entry.kind = "number" /\ entry.value >= 0  \* mutant of Counts
Counts(entry) ==
  CASE entry.kind = "number" -> entry.value # NoInt /\ entry.value >= 0
    [] entry.kind = "string" -> entry.value # NoInt
    [] OTHER -> FALSE

Challenge(body) == "twoFactorProviders" \in DOMAIN body
Providers(body) ==
  LET entries == body["twoFactorProviders"]
      counted == Filtered(entries, {entries[k] : k \in {j \in DOMAIN entries :
                                                         Counts(entries[j])}})
  IN [k \in DOMAIN counted |-> counted[k].value]

(* The message: of the error model, else of the description, else of the      *)
(* error, else the status.                                                   *)
Or(text, other) == IF text # NoText THEN text ELSE other
Message(status, body) ==
  Or(Text(body, "errorModel"),
     Or(Text(body, "error_description"), Or(Text(body, "error"), HttpText(status))))

-----------------------------------------------------------------------------
(* startLogin: the tokens, the page for the second factor, or the error.      *)
LoginOutcome(status, body) ==
  CASE status = 200 /\ ParsesAsToken(body) -> [state |-> "syncing"]
    [] status = 200 /\ ~ParsesAsToken(body) ->
         [state |-> "login", error |-> "token: missing access_token"]
    [] status # 200 /\ Challenge(body) ->
         [state |-> "twofactor", providers |-> Providers(body)]
    [] OTHER -> [state |-> "login", error |-> Message(status, body)]

(* TwoFactorPage: the authenticator whenever it is offered, else the first;   *)
(* any of them from the combo box, which is there for two and more.          *)
Authenticator == 0
Default(providers) ==
  IF providers = << >> \/ \E k \in DOMAIN providers : providers[k] = Authenticator
  THEN Authenticator ELSE providers[1]
Selectable(providers) ==
  {Default(providers)} \cup
    IF Len(providers) > 1 THEN {providers[k] : k \in DOMAIN providers} ELSE {}

(* buildPasswordTokenBody, from submitTwoFactor: what the request carries.    *)
TwoFactorFields(provider, code) ==
  IF provider >= 0 THEN [twoFactorProvider |-> provider, twoFactorToken |-> code]
  ELSE << >>

-----------------------------------------------------------------------------
(* "Servers emit these as numbers or as strings; accept both"                 *)
(* (apijson.cpp:208): from a demand that names a second factor in either     *)
(* form, each on its own or with entries that are neither, the page is shown *)
(* and whatever is selected there is one of those named and goes out with    *)
(* the code; and a login that ends without tokens or page says why.  Ids of  *)
(* factors are not negative.                                                 *)
Named(body) ==
  {entry.value : entry \in {body["twoFactorProviders"][k] :
     k \in DOMAIN body["twoFactorProviders"]}} \cap Nat

ChallengeMet(status, body) ==
  LET outcome == LoginOutcome(status, body) IN
  /\ status # 200 /\ Challenge(body) =>
       /\ outcome.state = "twofactor"
       /\ Named(body) # {} =>
            \A p \in Selectable(outcome.providers) :
              /\ p \in Named(body)
              /\ TwoFactorFields(p, "code")
                   = [twoFactorProvider |-> p, twoFactorToken |-> "code"]
  /\ outcome.state = "login" => outcome.error # NoText
=============================================================================
