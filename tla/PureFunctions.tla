----------------------------- MODULE PureFunctions -----------------------------
(***************************************************************************)
(* What the program computes without waiting for anybody: the password      *)
(* generator in its dialog, step by step, and every other function of the   *)
(* modules below over a set of inputs, one input a behaviour.                *)
(***************************************************************************)
EXTENDS PasswordGen

CONSTANTS
  Null, Refused, NoDigit, NoInt, NoNumber, NoText,
  UserKey, OrgKeys,
  UIntSize, MaxPbkdf2Iterations, MaxArgon2Iterations, MaxArgon2MemoryMiB,
  MaxArgon2Parallelism, PinParams,
  Word, IntSize, Hmac(_, _, _), HttpText(_),
  Inputs   \* for each kind of function, what it is given

VARIABLE input

Codes  == INSTANCE OneTimeCodes
Bodies == INSTANCE ItemBodies
Forms  == INSTANCE KeyForms
Tokens == INSTANCE TokenAnswers WITH NoInt <- NoNumber

Password == [kind |-> "password"]
Kinds == {"index", "order", "bytes", "base64", "base32", "code", "hotp", "update",
          "create", "prelogin", "token", "pinFile", "secret"}
ASSUME KindAssumption ==
  DOMAIN Inputs = Kinds /\ \A kind \in Kinds : \A i \in Inputs[kind] : i.kind = kind

-----------------------------------------------------------------------------
(* randomIndex draws among at least one of the word's values, and a password  *)
(* has at least one character.                                               *)
ASSUME RandomAssumption ==
  /\ \A i \in Inputs.index : i.of \in Nat \ {0} /\ i.bound \in 1 .. i.of
  /\ \A i \in Inputs.order : i.of \in Nat \ {0}

(* What the functions can be given.  A JSON integer is that of QJsonValue's   *)
(* toInt; the bounds of the derivation leave room for the casts around them. *)
ASSUME BoundsAssumption ==
  /\ UIntSize \in Nat \ {0} /\ NoInt \notin Int
  /\ {MaxPbkdf2Iterations, MaxArgon2Iterations, MaxArgon2MemoryMiB,
      MaxArgon2Parallelism} \subseteq Nat
  /\ \A max \in {MaxPbkdf2Iterations, MaxArgon2Iterations, 1024 * MaxArgon2MemoryMiB,
                 MaxArgon2Parallelism} : 2 * max < UIntSize
Integer(n) == n = NoInt \/ (n \in Int /\ -UIntSize <= 2 * n /\ 2 * n < UIntSize)

ASSUME PreloginAssumption ==
  \A i \in Inputs.prelogin :
    /\ Integer(i.of.kdf) /\ Integer(i.of.kdfIterations)
    /\ Integer(i.of.kdfMemory) /\ Integer(i.of.kdfParallelism)

(* A list of second factors holds numbers, texts, and neither; ids are from   *)
(* 0 on; an error has a status to be told.                                   *)
Entry == [kind : STRING, value : Nat \cup {NoNumber}]
IsEntry(e) == e \in Entry /\ (e.kind \notin {"number", "string"} => e.value = NoNumber)

ASSUME TokenAssumption ==
  /\ NoNumber \notin Nat
  /\ NoText # "token: missing access_token"
  /\ \A i \in Inputs.token :
       /\ HttpText(i.status) # NoText
       /\ Tokens!Challenge(i.of) =>
            LET entries == i.of["twoFactorProviders"] IN
            entries \in Seq(Entry) /\ \A k \in DOMAIN entries : IsEntry(entries[k])

(* Parameters of a secret; the time is in seconds.                           *)
ASSUME CodeAssumption ==
  /\ IntSize \in Nat \ {0}
  /\ \A i \in Inputs.code :
       /\ i.at \in Nat /\ i.of.scheme \in {"steam", "plain", "otpauth"}
       /\ i.of.scheme = "otpauth" =>
            /\ Len(i.of.query) \in Nat
            /\ \A k \in 1 .. Len(i.of.query) :
                 i.of.query[k].key = "period" => i.of.query[k].value \in Int

(* Bytes and characters; a buffer of twelve bits at least, and a MAC that     *)
(* reaches four bytes beyond any place its last byte can name.               *)
ASSUME TextAssumption ==
  /\ Word \in Nat \ {0} /\ Word % 4096 = 0
  /\ \A i \in Inputs.bytes : i.of \in Seq(0 .. 255)
  /\ \A i \in Inputs.base64 \cup Inputs.base32 : i.of \in Seq(Nat)
  /\ \A i \in Inputs.hotp :
       LET mac == Hmac(i.algorithm, << 1 >>, i.of) IN
       i.at \in 6 .. 10 /\ mac \in Seq(0 .. 255) /\ Len(mac) >= 20

(* The PIN file: numbers of nine digits fit, the program's own among them;    *)
(* what is refused is none of the results.                                   *)
NineDigits == {n \in Nat \ {0} : n < 10 ^ 9}
ASSUME PinAssumption ==
  /\ 10 ^ 9 <= UIntSize
  /\ PinParams \in [iterations : NineDigits \cap 1 .. MaxArgon2Iterations,
                    memoryMiB : NineDigits \cap 1 .. MaxArgon2MemoryMiB,
                    parallelism : NineDigits \cap 1 .. MaxArgon2Parallelism]
  /\ Refused \notin Nat \cup [type : Nat, iv : Nat, ciphertext : Nat, mac : Nat]
                       \cup [iterations : Nat, memoryKiB : Nat, parallelism : Nat]
  /\ NoDigit \notin 0 .. 9
  /\ \A i \in Inputs.pinFile :
       Len(i.of) = 6 => \A k \in 2 .. 4 : i.of[k] \in Seq((0 .. 9) \cup {NoDigit})
  /\ \A i \in Inputs.secret : i.of \in Nat

(* Fields as the editor leaves them; an item the server lists, in which the    *)
(* key the client adds to it is none of its own.                             *)
IsSequence(s) == Len(s) \in Nat /\ s = [k \in 1 .. Len(s) |-> s[k]]
ASSUME BodyAssumption ==
  /\ UserKey # Refused /\ Null # "new"
  /\ \A kind \in {"create", "update"} : \A i \in Inputs[kind] :
       i.fields.favorite \in BOOLEAN /\ i.fields.folderId # Null
  /\ \A i \in Inputs.update :
       LET login == Bodies!ValueOf(i.of, "login")
           uris  == Bodies!ValueOf(login, "uris")
       IN /\ "lastKnownRevisionDate" \notin DOMAIN i.of
          /\ Bodies!ValueOf(i.of, "type") = Bodies!Login /\ login # Null /\ uris # Null =>
               IsSequence(uris)

-----------------------------------------------------------------------------
(* randomIndex and the shuffle, for the words, bounds and lengths given: each *)
(* index from as many words, each order from one row of choices.             *)
RandomnessFair ==
  /\ input.kind = "index" => UniformIndex(input.of, input.bound)
  /\ input.kind = "order" => FairShuffle(input.of)

(* base64, base32, the PIN file and the digits of a code say what the formats *)
(* say, whatever bytes and texts they are given.                             *)
EncodingsExact ==
  CASE input.kind = "bytes"    -> Codes!Base64Writes(input.of)
    [] input.kind = "base64"   -> Codes!Base64Reads(input.of)
    [] input.kind = "base32"   -> Codes!Base32Reads(input.of)
    [] input.kind = "pinFile"  -> Forms!PinFileRead(input.of)
    [] input.kind = "secret"   -> Forms!PinFileKept(input.of)
    [] input.kind = "hotp"     -> Codes!CodeIsRfc(<< 1 >>, input.of, input.at, input.algorithm)
    [] OTHER -> TRUE

(* A server's KDF parameters are used as answered or not at all, and any      *)
(* demand for a second factor it can make is one the user can meet.          *)
AnswersRead ==
  /\ input.kind = "prelogin" => Forms!DerivationBounded(input.of)
  /\ input.kind = "token" => Tokens!ChallengeMet(input.status, input.of)

(* A code and the seconds left of it change together, second by second.      *)
CodesCountDown == input.kind = "code" => Codes!Countdown(input.of, input.at)

(* What the editor saves is read back as typed, and the rest of the item is   *)
(* what it was.                                                              *)
BodiesReadBack ==
  /\ input.kind = "update" => Bodies!EditReadsBack(input.of, input.fields)
  /\ input.kind = "create" => Bodies!CreateReadsBack(input.of, input.fields)

-----------------------------------------------------------------------------
FunctionsInit ==
  Init /\ (input = Password \/ \E kind \in Kinds : input \in Inputs[kind])
FunctionsNext == input = Password /\ Next /\ UNCHANGED input
FunctionsSpec == FunctionsInit /\ [][FunctionsNext]_<<vars, input>>
=============================================================================
