------------------------------ MODULE MCFunctions ------------------------------
(***************************************************************************)
(* Inputs for PureFunctions, one kind after the other, and the constants it *)
(* is given.                                                                *)
(***************************************************************************)
EXTENDS PureFunctions, TLC

CONSTANTS OrgKey, ItemKey

(* The generator: five places for four classes, two of them digits, so that  *)
(* one position of the slider is refused while all classes are on.           *)
MCAlphabet ==
  [lowercase |-> {"a", "l"}, uppercase |-> {"B"}, digits |-> {"2", "0"},
   symbols |-> {"!"}]
MCAmbiguous == {"l", "0"}
MCMinimum == [digits |-> 2, symbols |-> 0]

SeqsUpTo(S, n) == UNION {[1 .. k -> S] : k \in 0 .. n}

-----------------------------------------------------------------------------
(* Codecs and codes: bytes at the ends of their ranges; texts of the first    *)
(* and last letters, padding, a space, and what is in no alphabet.           *)
Mac(algorithm, key, counter) ==
  LET length == [SHA1 |-> 20, SHA256 |-> 32, SHA512 |-> 64] IN
  [k \in 1 .. length[algorithm] |-> (k * 37 + counter * 101 + Len(key) * 13) % 256]

Bytes == SeqsUpTo({0, 1, 127, 128, 255}, 4) \cup {<< 1, 2, 3, 4, 5 >>}
Base64Texts == SeqsUpTo({65, 81, 47, 61, 33}, 5) \cup [1 .. 8 -> {65, 47, 61}]
Base32Texts == SeqsUpTo({65, 122, 55, 61, 32, 49}, 4) \cup [1 .. 8 -> {65, 55, 32}]

Period == [key : {"period"}, value : {-3, 0, 1, 5, 30, 63}]
Algorithm == [key : {"algorithm"}, value : {"SHA1", "SHA256", "MD5"}]
Secrets ==
  {[scheme |-> "steam"], [scheme |-> "plain", secret |-> << 65, 55, 66 >>],
   [scheme |-> "plain", secret |-> << >>]}
URIs == {[scheme |-> "otpauth", query |-> << s, p, d >>] :
           s \in {[key |-> "secret", value |-> v] : v \in {<< 65, 55 >>, << 49 >>, << >>}},
           p \in Period,
           d \in {[key |-> "digits", value |-> n] : n \in {5, 6, 9, 10, 11}}}
   \cup {[scheme |-> "otpauth", query |-> << p, a, [key |-> "secret", value |-> << 65, 55 >>], q >>] :
           p \in Period, q \in Period, a \in Algorithm}

-----------------------------------------------------------------------------
(* Items in both spellings, with and without a key of their own or of an     *)
(* organization, with no, one and two URIs, the first of them perhaps empty. *)
MCOrgKeys == [org |-> OrgKey]

Spelled(obj, camel) ==
  IF camel THEN obj
  ELSE [k \in {Bodies!Pascal[key] : key \in DOMAIN obj} |->
          obj[CHOOSE key \in DOMAIN obj : Bodies!Pascal[key] = k]]

Ciphertext(text, org, own) ==
  [opensWith |-> IF own THEN ItemKey ELSE IF org = "" THEN UserKey ELSE OrgKey,
   text |-> text]

RawLogin(camel, uris, text) ==
  [fido2 |-> "kept"]
    @@ Spelled([username |-> text, password |-> Null, totp |-> text,
                uris |-> IF uris = << >> THEN Null
                         ELSE [k \in DOMAIN uris |-> [match |-> 0]
                                 @@ Spelled([uri |-> IF uris[k] = "" THEN Null
                                                     ELSE text], camel)]],
               camel)

Raw(camel, type, org, own, uris, some, rev) ==
  LET text == Ciphertext("old", org, own)
  IN [reprompt |-> 1, object |-> "cipher"]
       @@ Spelled([id |-> "one", type |-> type, name |-> text,
                   notes |-> IF some THEN text ELSE Null, favorite |-> some,
                   folderId |-> IF some THEN "folder" ELSE Null,
                   organizationId |-> IF org = "" THEN Null ELSE org,
                   key |-> IF own
                           THEN [opensWith |-> IF org = "" THEN UserKey ELSE OrgKey,
                                 text |-> ItemKey]
                           ELSE Null,
                   revisionDate |-> IF rev THEN "earlier" ELSE Null,
                   login |-> IF type # 1 THEN Null ELSE RawLogin(camel, uris, text)],
                  camel)

Uris == {<< >>, << "u" >>, << "", "u" >>, << "u", "v" >>, << "" >>}
Fields ==
  {[name |-> n, notes |-> s, favorite |-> f, folderId |-> IF f THEN "other" ELSE "",
    username |-> s, password |-> p, totp |-> p, uri |-> u] :
     n \in {"", "new"}, s \in {"", "new"}, p \in {"", "new"}, u \in {"", "new"},
     f \in BOOLEAN}

MCHttpText(status) == "HTTP 400"

-----------------------------------------------------------------------------
(* Numbers at, within and beyond each bound, negative and missing; files of  *)
(* five to seven fields with the numbers of nine and ten digits.             *)
MCPinParams == [iterations |-> 8, memoryMiB |-> 64, parallelism |-> 4]

Answers ==
  [kdf : {NoInt, 0, 1, 2},
   kdfIterations : {NoInt, -1, 0, 1, 100, 101, 10000000, 10000001},
   kdfMemory : {NoInt, -1, 0, 1, 1024, 1025},
   kdfParallelism : {NoInt, -5, 0, 1, 16, 17}]

Numerals == {<< >>, << 0 >>, << 8 >>, << 0, 4 >>, << 6, 4 >>, << 1, NoDigit >>,
             << 9, 9, 9, 9, 9, 9, 9, 9, 9 >>, << 1, 0, 0, 0, 0, 0, 0, 0, 0, 0 >>}
EncTexts ==
  {[type |-> t, parts |-> p] :
     t \in {<< >>, << 2 >>, << 0, 2 >>, << 4 >>, << 3 >>, << 0, 0, 2 >>, << NoDigit >>},
     p \in {<< 16, 48, 32 >>, << 16, 0, 32 >>, << 16, 48, 31 >>, << 12, 48, 32 >>,
            << 16, 40, 32 >>, << 48 >>, << Refused >>, << 16, Refused, 32 >>}}
PinFiles ==
  {<< "BWPIN1", i, m, p, 16, e >> : i \in Numerals, m \in Numerals, p \in Numerals,
     e \in {[type |-> << 2 >>, parts |-> << 16, 48, 32 >>]}}
  \cup {<< tag, << 8 >>, << 6, 4 >>, << 4 >>, salt, e >> :
          tag \in {"BWPIN1", "BWPIN2"}, salt \in {16, 15, Refused}, e \in EncTexts}

(* Lists of up to three factors, as numbers, texts and neither.              *)
MCNoNumber == -1

Factors == SeqsUpTo({[kind |-> k, value |-> n] : k \in {"number", "string"}, n \in {0, 1, 7}}
                      \cup {[kind |-> "string", value |-> -1], [kind |-> "number", value |-> -1],
                            [kind |-> "null", value |-> -1]}, 3)
Errors ==
  {[error |-> "invalid_grant"] @@ ("errorModel" :> m) @@ ("error_description" :> d) :
     m \in {"", "new device"}, d \in {"", "wrong"}} \cup {<< >>}
TokenBodies ==
  Errors \cup {e @@ ("twoFactorProviders" :> f) : e \in Errors, f \in Factors}
    \cup {"access_token" :> t : t \in {"", "token"}}

-----------------------------------------------------------------------------
(* Words of 8 and 32 values for random32, all bounds; orders of five.        *)
Of(kind, values) == {[kind |-> kind, of |-> x] : x \in values}

MCInputs ==
  [index |-> UNION {{[kind |-> "index", of |-> w, bound |-> n] : n \in 1 .. w} :
                      w \in {8, 32}},
   order |-> Of("order", 1 .. 5),
   bytes |-> Of("bytes", Bytes), base64 |-> Of("base64", Base64Texts),
   base32 |-> Of("base32", Base32Texts),
   code |-> {[kind |-> "code", of |-> x, at |-> t] : x \in Secrets, t \in 0 .. 31}
              \cup {[kind |-> "code", of |-> x, at |-> t] :
                      x \in URIs, t \in {0, 4, 28, 29, 30, 59, 62}},
   hotp |-> {[kind |-> "hotp", of |-> c, at |-> d, algorithm |-> a] :
               c \in 0 .. 40, d \in 6 .. 10, a \in {"SHA1", "SHA256", "SHA512"}},
   update |-> {[kind |-> "update", fields |-> fields,
                of |-> Raw(camel, type, org, own, uris, some, rev)] :
                 camel \in BOOLEAN, own \in BOOLEAN, some \in BOOLEAN, rev \in BOOLEAN,
                 type \in {1, 2}, org \in {"", "org", "left"}, uris \in Uris,
                 fields \in Fields},
   create |-> {[kind |-> "create", fields |-> fields, of |-> type] :
                 type \in 1 .. 3, fields \in Fields},
   prelogin |-> Of("prelogin", Answers),
   token |-> {[kind |-> "token", of |-> x, status |-> s] :
                x \in TokenBodies, s \in {200, 400}},
   pinFile |-> Of("pinFile", PinFiles), secret |-> Of("secret", {0, 1, 15, 16, 17, 32, 64})]
=============================================================================
