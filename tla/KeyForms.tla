------------------------------- MODULE KeyForms -------------------------------
(***************************************************************************)
(* Numbers and texts that reach the key derivation and the decryption from  *)
(* outside: the KDF parameters of a prelogin answer (apijson.cpp), kept in  *)
(* the settings (appcontroller.cpp) and bounded where they are used          *)
(* (kdf.cpp); the EncString every secret is stored as (encstring.cpp); the  *)
(* file that holds the PIN-wrapped key (pinwrap.cpp).                       *)
(*                                                                          *)
(* A byte string is its length here, and base64 text the length of what it  *)
(* decodes to or Refused (module Codecs has the encoding itself).  A        *)
(* decimal number is the sequence of its digits, NoDigit being any other    *)
(* character.                                                               *)
(***************************************************************************)
EXTENDS Integers, Sequences

CONSTANTS
  Refused,
  UIntSize,        \* 2^32
  MaxPbkdf2Iterations, MaxArgon2Iterations, MaxArgon2MemoryMiB,
  MaxArgon2Parallelism,
  PinParams,       \* PinWrapParams
  NoInt,           \* a JSON value that is no integer
  NoDigit

Unsigned(n) == n % UIntSize

-----------------------------------------------------------------------------
(* parsePreloginResponse: what is no integer is -1 or 0, what is negative     *)
(* wraps around.  storeKdfParams and storedKdfParams keep all four numbers.  *)
ToInt(value, default) == IF value = NoInt THEN default ELSE value

ParsePrelogin(answer) ==
  IF ToInt(answer.kdf, -1) \notin {0, 1} THEN Refused
  ELSE [type |-> ToInt(answer.kdf, -1),
        iterations  |-> Unsigned(ToInt(answer.kdfIterations, 0)),
        memoryMiB   |-> Unsigned(ToInt(answer.kdfMemory, 0)),
        parallelism |-> Unsigned(ToInt(answer.kdfParallelism, 0))]

(* The sanity bounds, on what the library is asked for.                      *)
Pbkdf2Sha256(iterations) ==
  IF iterations = 0 \/ iterations > MaxPbkdf2Iterations THEN Refused
  ELSE [iterations |-> iterations]

Argon2idUpper(iterations, memoryMiB, parallelism) ==  \* mutant: no lower bounds
  IF \/ iterations > MaxArgon2Iterations
     \/ memoryMiB > MaxArgon2MemoryMiB
     \/ parallelism > MaxArgon2Parallelism
  THEN Refused
  ELSE [iterations |-> iterations, memoryKiB |-> Unsigned(memoryMiB * 1024),
        parallelism |-> parallelism]
Argon2id(iterations, memoryMiB, parallelism) ==
  IF \/ iterations = 0 \/ iterations > MaxArgon2Iterations
     \/ memoryMiB = 0 \/ memoryMiB > MaxArgon2MemoryMiB
     \/ parallelism = 0 \/ parallelism > MaxArgon2Parallelism
  THEN Refused
  ELSE [iterations |-> iterations, memoryKiB |-> Unsigned(memoryMiB * 1024),
        parallelism |-> parallelism]

DeriveMasterKey(password, email, params) ==
  CASE password = 0 \/ email = 0 -> Refused
    [] params.type = 0 -> Pbkdf2Sha256(params.iterations)
    [] params.type = 1 ->
         Argon2id(params.iterations, params.memoryMiB, params.parallelism)
    [] OTHER -> Refused

-----------------------------------------------------------------------------
(* EncString: "<type>.<part>|<part>...".                                     *)
Number(digits) ==
  LET value[k \in 0 .. Len(digits)] ==
        IF k = 0 THEN 0 ELSE value[k - 1] * 10 + digits[k]
  IN value[Len(digits)]

Numeric(digits) == \A k \in DOMAIN digits : digits[k] # NoDigit

ParseType2(parts) ==
  IF \/ Len(parts) # 3 \/ \E k \in DOMAIN parts : parts[k] = Refused
     \/ parts[1] # 16 \/ parts[3] # 32
     \/ parts[2] = 0 \/ parts[2] % 16 # 0
  THEN Refused
  ELSE [type |-> 2, iv |-> parts[1], ciphertext |-> parts[2], mac |-> parts[3]]

ParseType4(parts) ==
  IF Len(parts) # 1 \/ parts[1] = Refused \/ parts[1] = 0 THEN Refused
  ELSE [type |-> 4, iv |-> 0, ciphertext |-> parts[1], mac |-> 0]

ParseEncString(text) ==
  IF text.type = << >> \/ ~Numeric(text.type) \/ Len(text.type) > 2 THEN Refused
  ELSE CASE Number(text.type) = 2 -> ParseType2(text.parts)
         [] Number(text.type) = 4 -> ParseType4(text.parts)
         [] OTHER -> Refused

Serialize(enc) ==
  IF enc.type # 2 THEN Refused
  ELSE [type |-> << 2 >>, parts |-> << enc.iv, enc.ciphertext, enc.mac >>]

(* AES-CBC pads to whole blocks, always by one byte at least; the MAC is      *)
(* compared over the 32 bytes of the one expected.                           *)
Encrypt(plain) ==
  [type |-> 2, iv |-> 16, ciphertext |-> 16 * ((plain \div 16) + 1), mac |-> 32]
CanDecrypt(enc) ==
  enc.type = 2 /\ enc.mac >= 32 /\ enc.iv >= 16 /\ enc.ciphertext % 16 = 0

-----------------------------------------------------------------------------
(* PinWrappedKey: six fields; a ":" more is part of the EncString, which      *)
(* takes none.                                                               *)
kTag == "BWPIN1"
kSaltLen == 16

ParseUint(s) ==
  IF s = << >> \/ Len(s) > 9 \/ ~Numeric(s) THEN Refused
  ELSE Unsigned(Number(s))

Decimal(n) ==
  LET length == CHOOSE d \in 1 .. 10 : /\ d = 1 \/ 10 ^ (d - 1) <= n
                                       /\ d = 10 \/ n < 10 ^ d
  IN [k \in 1 .. length |-> (n \div 10 ^ (length - k)) % 10]

SerializePin(wrapped) ==
  << kTag, Decimal(wrapped.params.iterations), Decimal(wrapped.params.memoryMiB),
     Decimal(wrapped.params.parallelism), wrapped.salt, wrapped.encString >>

ParsePin(text) ==
  IF Len(text) # 6 \/ text[1] # kTag THEN Refused
  ELSE LET numbers == [k \in 1 .. 3 |-> ParseUint(text[k + 1])] IN
       IF \/ \E k \in 1 .. 3 : numbers[k] = Refused
          \/ text[5] # kSaltLen \/ ParseEncString(text[6]) = Refused
       THEN Refused
       ELSE [params |-> [iterations |-> numbers[1], memoryMiB |-> numbers[2],
                         parallelism |-> numbers[3]],
             salt |-> text[5], encString |-> text[6]]

WrapWithPin(secret) ==
  [params |-> PinParams, salt |-> kSaltLen, encString |-> Serialize(Encrypt(secret))]

(* What the decryption is then given, or Refused before it.                  *)
UnwrapWithPin(wrapped) ==
  LET kek == Argon2id(wrapped.params.iterations, wrapped.params.memoryMiB,
                      wrapped.params.parallelism)
      enc == ParseEncString(wrapped.encString)
  IN IF kek = Refused \/ enc = Refused THEN Refused
     ELSE IF enc.type # 2 THEN Refused ELSE [kek |-> kek, enc |-> enc]

-----------------------------------------------------------------------------
(* "Sanity bounds on server-supplied KDF parameters" (kdf.h:33): whatever     *)
(* integers an answer has, the library is asked for one to the bound of each *)
(* number, exactly as answered, or for nothing; the memory in KiB has not    *)
(* wrapped around.                                                           *)
WithinBounds(argon) ==
  /\ argon.iterations \in 1 .. MaxArgon2Iterations
  /\ argon.memoryKiB \div 1024 \in 1 .. MaxArgon2MemoryMiB
  /\ argon.memoryKiB % 1024 = 0
  /\ argon.parallelism \in 1 .. MaxArgon2Parallelism

DerivationBounded(answer) ==
  LET params  == ParsePrelogin(answer)
      derived == DeriveMasterKey(1, 1, params)
  IN params # Refused /\ derived # Refused =>
       /\ derived.iterations = answer.kdfIterations
       /\ IF params.type = 0 THEN derived.iterations \in 1 .. MaxPbkdf2Iterations
          ELSE /\ WithinBounds(derived)
               /\ derived.memoryKiB = 1024 * answer.kdfMemory
               /\ derived.parallelism = answer.kdfParallelism

(* A PIN file that parses holds the numbers that were written, and what is   *)
(* unwrapped from it is what the decryption takes; what wrapWithPin makes of *)
(* a secret of any length goes through the file unchanged.                   *)
PinFileRead(text) ==
  LET wrapped == ParsePin(text) IN
  wrapped # Refused =>
    /\ wrapped.params.iterations = Number(text[2])
    /\ wrapped.params.memoryMiB = Number(text[3])
    /\ wrapped.params.parallelism = Number(text[4])
    /\ UnwrapWithPin(wrapped) # Refused =>
         /\ WithinBounds(UnwrapWithPin(wrapped).kek)
         /\ CanDecrypt(UnwrapWithPin(wrapped).enc)
PinFileKept(secret) ==
  LET wrapped == WrapWithPin(secret) IN
  /\ ParsePin(SerializePin(wrapped)) = wrapped
  /\ UnwrapWithPin(wrapped).enc = Encrypt(secret)
=============================================================================
