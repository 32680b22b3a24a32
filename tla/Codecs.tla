-------------------------------- MODULE Codecs --------------------------------
(***************************************************************************)
(* The text encodings of src/crypto: base64 (base64.cpp) and the base32 of  *)
(* authenticator keys (totp.cpp), as functions of byte sequences and of     *)
(* texts, which are sequences of character codes; and what they are to be,  *)
(* said with bits only.                                                     *)
(*                                                                          *)
(* Refused stands for the CryptoError.                                      *)
(***************************************************************************)
EXTENDS Filters, FiniteSets

CONSTANTS
  Refused,
  Word      \* 2^32, the values of the buffer of base32Decode

Equals == 61
Space  == 32

-----------------------------------------------------------------------------
(* base64: the characters, and what they are worth.  0x is out of range.     *)
kAlphabet == [v \in 0 .. 63 |->
  CASE v < 26  -> 65 + v
    [] v \in 26 .. 51 -> 97 + (v - 26)
    [] v \in 52 .. 61 -> 48 + (v - 52)
    [] v = 62 -> 43
    [] v = 63 -> 47]

Invalid == 255
DecodeChar(c) ==
  CASE c \in 65 .. 90  -> c - 65
    [] c \in 97 .. 122 -> (c - 97) + 26
    [] c \in 48 .. 57  -> (c - 48) + 52
    [] c = 43 -> 62
    [] c = 47 -> 63
    [] OTHER -> Invalid

(* Three bytes are four characters; the last one or two bytes are two or      *)
(* three characters and padding.                                             *)
Triple(data, g) ==
  LET byte(k) == IF 3 * g + k \in DOMAIN data THEN data[3 * g + k] ELSE 0
  IN byte(1) * 65536 + byte(2) * 256 + byte(3)

Base64Encode(data) ==
  [k \in 1 .. 4 * ((Len(data) + 2) \div 3) |->
     LET g == (k - 1) \div 4
         p == (k - 1) % 4
     IN IF p > Len(data) - 3 * g THEN Equals
        ELSE kAlphabet[(Triple(data, g) \div 64 ^ (3 - p)) % 64]]

(* Padding counts among the last two characters, each for itself.            *)
PaddingCounted(text) ==   \* mutant of Padding: what ends in "=" ends in one
  IF text[Len(text)] = Equals THEN 1 ELSE 0
Padding(text) ==
  Cardinality({k \in Len(text) - 1 .. Len(text) : text[k] = Equals})

(* A group of four, the number it is worth, and the bytes of that: three,    *)
(* less its padding.                                                         *)
QuadValue(text, g) ==
  LET worth(k) == IF text[4 * g + k] = Equals THEN 0 ELSE DecodeChar(text[4 * g + k])
  IN worth(1) * 262144 + worth(2) * 4096 + worth(3) * 64 + worth(4)
ThreeBytes(v) == << v \div 65536, (v \div 256) % 256, v % 256 >>
Quad(text, g) ==
  LET valid == Cardinality({k \in 1 .. 4 : text[4 * g + k] # Equals})
  IN SubSeq(ThreeBytes(QuadValue(text, g)), 1,
            IF valid = 4 THEN 3 ELSE IF valid = 3 THEN 2 ELSE 1)

Base64Decode(text) ==
  IF \/ Len(text) % 4 # 0
     \/ \E k \in DOMAIN text :
          IF text[k] = Equals THEN k <= Len(text) - Padding(text)
          ELSE DecodeChar(text[k]) = Invalid
  THEN Refused
  ELSE [k \in 1 .. Cardinality({j \in DOMAIN text : j % 4 # 1 /\ text[j] # Equals}) |->
          Quad(text, (k - 1) \div 3)[((k - 1) % 3) + 1]]

-----------------------------------------------------------------------------
(* base32: five bits a character into a 32-bit buffer, out by the byte as     *)
(* soon as there is one; spaces and padding are skipped wherever they are.   *)
Base32Value(c) ==
  CASE c \in 65 .. 90  -> c - 65
    [] c \in 97 .. 122 -> c - 97
    [] c \in 50 .. 55  -> (c - 50) + 26
    [] OTHER -> Invalid
Base32Skipped(c) == c \in {Space, Equals}

TakeCharLate(s, c) ==   \* mutant of TakeChar: waits for more than a byte
  LET buffer == (s.buffer * 32 + Base32Value(c)) % Word
      bits   == s.bits + 5
  IN IF bits > 8
     THEN [buffer |-> buffer, bits |-> bits - 8,
           out |-> Append(s.out, (buffer \div 2 ^ (bits - 8)) % 256)]
     ELSE [buffer |-> buffer, bits |-> bits, out |-> s.out]

TakeChar(s, c) ==
  LET buffer == (s.buffer * 32 + Base32Value(c)) % Word
      bits   == s.bits + 5
  IN IF bits >= 8
     THEN [buffer |-> buffer, bits |-> bits - 8,
           out |-> Append(s.out, (buffer \div 2 ^ (bits - 8)) % 256)]
     ELSE [buffer |-> buffer, bits |-> bits, out |-> s.out]

Base32Chars(text) ==
  Filtered(text, {text[k] : k \in {j \in DOMAIN text : ~Base32Skipped(text[j])}})

Base32Decode(text) ==
  IF \E k \in DOMAIN text : ~Base32Skipped(text[k]) /\ Base32Value(text[k]) = Invalid
  THEN Refused
  ELSE LET chars == Base32Chars(text)
           after[k \in 0 .. Len(chars)] ==
             IF k = 0 THEN [buffer |-> 0, bits |-> 0, out |-> << >>]
             ELSE TakeChar(after[k - 1], chars[k])
       IN after[Len(chars)].out

-----------------------------------------------------------------------------
(* The reference: the number that digits say; s, a sequence of w-bit          *)
(* numbers, read as one row of bits, and n numbers of v bits taken from it;  *)
(* what the row lacks is 0.                                                  *)
Joined(base, digits) ==
  LET number[k \in 0 .. Len(digits)] ==
        IF k = 0 THEN 0 ELSE base * number[k - 1] + digits[k]
  IN number[Len(digits)]
Bit(s, w, k) ==
  IF k >= w * Len(s) THEN 0
  ELSE (s[(k \div w) + 1] \div 2 ^ ((w - 1) - (k % w))) % 2
Regrouped(s, w, v, n) ==
  [g \in 1 .. n |-> Joined(2, [k \in 1 .. v |-> Bit(s, w, v * (g - 1) + (k - 1))])]

(* base64Encode writes the RFC's text, and base64Decode reads it back.       *)
Base64Writes(data) ==
  LET text   == Base64Encode(data)
      values == Regrouped(data, 8, 6, (8 * Len(data) + 5) \div 6)
  IN /\ Len(text) % 4 = 0
     /\ text = [k \in DOMAIN text |->
                  IF k \in DOMAIN values THEN kAlphabet[values[k]] ELSE Equals]
     /\ Base64Decode(text) = data

(* base64Decode takes four characters at a time, only the last two of the    *)
(* text being "=" instead, the last or both; then the bytes are the bits of  *)
(* the others.  Unused bits of the last of them may be set, which the RFC    *)
(* leaves open: the text read is one of those that encode the bytes.         *)
Base64Reads(text) ==
  LET unpadded == {n \in Nat \cap (Len(text) - 2 .. Len(text)) :
                     /\ \A k \in 1 .. n : \E v \in 0 .. 63 : text[k] = kAlphabet[v]
                     /\ \A k \in n + 1 .. Len(text) : text[k] = Equals}
      n == CHOOSE n \in unpadded : TRUE
      values == [k \in 1 .. n |-> CHOOSE v \in 0 .. 63 : kAlphabet[v] = text[k]]
  IN Base64Decode(text) =
       IF Len(text) % 4 # 0 \/ unpadded = {} THEN Refused
       ELSE Regrouped(values, 6, 8, (6 * n) \div 8)

(* base32Decode gives the whole bytes of the row of bits, though its buffer   *)
(* overflows on every key of more than six characters.                       *)
Base32Reads(text) ==
  LET kept == Base32Chars(text)
      letters == [v \in 0 .. 31 |-> IF v < 26 THEN {65 + v, 97 + v} ELSE {24 + v}]
      value(c) == CHOOSE v \in 0 .. 31 : c \in letters[v]
      readable == \A k \in DOMAIN kept : \E v \in 0 .. 31 : kept[k] \in letters[v]
  IN Base32Decode(text) =
       IF ~readable THEN Refused
       ELSE Regrouped([k \in DOMAIN kept |-> value(kept[k])], 5, 8,
                      (5 * Len(kept)) \div 8)
=============================================================================
