---------------------------- MODULE FunctionProofs ----------------------------
(***************************************************************************)
(* What the pure functions do, for every input and value of the constants.  *)
(* The generator: what the dialog shows is a password of the kind asked     *)
(* for, the options it keeps are good for one, and its draws are uniform.   *)
(* Encodings: base64, base32, the PIN file and a code's digits say what      *)
(* their formats say, of texts of any length.                                *)
(* Answers: parameters reach a derivation within bounds or not at all, and  *)
(* a demand for a second factor can be met.  Codes count down.  Items are   *)
(* read back as they were edited.                                           *)
(*                                                                          *)
(* Loops are recursive functions; that they run, and what holds of each     *)
(* round, is shown by induction from the library's well-founded order of    *)
(* the numbers (LoopRuns, CountingTo).                                      *)
(***************************************************************************)
EXTENDS PureFunctions, Filters, FiniteSetTheorems, FunctionTheorems, SequenceTheorems,
        WellFoundedInduction, TLAPS

(* Characters of a class, often enough, wherever they stand.                 *)
Rich(s, o) ==
  /\ \A k \in DOMAIN s : s[k] \in AnyPool(o)
  /\ \A c \in Classes : Cardinality(From(s, Pool(o, c))) >= Required(o, c)

(* While characters are picked each is from the pool of its place; from then *)
(* on only their number in each class is known.                              *)
Picked ==
  phase = "picking" =>
    /\ Accepted(shown) /\ Len(chars) < shown.length
    /\ \A k \in DOMAIN chars : chars[k] \in PlacePool(shown, k)

Complete == Accepted(shown) /\ Len(chars) = shown.length /\ Rich(chars, shown)

Shuffling == phase = "shuffling" => Complete /\ at \in 1 .. Len(chars)
Shown     == phase = "shown" /\ chars # << >> => Complete

GenInv == TypeOK /\ Accepted(stored) /\ Picked /\ Shuffling /\ Shown

-----------------------------------------------------------------------------
(* Places and pools.                                                         *)
LEMMA PoolsAreCharacters ==
  ASSUME NEW o
  PROVE  /\ \A c \in Classes : Pool(o, c) \subseteq AnyPool(o)
         /\ AnyPool(o) \subseteq Characters
<1>1. \A c \in Classes : Pool(o, c) \subseteq Alphabet[c] BY DEF Pool
<1> QED BY <1>1 DEF AnyPool, Characters

LEMMA RequiredIsNat == \A o : \A c \in Classes : Required(o, c) \in Nat
BY LengthAssumption DEF Required, Larger, Classes, Counted

LEMMA PlaceHasClass ==
  ASSUME NEW o, NEW k \in Int
  PROVE  PlaceClass(o, k) \in Classes
<1>1. UpToUpper(o) \in Int /\ UpToDigits(o) \in Int /\ Required(o, "lowercase") \in Int
  BY RequiredIsNat DEF UpToUpper, UpToDigits, Classes
<1> QED BY <1>1 DEF PlaceClass, Classes

LEMMA PlacesAreCharacters ==
  ASSUME NEW o, NEW k \in Int
  PROVE  PlacePool(o, k) \subseteq AnyPool(o)
BY PoolsAreCharacters, PlaceHasClass DEF PlacePool

(* The classes have their places one after the other.                        *)
First(o, c) ==
  CASE c = "lowercase" -> 1
    [] c = "uppercase" -> Required(o, "lowercase") + 1
    [] c = "digits"    -> UpToUpper(o) + 1
    [] c = "symbols"   -> UpToDigits(o) + 1

LEMMA PlacesOfClass ==
  ASSUME NEW o, NEW c \in Classes
  PROVE  /\ First(o, c) \in Nat \ {0}
         /\ First(o, c) + Required(o, c) <= UpToSymbols(o) + 1
         /\ \A k \in First(o, c) .. First(o, c) + Required(o, c) - 1 :
              PlacePool(o, k) = Pool(o, c)
<1>1. /\ Required(o, "lowercase") \in Nat /\ Required(o, "uppercase") \in Nat
      /\ Required(o, "digits") \in Nat /\ Required(o, "symbols") \in Nat
  BY RequiredIsNat DEF Classes
<1>2. First(o, c) \in Nat \ {0} /\ First(o, c) + Required(o, c) <= UpToSymbols(o) + 1
  BY <1>1 DEF First, UpToUpper, UpToDigits, UpToSymbols, Classes
<1>3. ASSUME NEW k \in First(o, c) .. First(o, c) + Required(o, c) - 1
      PROVE  PlacePool(o, k) = Pool(o, c)
  <2>1. k \in Int /\ k <= UpToSymbols(o) /\ UpToSymbols(o) \in Int
    <3>1. UpToSymbols(o) \in Int BY <1>1 DEF UpToUpper, UpToDigits, UpToSymbols
    <3>2. Required(o, c) \in Nat BY RequiredIsNat
    <3> QED BY <1>2, <1>3, <3>1, <3>2
  <2>2. PlaceClass(o, k) = c
    <3>1. CASE c = "lowercase"
      BY <1>1, <1>3, <3>1 DEF First, PlaceClass, UpToUpper, UpToDigits
    <3>2. CASE c = "uppercase"
      BY <1>1, <1>3, <3>2 DEF First, PlaceClass, UpToUpper, UpToDigits
    <3>3. CASE c = "digits"
      BY <1>1, <1>3, <3>3 DEF First, PlaceClass, UpToUpper, UpToDigits
    <3>4. CASE c = "symbols"
      BY <1>1, <1>3, <3>4 DEF First, PlaceClass, UpToUpper, UpToDigits
    <3> QED BY <3>1, <3>2, <3>3, <3>4 DEF Classes
  <2> QED BY <2>1, <2>2 DEF PlacePool
<1> QED BY <1>2, <1>3

LEMMA PlacesCount ==
  ASSUME NEW a \in Int, NEW n \in Nat
  PROVE  Cardinality(a .. a + n - 1) = n
<1> DEFINE b == a + n - 1
<1>1. b \in Int /\ n = b - a + 1 OBVIOUS
<1>2. Cardinality(a .. b) = IF a > b THEN 0 ELSE b - a + 1
  <2> HIDE DEF b
  <2> QED BY <1>1, FS_Interval
<1> QED BY <1>1, <1>2

(* Once every place has a character of its pool every class has its share.   *)
LEMMA PlacedIsRich ==
  ASSUME NEW o, NEW s, s \in Seq(Characters), UpToSymbols(o) <= Len(s),
         \A k \in DOMAIN s : s[k] \in PlacePool(o, k)
  PROVE  Rich(s, o)
<1>1. DOMAIN s = 1 .. Len(s) /\ Len(s) \in Nat /\ IsFiniteSet(1 .. Len(s))
  BY FS_Interval
<1>2. \A k \in DOMAIN s : s[k] \in AnyPool(o)
  BY <1>1, PlacesAreCharacters
<1>3. ASSUME NEW c \in Classes
      PROVE  Cardinality(From(s, Pool(o, c))) >= Required(o, c)
  <2> DEFINE places == First(o, c) .. First(o, c) + Required(o, c) - 1
  <2>1. Required(o, c) \in Nat /\ First(o, c) \in Nat \ {0} /\ UpToSymbols(o) \in Int
    <3>1. /\ Required(o, "lowercase") \in Nat /\ Required(o, "uppercase") \in Nat
          /\ Required(o, "digits") \in Nat /\ Required(o, "symbols") \in Nat
      BY RequiredIsNat DEF Classes
    <3>2. UpToSymbols(o) \in Int
      BY <3>1 DEF UpToSymbols, UpToDigits, UpToUpper
    <3> QED BY <3>2, RequiredIsNat, PlacesOfClass
  <2>2. places \subseteq DOMAIN s
    BY <1>1, <2>1, PlacesOfClass
  <2>3. places \subseteq From(s, Pool(o, c))
    BY <2>2, PlacesOfClass DEF From
  <2>4. Cardinality(places) = Required(o, c)
    BY <2>1, PlacesCount
  <2>5. IsFiniteSet(From(s, Pool(o, c)))
    <3>1. From(s, Pool(o, c)) \in SUBSET (1 .. Len(s)) BY <1>1 DEF From
    <3> QED BY <1>1, <3>1, FS_Subset
  <2>6. /\ Cardinality(places) <= Cardinality(From(s, Pool(o, c)))
        /\ Cardinality(From(s, Pool(o, c))) \in Nat
    BY <2>3, <2>5, FS_Subset, FS_CardinalityType
  <2> QED BY <2>1, <2>4, <2>6
<1> QED BY <1>2, <1>3 DEF Rich

-----------------------------------------------------------------------------
(* Two places exchange their characters and every class keeps its number.    *)
LEMMA SwapKeepsNumbers ==
  ASSUME NEW s, s \in Seq(Characters), NEW i \in 1 .. Len(s), NEW j \in 1 .. Len(s),
         NEW S
  PROVE  Cardinality(From(Swapped(s, i, j), S)) = Cardinality(From(s, S))
<1> DEFINE t == Swapped(s, i, j)
<1> DEFINE other(k) == IF k = i THEN j ELSE IF k = j THEN i ELSE k
<1> DEFINE move == [k \in From(s, S) |-> other(k)]
<1>1. DOMAIN s = 1 .. Len(s) /\ Len(s) \in Nat BY DEF Swapped
<1>2. DOMAIN t = 1 .. Len(s) BY <1>1 DEF Swapped
<1>3. \A k \in 1 .. Len(s) : other(k) \in 1 .. Len(s) /\ t[other(k)] = s[k]
  BY <1>1 DEF Swapped
<1>4. \A k \in 1 .. Len(s) : other(other(k)) = k OBVIOUS
<1> HIDE DEF t
<1>5. move \in [From(s, S) -> From(t, S)]
  BY <1>1, <1>2, <1>3 DEF From
<1>6. \A k, l \in From(s, S) : move[k] = move[l] => k = l
  BY <1>1, <1>4 DEF From
<1>7. \A m \in From(t, S) : \E k \in From(s, S) : move[k] = m
  <2> SUFFICES ASSUME NEW m \in From(t, S) PROVE \E k \in From(s, S) : move[k] = m
    OBVIOUS
  <2>1. m \in 1 .. Len(s) /\ t[m] \in S BY <1>2 DEF From
  <2>2. other(m) \in 1 .. Len(s) /\ s[other(m)] = t[m]
    BY <2>1, <1>3, <1>4
  <2>3. other(m) \in From(s, S) BY <1>1, <2>1, <2>2 DEF From
  <2> QED BY <2>1, <2>3, <1>4
<1>8. move \in Bijection(From(s, S), From(t, S))
  BY <1>5, <1>6, <1>7 DEF Bijection, Injection, Surjection, IsInjective
<1>9. IsFiniteSet(From(s, S))
  <2>1. From(s, S) \in SUBSET (1 .. Len(s)) BY <1>1 DEF From
  <2>2. IsFiniteSet(1 .. Len(s)) BY <1>1, FS_Interval
  <2> QED BY <2>1, <2>2, FS_Subset
<1> QED BY <1>8, <1>9, FS_Bijection DEF ExistsBijection, t

LEMMA SwapKeepsRich ==
  ASSUME NEW o, NEW s, s \in Seq(Characters), Rich(s, o),
         NEW i \in 1 .. Len(s), NEW j \in 1 .. Len(s)
  PROVE  /\ Swapped(s, i, j) \in Seq(Characters)
         /\ Len(Swapped(s, i, j)) = Len(s)
         /\ Rich(Swapped(s, i, j), o)
<1>1. DOMAIN s = 1 .. Len(s) /\ Len(s) \in Nat OBVIOUS
<1>2. Swapped(s, i, j) \in Seq(Characters) /\ Len(Swapped(s, i, j)) = Len(s)
  BY <1>1 DEF Swapped
<1>3. \A k \in DOMAIN Swapped(s, i, j) : Swapped(s, i, j)[k] \in AnyPool(o)
  BY <1>1 DEF Swapped, Rich
<1>4. \A c \in Classes :
        Cardinality(From(Swapped(s, i, j), Pool(o, c))) >= Required(o, c)
  BY SwapKeepsNumbers DEF Rich
<1> QED BY <1>2, <1>3, <1>4 DEF Rich

-----------------------------------------------------------------------------
(* The steps.                                                                *)
LEMMA GenInitInv == Init => GenInv
<1> SUFFICES ASSUME Init PROVE GenInv OBVIOUS
<1>1. Default \in Options /\ Accepted(Default)
  BY DefaultAssumption DEF Default, Options
<1>2. TypeOK
  BY <1>1, LengthAssumption DEF Init, TypeOK
<1> QED BY <1>1, <1>2 DEF Init, GenInv, Picked, Shuffling, Shown

(* Whatever the options, the call either starts to pick or shows nothing.    *)
LEMMA RegenerateInv ==
  ASSUME Accepted(stored'), stored' \in Options, shown' \in Options,
         Regenerate(shown')
  PROVE  GenInv'
<1>1. TypeOK'
  BY LengthAssumption DEF TypeOK, Regenerate
<1>2. Picked'
  BY LengthAssumption DEF Picked, Regenerate, Accepted
<1> QED BY <1>1, <1>2 DEF GenInv, Regenerate, Shuffling, Shown

LEMMA OpenDialogInv == GenInv /\ OpenDialog => GenInv'
<1> SUFFICES ASSUME GenInv, OpenDialog PROVE GenInv' OBVIOUS
<1> QED BY RegenerateInv DEF GenInv, TypeOK, OpenDialog

LEMMA ChangeControlInv == GenInv /\ ChangeControl => GenInv'
<1> SUFFICES ASSUME GenInv, ChangeControl PROVE GenInv' OBVIOUS
<1>1. shown' \in Options
  <2>1. shown \in Options BY DEF GenInv, TypeOK
  <2>2. ASSUME NEW n \in Lengths, shown' = [shown EXCEPT !.length = n]
        PROVE  shown' \in Options
    BY <2>1, <2>2 DEF Options
  <2>3. ASSUME NEW c \in Classes, NEW S \in SUBSET Classes,
               shown' = [shown EXCEPT !.on = S]
        PROVE  shown' \in Options
    BY <2>1, <2>3 DEF Options
  <2>4. ASSUME shown' = [shown EXCEPT !.avoid = ~@]
        PROVE  shown' \in Options
    <3>1. (~shown.avoid) \in BOOLEAN OBVIOUS
    <3> DEFINE b == (~shown.avoid)
    <3>2. shown' = [shown EXCEPT !.avoid = b] BY <2>4
    <3> HIDE DEF b
    <3>3. b \in BOOLEAN BY <3>1 DEF b
    <3> QED BY <2>1, <3>2, <3>3 DEF Options
  <2>5. CASE \E c \in Classes :
          shown' = [shown EXCEPT !.on = IF c \in @ THEN @ \ {c} ELSE @ \cup {c}]
    <3>1. PICK c \in Classes :
            shown' = [shown EXCEPT !.on = IF c \in @ THEN @ \ {c} ELSE @ \cup {c}]
      BY <2>5
    <3> DEFINE S == IF c \in shown.on THEN shown.on \ {c} ELSE shown.on \cup {c}
    <3>2. S \in SUBSET Classes BY <2>1 DEF Options
    <3>3. shown' = [shown EXCEPT !.on = S] BY <3>1
    <3> QED BY <2>3, <3>2, <3>3
  <2> QED BY <2>2, <2>4, <2>5 DEF ChangeControl
<1> QED BY <1>1, RegenerateInv DEF GenInv, TypeOK, ChangeControl

LEMMA PickCharacterInv == GenInv /\ PickCharacter => GenInv'
<1> SUFFICES ASSUME GenInv, PickCharacter PROVE GenInv' OBVIOUS
<1> DEFINE n == Len(chars) + 1
<1>1. /\ chars \in Seq(Characters) /\ Accepted(shown) /\ Len(chars) < shown.length
      /\ \A k \in DOMAIN chars : chars[k] \in PlacePool(shown, k)
      /\ shown.length \in Nat /\ shown.length <= MaxLength /\ shown \in Options
  BY DEF GenInv, TypeOK, Picked, PickCharacter, Accepted
<1>2. PICK x \in PlacePool(shown, n) : chars' = Append(chars, x)
  BY DEF PickCharacter
<1>3. x \in Characters
  BY <1>1, PlacesAreCharacters, PoolsAreCharacters
<1>4. /\ chars' \in Seq(Characters) /\ Len(chars') = n /\ DOMAIN chars' = 1 .. n
      /\ DOMAIN chars = 1 .. Len(chars) /\ n \in Nat
      /\ \A k \in 1 .. Len(chars) : chars'[k] = chars[k]
      /\ chars'[n] = x
  BY <1>1, <1>2, <1>3
<1>5. \A k \in DOMAIN chars' : chars'[k] \in PlacePool(shown, k)
  <2> SUFFICES ASSUME NEW k \in 1 .. n PROVE chars'[k] \in PlacePool(shown, k)
    BY <1>4
  <2>1. CASE k = n BY <1>2, <1>4, <2>1
  <2>2. CASE k # n BY <1>1, <1>4, <2>2
  <2> QED BY <2>1, <2>2
<1>6. stored' = stored /\ shown' = shown /\ Accepted(stored) /\ stored \in Options
  BY DEF PickCharacter, GenInv, TypeOK
<1>7. CASE n = shown.length
  <2>1. phase' = "shuffling" /\ at' = shown.length
    BY <1>7 DEF PickCharacter
  <2>2. Rich(chars', shown)
    <3>1. UpToSymbols(shown) <= Len(chars') BY <1>1, <1>4, <1>7 DEF Accepted
    <3> QED BY <1>4, <1>5, <3>1, PlacedIsRich
  <2>3. Shuffling' BY <1>1, <1>4, <1>6, <1>7, <2>1, <2>2 DEF Shuffling, Complete
  <2>4. TypeOK' BY <1>1, <1>4, <1>6, <2>1 DEF TypeOK
  <2> QED BY <1>6, <2>1, <2>3, <2>4 DEF GenInv, Picked, Shown
<1>8. CASE n # shown.length
  <2>1. phase' = "picking" /\ at' = at
    BY <1>8 DEF PickCharacter
  <2>2. Picked' BY <1>1, <1>4, <1>5, <1>6, <1>8, <2>1 DEF Picked
  <2>3. TypeOK' BY <1>1, <1>4, <1>6, <2>1 DEF TypeOK, GenInv
  <2> QED BY <1>6, <2>1, <2>2, <2>3 DEF GenInv, Shuffling, Shown
<1> QED BY <1>7, <1>8

LEMMA SwapCharactersInv == GenInv /\ SwapCharacters => GenInv'
<1> SUFFICES ASSUME GenInv, SwapCharacters PROVE GenInv' OBVIOUS
<1>1. /\ Complete /\ at \in 1 .. Len(chars) /\ chars \in Seq(Characters)
      /\ stored' = stored /\ shown' = shown /\ Accepted(stored)
      /\ stored \in Options /\ shown \in Options /\ at \in 0 .. MaxLength
      /\ MaxLength \in Nat /\ Len(chars) \in Nat
  BY LengthAssumption DEF GenInv, TypeOK, Shuffling, SwapCharacters
<1>2. CASE at > 1
  <2>1. PICK j \in Partners(at) : chars' = Swapped(chars, at, j)
    BY <1>2 DEF SwapCharacters
  <2>2. at' = at - 1 /\ phase' = "shuffling"
    BY <1>2 DEF SwapCharacters
  <2>3. j \in 1 .. Len(chars)
    BY <1>1, <2>1 DEF Partners
  <2>4. chars' \in Seq(Characters) /\ Len(chars') = Len(chars) /\ Rich(chars', shown)
    BY <1>1, <2>1, <2>3, SwapKeepsRich DEF Complete
  <2>5. Complete'
    BY <1>1, <2>4 DEF Complete
  <2>6. at' \in 1 .. Len(chars') /\ at' \in 0 .. MaxLength
    BY <1>1, <1>2, <2>2, <2>4
  <2> QED BY <1>1, <2>2, <2>4, <2>5, <2>6
      DEF GenInv, TypeOK, Picked, Shuffling, Shown
<1>3. CASE ~(at > 1)
  <2>1. phase' = "shown" /\ at' = 0 /\ chars' = chars
    BY <1>3 DEF SwapCharacters
  <2>2. Complete' BY <1>1, <2>1 DEF Complete
  <2> QED BY <1>1, <2>1, <2>2 DEF GenInv, TypeOK, Picked, Shuffling, Shown
<1> QED BY <1>2, <1>3

(* What is stored made a password a moment ago.                              *)
LEMMA AcceptInv == GenInv /\ Accept => GenInv'
BY DEF GenInv, TypeOK, Picked, Shuffling, Shown, Complete, Accept, CanAccept

LEMMA RejectInv == GenInv /\ Reject => GenInv'
BY DEF GenInv, TypeOK, Picked, Shuffling, Shown, Reject

LEMMA GenNextInv == GenInv /\ [Next]_vars => GenInv'
<1> SUFFICES ASSUME GenInv, [Next]_vars PROVE GenInv' OBVIOUS
<1>1. CASE OpenDialog BY <1>1, OpenDialogInv
<1>2. CASE ChangeControl BY <1>2, ChangeControlInv
<1>3. CASE PickCharacter BY <1>3, PickCharacterInv
<1>4. CASE SwapCharacters BY <1>4, SwapCharactersInv
<1>5. CASE Accept BY <1>5, AcceptInv
<1>6. CASE Reject BY <1>6, RejectInv
<1>7. CASE UNCHANGED vars
  BY <1>7 DEF vars, GenInv, TypeOK, Picked, Shuffling, Shown, Complete, Rich, From
<1> QED BY <1>1, <1>2, <1>3, <1>4, <1>5, <1>6, <1>7 DEF Next

-----------------------------------------------------------------------------
(* The state of the dialog keeps its types.                                  *)
THEOREM GenTypeCorrect == Spec => []TypeOK
<1>1. GenInv => TypeOK BY DEF GenInv
<1> QED BY <1>1, GenInitInv, GenNextInv, PTL DEF Spec

(* Every password the dialog shows fits what its controls ask for            *)
(* (generatePassword, passwordgen.cpp:60), for any alphabet and length.      *)
THEOREM PasswordAlwaysFits == Spec => []PasswordFits
<1>1. GenInv => PasswordFits
  BY DEF GenInv, Shown, Complete, Rich, PasswordFits, From
<1> QED BY <1>1, GenInitInv, GenNextInv, PTL DEF Spec

(* The options kept for the next dialog are never such that it opens empty   *)
(* (canAccept of GeneratorDialog, setGeneratorOptions).                      *)
THEOREM StoredStillWorks == Spec => []StoredWorks
<1>1. GenInv => StoredWorks BY DEF GenInv, StoredWorks
<1> QED BY <1>1, GenInitInv, GenNextInv, PTL DEF Spec

-----------------------------------------------------------------------------
(* Indexes: division by a bound that is no literal.                          *)
LEMMA Division ==
  ASSUME NEW a \in Nat, NEW b \in Nat \ {0}
  PROVE  a = b * (a \div b) + (a % b) /\ a % b \in 0 .. b - 1 /\ (a \div b) \in Nat
OBVIOUS

LEMMA Remainder ==
  ASSUME NEW b \in Nat \ {0}, NEW k \in Int, NEW r \in 0 .. b - 1
  PROVE  (b * k + r) % b = r
OBVIOUS

LEMMA FewerMultiples ==
  ASSUME NEW b \in Nat \ {0}, NEW k \in Int, NEW q \in Int, b * k < b * q
  PROVE  b * k + b <= b * q
OBVIOUS

(* Rejection leaves whole buckets of values.                                 *)
LEMMA KeptBelowBuckets ==
  ASSUME NEW Words \in Nat \ {0}, NEW bound \in 1 .. Words
  PROVE  \E q \in Nat : /\ bound * q <= Words
                        /\ \A r \in 0 .. Words - 1 :
                             Kept(Words, bound, r) <=> r < bound * q
<1> DEFINE q == (Words - 1) \div bound
           m == (Words - 1) % bound
<1>1. /\ Words - 1 = bound * q + m /\ m \in 0 .. bound - 1 /\ q \in Nat
      /\ bound * q \in Nat /\ bound \in Nat \ {0} /\ Words - 1 \in Nat
  <2>1. bound \in Nat \ {0} /\ Words - 1 \in Nat OBVIOUS
  <2>2. Words - 1 = bound * q + m /\ m \in 0 .. bound - 1 /\ q \in Nat
    BY <2>1, Division
  <2> HIDE DEF q, m
  <2>3. bound * q \in Nat BY <2>1, <2>2
  <2> QED BY <2>1, <2>2, <2>3
<1>2. Rem(Words, bound) = (m + 1) % bound BY DEF Rem
<1> HIDE DEF q, m
<1>3. CASE m + 1 = bound
  <2>1. (m + 1) % bound = 0
    <3>1. m + 1 = bound * 1 + 0 /\ 0 \in 0 .. bound - 1 BY <1>1, <1>3
    <3>2. (bound * 1 + 0) % bound = 0 BY <1>1, <3>1, Remainder
    <3> QED BY <3>1, <3>2
  <2>2. bound * (q + 1) = Words /\ q + 1 \in Nat
    <3>1. bound * (q + 1) = bound * q + bound BY <1>1
    <3> QED BY <1>1, <1>3, <3>1
  <2>3. \A r \in 0 .. Words - 1 : Kept(Words, bound, r) <=> r < bound * (q + 1)
    BY <1>2, <2>1, <2>2 DEF Kept
  <2> DEFINE p == q + 1
  <2>4. p \in Nat /\ bound * p <= Words BY <1>1, <2>2
  <2>5. \A r \in 0 .. Words - 1 : Kept(Words, bound, r) <=> r < bound * p BY <2>3
  <2> HIDE DEF p
  <2> QED BY <2>4, <2>5, Zenon
<1>4. CASE m + 1 # bound
  <2>1. (m + 1) % bound = m + 1
    <3>1. m + 1 = bound * 0 + (m + 1) /\ m + 1 \in 0 .. bound - 1 BY <1>1, <1>4
    <3>2. (bound * 0 + (m + 1)) % bound = m + 1 BY <1>1, <3>1, Remainder
    <3> QED BY <3>1, <3>2
  <2>2. m + 1 < Words
    <3>1. CASE q = 0 BY <1>1, <1>4, <3>1
    <3>2. CASE q # 0
      <4>1. bound * q >= bound BY <1>1, <3>2
      <4> QED BY <1>1, <4>1
    <3> QED BY <3>1, <3>2
  <2>3. (0 - (m + 1)) % Words = Words - (m + 1)
    <3>1. Words * (-1) = 0 - Words BY <1>1
    <3>2. 0 - (m + 1) = Words * (-1) + (Words - (m + 1)) BY <1>1, <3>1
    <3>3. Words - (m + 1) \in 0 .. Words - 1 BY <1>1, <2>2
    <3>4. (Words * (-1) + (Words - (m + 1))) % Words = Words - (m + 1)
      BY <3>3, Remainder
    <3> QED BY <3>2, <3>4
  <2>4. Words - (m + 1) = bound * q BY <1>1
  <2>5. \A r \in 0 .. Words - 1 : Kept(Words, bound, r) <=> r < bound * q
    BY <1>1, <1>2, <2>1, <2>3, <2>4 DEF Kept
  <2>6. bound * q <= Words BY <1>1
  <2> QED BY <1>1, <2>5, <2>6, Zenon
<1> QED BY <1>3, <1>4

(* A bucket holds every index once, so a draw of one index becomes a draw of *)
(* another by their distance.                                                *)
LEMMA DrawsMove ==
  ASSUME NEW Words \in Nat \ {0}, NEW bound \in 1 .. Words,
         NEW i \in 0 .. bound - 1, NEW j \in 0 .. bound - 1,
         NEW r \in Draws(Words, bound, i)
  PROVE  r - i + j \in Draws(Words, bound, j)
<1>1. PICK q \in Nat : /\ bound * q <= Words
                       /\ \A x \in 0 .. Words - 1 :
                            Kept(Words, bound, x) <=> x < bound * q
  BY KeptBelowBuckets
<1>2. r \in 0 .. Words - 1 /\ r < bound * q /\ r % bound = i
  BY <1>1 DEF Draws
<1> DEFINE k == r \div bound
<1>3. r = bound * k + i /\ k \in Nat /\ bound \in Nat \ {0} /\ bound * k \in Nat
  <2>1. bound \in Nat \ {0} /\ r \in Nat BY <1>2
  <2>2. r = bound * k + i /\ k \in Nat BY <1>2, <2>1, Division
  <2> HIDE DEF k
  <2>3. bound * k \in Nat BY <2>1, <2>2
  <2> QED BY <2>1, <2>2, <2>3
<1> HIDE DEF k
<1>4. bound * k + bound <= bound * q
  <2>1. bound * k < bound * q BY <1>2, <1>3
  <2> QED BY <1>3, <2>1, FewerMultiples
<1>5. r - i + j = bound * k + j BY <1>3
<1>6. r - i + j < bound * q /\ r - i + j \in 0 .. Words - 1
  BY <1>1, <1>3, <1>4, <1>5
<1>7. (r - i + j) % bound = j BY <1>3, <1>5, Remainder
<1> QED BY <1>1, <1>6, <1>7 DEF Draws

(* randomIndex draws every index from the same number of 32-bit words, for   *)
(* any width of the words and any bound they can hold (passwordgen.cpp:13).  *)
THEOREM IndexUniform ==
  \A Words \in Nat \ {0} : \A bound \in 1 .. Words : UniformIndex(Words, bound)
<1> SUFFICES ASSUME NEW Words \in Nat \ {0}, NEW bound \in 1 .. Words,
                    NEW i \in 0 .. bound - 1, NEW j \in 0 .. bound - 1
             PROVE  Cardinality(Draws(Words, bound, i)) = Cardinality(Draws(Words, bound, j))
  BY DEF UniformIndex
<1> DEFINE A == Draws(Words, bound, i)
           B == Draws(Words, bound, j)
           move == [r \in A |-> r - i + j]
<1>1. A \subseteq 0 .. Words - 1 /\ B \subseteq 0 .. Words - 1 BY DEF Draws
<1>2. \A r \in A : r - i + j \in B BY DrawsMove
<1>3. \A r \in B : r - j + i \in A BY DrawsMove
<1> HIDE DEF A, B
<1>4. move \in [A -> B] BY <1>2
<1>5. \A r, s \in A : move[r] = move[s] => r = s BY <1>1
<1>6. \A s \in B : \E r \in A : move[r] = s
  <2> SUFFICES ASSUME NEW s \in B PROVE \E r \in A : move[r] = s OBVIOUS
  <2>1. s - j + i \in A /\ s \in Int BY <1>1, <1>3
  <2>2. (s - j + i) - i + j = s BY <2>1
  <2> QED BY <2>1, <2>2
<1>7. move \in Bijection(A, B)
  BY <1>4, <1>5, <1>6 DEF Bijection, Injection, Surjection, IsInjective
<1>8. IsFiniteSet(A)
  <2>1. IsFiniteSet(0 .. Words - 1) BY FS_Interval
  <2> QED BY <1>1, <2>1, FS_Subset
<1> QED BY <1>7, <1>8, FS_Bijection DEF ExistsBijection, A, B

-----------------------------------------------------------------------------
(* Induction, from the library's well-founded order of the numbers: a set     *)
(* that has 0 and with a number the next one has them all.                   *)
LEMMA LeastNumber ==
  ASSUME NEW T \in SUBSET Nat, T # {}
  PROVE  \E m \in T : \A k \in T : m <= k
<1> DEFINE R == OpToRel(<, Nat)
<1>1. IsWellFoundedOn(R, Nat) BY NatLessThanWellFounded
<1>2. \A x, y \in Nat : << y, x >> \in R <=> y < x BY DEF OpToRel
<1> HIDE DEF R
<1>3. PICK x \in T : \A y \in T : << y, x >> \notin R BY <1>1, WFMin
<1>4. ASSUME NEW y \in T PROVE x <= y
  <2>1. x \in Nat /\ y \in Nat OBVIOUS
  <2>2. << y, x >> \notin R BY <1>3
  <2>3. ~(y < x) BY <1>2, <2>1, <2>2
  <2> QED BY <2>1, <2>3
<1> QED BY <1>4

LEMMA CountingUp ==
  ASSUME NEW P, 0 \in P, \A n \in Nat : n \in P => n + 1 \in P
  PROVE  Nat \subseteq P
<1> DEFINE T == Nat \ P
<1> SUFFICES ASSUME T # {} PROVE FALSE OBVIOUS
<1>1. T \in SUBSET Nat OBVIOUS
<1>2. PICK m \in T : \A k \in T : m <= k BY <1>1, LeastNumber
<1>3. m # 0 /\ m \in Nat /\ m - 1 \in Nat /\ m - 1 < m BY <1>2
<1>4. m - 1 \in P BY <1>2, <1>3
<1>5. m - 1 + 1 \in P BY <1>3, <1>4
<1> QED BY <1>2, <1>3, <1>5

LEMMA CountingTo ==
  ASSUME NEW n \in Nat, NEW P, 0 \in P,
         \A k \in 0 .. n - 1 : k \in P => k + 1 \in P
  PROVE  \A k \in 0 .. n : k \in P
<1> DEFINE Q == {k \in Nat : k <= n => k \in P}
<1>1. 0 \in Q OBVIOUS
<1>2. \A k \in Nat : k \in Q => k + 1 \in Q OBVIOUS
<1>3. Nat \subseteq Q BY <1>1, <1>2, CountingUp
<1> QED BY <1>3

(* A loop of n rounds that keeps to V has a function of its rounds.          *)
Loop(n, V, c, step) ==
  \E f \in [0 .. n -> V] :
    f[0] = c /\ \A k \in 1 .. n : f[k] = step[<< f[k - 1], k >>]

LEMMA LoopRuns ==
  ASSUME NEW n, NEW V, NEW c, NEW step,
         n \in Nat, c \in V, step \in [V \X (1 .. n) -> V]
  PROVE  Loop(n, V, c, step)
<1> DEFINE P == {m \in Nat : m <= n =>
                   \E f \in [0 .. m -> V] :
                     f[0] = c /\ \A k \in 1 .. m : f[k] = step[<< f[k - 1], k >>]}
<1>1. 0 \in P
  <2> DEFINE f == [k \in 0 .. 0 |-> c]
  <2>1. f \in [0 .. 0 -> V] /\ f[0] = c OBVIOUS
  <2>2. \A k \in 1 .. 0 : f[k] = step[<< f[k - 1], k >>] OBVIOUS
  <2> HIDE DEF f
  <2> QED BY <2>1, <2>2
<1>2. \A m \in Nat : m \in P => m + 1 \in P
  <2> TAKE m \in Nat
  <2> HAVE m \in P
  <2>1. SUFFICES ASSUME m + 1 <= n
                 PROVE  \E g \in [0 .. m + 1 -> V] :
                          g[0] = c /\ \A k \in 1 .. m + 1 :
                                        g[k] = step[<< g[k - 1], k >>]
    OBVIOUS
  <2>2. PICK f \in [0 .. m -> V] :
          f[0] = c /\ \A k \in 1 .. m : f[k] = step[<< f[k - 1], k >>]
    BY <2>1
  <2> DEFINE g == [k \in 0 .. m + 1 |->
                     IF k <= m THEN f[k] ELSE step[<< f[m], m + 1 >>]]
  <2>3. step[<< f[m], m + 1 >>] \in V BY <2>1
  <2>4. g \in [0 .. m + 1 -> V] BY <2>3
  <2>5. \A k \in 0 .. m : g[k] = f[k] OBVIOUS
  <2>6. g[m + 1] = step[<< f[m], m + 1 >>] OBVIOUS
  <2> HIDE DEF g
  <2>7. g[0] = c BY <2>2, <2>5
  <2>8. \A k \in 1 .. m + 1 : g[k] = step[<< g[k - 1], k >>] BY <2>2, <2>5, <2>6
  <2> QED BY <2>4, <2>7, <2>8
<1>3. n \in P BY <1>1, <1>2, CountingUp
<1> QED BY <1>3 DEF Loop

-----------------------------------------------------------------------------
(* The shuffle.  Its rounds count down from the last place.                  *)
LEMMA CountingDown ==
  ASSUME NEW n \in Nat \ {0}, NEW P, n \in P,
         \A i \in 1 .. n - 1 : i + 1 \in P => i \in P
  PROVE  \A i \in 1 .. n : i \in P
<1> DEFINE Q == {k \in 0 .. n - 1 : n - k \in P}
<1>1. n - 1 \in Nat /\ 0 \in Q OBVIOUS
<1>2. \A k \in 0 .. n - 1 - 1 : k \in Q => k + 1 \in Q
  <2> TAKE k \in 0 .. n - 1 - 1
  <2> HAVE k \in Q
  <2> DEFINE i == n - (k + 1)
  <2>1. i \in 1 .. n - 1 /\ i + 1 = n - k OBVIOUS
  <2>2. i \in P BY <2>1
  <2> QED BY <2>2
<1>3. \A k \in 0 .. n - 1 : k \in Q BY <1>1, <1>2, CountingTo
<1>4. ASSUME NEW i \in 1 .. n PROVE i \in P
  <2>1. n - i \in 0 .. n - 1 /\ n - (n - i) = i OBVIOUS
  <2> QED BY <1>3, <2>1
<1> QED BY <1>4

Orders(n) == {p \in [1 .. n -> 1 .. n] : \A i, j \in 1 .. n : i # j => p[i] # p[j]}

LEMMA OrdersHaveAll ==
  ASSUME NEW n \in Nat, NEW u \in Orders(n), NEW x \in 1 .. n
  PROVE  \E k \in 1 .. n : u[k] = x
<1>1. u \in Injection(1 .. n, 1 .. n) BY DEF Orders, Injection, IsInjective
<1>2. IsFiniteSet(1 .. n) BY FS_Interval
<1>3. u \in Surjection(1 .. n, 1 .. n) BY <1>1, <1>2, FS_Injection
<1> QED BY <1>3 DEF Surjection

LEMMA SwapKeepsOrder ==
  ASSUME NEW n \in Nat, NEW u \in Orders(n), NEW i \in 1 .. n, NEW j \in 1 .. n
  PROVE  /\ Swapped(u, i, j) \in Orders(n)
         /\ Swapped(u, i, j)[i] = u[j] /\ Swapped(u, i, j)[j] = u[i]
         /\ \A k \in 1 .. n : k # i /\ k # j => Swapped(u, i, j)[k] = u[k]
BY DEF Swapped, Orders

LEMMA RoundKeepsOrder ==
  ASSUME NEW n \in Nat, NEW u \in Orders(n), NEW i \in 1 .. n - 1, NEW j \in 1 .. n,
         NEW v, v = Swapped(u, i + 1, j)
  PROVE  /\ v \in Orders(n) /\ v[i + 1] = u[j]
         /\ \A k \in 1 .. n : k # i + 1 /\ k # j => v[k] = u[k]
<1> DEFINE m == i + 1
<1>1. m \in 1 .. n OBVIOUS
<1> HIDE DEF m
<1>2. v = Swapped(u, m, j) BY DEF m
<1>3. v \in Orders(n) /\ v[m] = u[j] /\ \A k \in 1 .. n : k # m /\ k # j => v[k] = u[k]
  BY <1>1, <1>2, SwapKeepsOrder
<1> QED BY <1>3 DEF m

(* The orders after each round, from n down; what a round leaves behind it     *)
(* stays, and two walks with the same choices are one.                       *)
Walks(n, f, w) ==
  /\ w \in [1 .. n -> Orders(n)] /\ w[n] = [k \in 1 .. n |-> k]
  /\ \A i \in 1 .. n - 1 : w[i] = Swapped(w[i + 1], i + 1, f[i + 1])

LEMMA WalkIsTaken ==
  ASSUME NEW n \in Nat \ {0}, NEW f \in Choices(n)
  PROVE  \E w : Walks(n, f, w) /\ Shuffled(n, f) = w[1]
<1> DEFINE id == [k \in 1 .. n |-> k]
           Runs(w) == w = [i \in 1 .. n |->
                             IF i = n THEN id ELSE Swapped(w[i + 1], i + 1, f[i + 1])]
           step == [p \in Orders(n) \X (1 .. n - 1) |->
                      Swapped(p[1], n - p[2] + 1, f[n - p[2] + 1])]
<1>1. n - 1 \in Nat /\ id \in Orders(n) BY DEF Orders
<1>2. \A i \in 2 .. n : f[i] \in 1 .. i BY DEF Choices, Partners
<1>3. \A u \in Orders(n), k \in 1 .. n - 1 :
        /\ step[<< u, k >>] = Swapped(u, n - k + 1, f[n - k + 1])
        /\ step[<< u, k >>] \in Orders(n)
  <2> TAKE u \in Orders(n), k \in 1 .. n - 1
  <2>1. step[<< u, k >>] = Swapped(u, n - k + 1, f[n - k + 1]) OBVIOUS
  <2>2. n - k + 1 \in 2 .. n OBVIOUS
  <2>3. f[n - k + 1] \in 1 .. n BY <1>2, <2>2
  <2>4. Swapped(u, n - k + 1, f[n - k + 1]) \in Orders(n)
    BY <2>2, <2>3, SwapKeepsOrder
  <2> QED BY <2>1, <2>4
<1>4. step \in [Orders(n) \X (1 .. n - 1) -> Orders(n)]
  <2>1. \A p \in Orders(n) \X (1 .. n - 1) : step[p] \in Orders(n)
    <3> TAKE p \in Orders(n) \X (1 .. n - 1)
    <3>1. p = << p[1], p[2] >> /\ p[1] \in Orders(n) /\ p[2] \in 1 .. n - 1 OBVIOUS
    <3> HIDE DEF step
    <3> QED BY <1>3, <3>1
  <2> QED BY <2>1
<1> HIDE DEF step, id
<1>5. PICK g \in [0 .. n - 1 -> Orders(n)] :
        g[0] = id /\ \A k \in 1 .. n - 1 : g[k] = step[<< g[k - 1], k >>]
  <2>1. Loop(n - 1, Orders(n), id, step) BY <1>1, <1>4, LoopRuns
  <2> QED BY <2>1 DEF Loop
<1> DEFINE h == [i \in 1 .. n |-> g[n - i]]
<1>6. Runs(h)
  <2>1. ASSUME NEW i \in 1 .. n
        PROVE  h[i] = IF i = n THEN id ELSE Swapped(h[i + 1], i + 1, f[i + 1])
    <3>1. CASE i = n BY <1>5, <3>1
    <3>2. CASE i # n
      <4>1. n - i \in 1 .. n - 1 /\ n - i - 1 \in 0 .. n - 1 /\ i + 1 \in 1 .. n
            /\ n - (i + 1) = n - i - 1 /\ n - (n - i) + 1 = i + 1
        BY <3>2
      <4>2. h[i] = g[n - i] /\ h[i + 1] = g[n - i - 1] BY <4>1
      <4>3. g[n - i] = step[<< g[n - i - 1], n - i >>] BY <1>5, <4>1
      <4>4. g[n - i - 1] \in Orders(n) BY <1>5, <4>1
      <4>5. step[<< g[n - i - 1], n - i >>]
              = Swapped(g[n - i - 1], n - (n - i) + 1, f[n - (n - i) + 1])
        BY <1>3, <4>1, <4>4
      <4> HIDE DEF h
      <4> QED BY <3>2, <4>1, <4>2, <4>3, <4>5
    <3> QED BY <3>1, <3>2
  <2> QED BY <2>1
<1> DEFINE w == CHOOSE x : Runs(x)
<1>7. Runs(w) BY <1>6
<1>8. Shuffled(n, f) = w[1] BY DEF Shuffled, id
<1> HIDE DEF w
<1>9. w[n] = id /\ \A i \in 1 .. n - 1 : w[i] = Swapped(w[i + 1], i + 1, f[i + 1])
  <2>1. w[n] = id BY <1>7
  <2>2. ASSUME NEW i \in 1 .. n - 1 PROVE w[i] = Swapped(w[i + 1], i + 1, f[i + 1])
    <3>1. i \in 1 .. n /\ i # n OBVIOUS
    <3> QED BY <1>7, <3>1
  <2> QED BY <2>1, <2>2
<1>10. \A i \in 1 .. n : w[i] \in Orders(n)
  <2> DEFINE P == {i \in 1 .. n : w[i] \in Orders(n)}
  <2>1. n \in P BY <1>1, <1>9
  <2>2. ASSUME NEW i \in 1 .. n - 1, i + 1 \in P PROVE i \in P
    <3>1. i \in 1 .. n /\ i + 1 \in 2 .. n /\ w[i + 1] \in Orders(n) BY <2>2
    <3>2. f[i + 1] \in 1 .. n BY <1>2, <3>1
    <3>3. w[i] = Swapped(w[i + 1], i + 1, f[i + 1]) BY <1>9
    <3>4. w[i] \in Orders(n) BY <3>1, <3>2, <3>3, RoundKeepsOrder
    <3> QED BY <3>1, <3>4
  <2> HIDE DEF P
  <2>3. \A i \in 1 .. n : i \in P BY <2>1, <2>2, CountingDown
  <2> QED BY <2>3 DEF P
<1>11. w \in [1 .. n -> Orders(n)]
  <2>1. w = [i \in 1 .. n |-> w[i]] BY <1>7
  <2> QED BY <1>10, <2>1
<1> QED BY <1>8, <1>9, <1>11 DEF Walks, id

LEMMA WalkRounds ==
  ASSUME NEW n \in Nat \ {0}, NEW f \in Choices(n), NEW w, Walks(n, f, w),
         NEW i \in 1 .. n - 1
  PROVE  /\ i + 1 \in 2 .. n /\ f[i + 1] \in 1 .. i + 1 /\ w[i + 1] \in Orders(n)
         /\ w[i][i + 1] = w[i + 1][f[i + 1]]
         /\ \A k \in i + 2 .. n : w[i][k] = w[i + 1][k]
<1>1. i + 1 \in 2 .. n /\ i + 1 \in 1 .. n OBVIOUS
<1>2. f[i + 1] \in 1 .. i + 1 BY <1>1 DEF Choices, Partners
<1>3. w[i + 1] \in Orders(n) /\ w[i] = Swapped(w[i + 1], i + 1, f[i + 1])
  BY <1>1 DEF Walks
<1>4. f[i + 1] \in 1 .. n BY <1>1, <1>2
<1>5. /\ w[i][i + 1] = w[i + 1][f[i + 1]]
      /\ \A k \in 1 .. n : k # i + 1 /\ k # f[i + 1] => w[i][k] = w[i + 1][k]
  BY <1>3, <1>4, RoundKeepsOrder
<1>6. ASSUME NEW k \in i + 2 .. n PROVE w[i][k] = w[i + 1][k]
  <2>1. k \in 1 .. n /\ k # i + 1 /\ k # f[i + 1] BY <1>2
  <2> QED BY <1>5, <2>1
<1> QED BY <1>1, <1>2, <1>3, <1>5, <1>6

LEMMA WalkSettles ==
  ASSUME NEW n \in Nat \ {0}, NEW f \in Choices(n), NEW w, Walks(n, f, w)
  PROVE  \A i \in 1 .. n : \A k \in i + 1 .. n : w[1][k] = w[i][k]
<1> DEFINE P == {m \in 0 .. n - 1 : \A k \in m + 2 .. n : w[1][k] = w[m + 1][k]}
<1>1. n - 1 \in Nat /\ 0 \in P OBVIOUS
<1>2. ASSUME NEW m \in 0 .. n - 1 - 1, m \in P PROVE m + 1 \in P
  <2>1. m + 1 \in 1 .. n - 1 /\ m + 1 \in 0 .. n - 1 /\ m + 1 + 1 = m + 2
        /\ m + 1 + 2 = m + 3
    OBVIOUS
  <2>2. \A k \in m + 1 + 2 .. n : w[m + 1][k] = w[m + 1 + 1][k] BY <2>1, WalkRounds
  <2>3. \A k \in m + 1 + 2 .. n : k \in m + 2 .. n OBVIOUS
  <2>4. \A k \in m + 1 + 2 .. n : w[1][k] = w[m + 1 + 1][k] BY <1>2, <2>2, <2>3
  <2> QED BY <2>1, <2>4
<1> HIDE DEF P
<1>3. \A m \in 0 .. n - 1 : m \in P BY <1>1, <1>2, CountingTo
<1>4. ASSUME NEW i \in 1 .. n PROVE \A k \in i + 1 .. n : w[1][k] = w[i][k]
  <2>1. i - 1 \in 0 .. n - 1 /\ i - 1 + 2 = i + 1 /\ i - 1 + 1 = i OBVIOUS
  <2>2. i - 1 \in P BY <1>3, <2>1
  <2> QED BY <2>1, <2>2 DEF P
<1> QED BY <1>4

LEMMA WalkIsOne ==
  ASSUME NEW n \in Nat \ {0}, NEW f, NEW v, NEW w, Walks(n, f, v), Walks(n, f, w)
  PROVE  \A i \in 1 .. n : v[i] = w[i]
<1> DEFINE P == {i \in 1 .. n : v[i] = w[i]}
<1>1. n \in P BY DEF Walks
<1>2. \A i \in 1 .. n - 1 : i + 1 \in P => i \in P BY DEF Walks
<1> HIDE DEF P
<1>3. \A i \in 1 .. n : i \in P BY <1>1, <1>2, CountingDown
<1> QED BY <1>3 DEF P

(* An order tells the choices that led to it, from the last place down.      *)
LEMMA ChoicesTold ==
  ASSUME NEW n \in Nat \ {0}, NEW f \in Choices(n), NEW g \in Choices(n),
         Shuffled(n, f) = Shuffled(n, g)
  PROVE  f = g
<1>1. PICK v : Walks(n, f, v) /\ Shuffled(n, f) = v[1] BY WalkIsTaken
<1>2. PICK w : Walks(n, g, w) /\ Shuffled(n, g) = w[1] BY WalkIsTaken
<1>3. ASSUME NEW i \in 1 .. n - 1, v[i + 1] = w[i + 1]
      PROVE  f[i + 1] = g[i + 1] /\ v[i] = w[i]
  <2>1. i \in 1 .. n /\ i + 1 \in i + 1 .. n OBVIOUS
  <2>2. v[i][i + 1] = w[i][i + 1]
    <3>1. v[1][i + 1] = v[i][i + 1] BY <1>1, <2>1, WalkSettles
    <3>2. w[1][i + 1] = w[i][i + 1] BY <1>2, <2>1, WalkSettles
    <3> QED BY <1>1, <1>2, <3>1, <3>2
  <2>3. f[i + 1] \in 1 .. i + 1 /\ v[i][i + 1] = v[i + 1][f[i + 1]]
        /\ v[i + 1] \in Orders(n)
    BY <1>1, WalkRounds
  <2>4. g[i + 1] \in 1 .. i + 1 /\ w[i][i + 1] = w[i + 1][g[i + 1]]
    BY <1>2, WalkRounds
  <2>5. f[i + 1] \in 1 .. n /\ g[i + 1] \in 1 .. n BY <2>3, <2>4
  <2>6. v[i + 1][f[i + 1]] = v[i + 1][g[i + 1]] BY <1>3, <2>2, <2>3, <2>4
  <2>7. f[i + 1] = g[i + 1] BY <2>3, <2>5, <2>6 DEF Orders
  <2> QED BY <1>1, <1>2, <1>3, <2>7 DEF Walks
<1> DEFINE P == {i \in 1 .. n : v[i] = w[i]}
<1>4. n \in P BY <1>1, <1>2 DEF Walks
<1>5. \A i \in 1 .. n - 1 : i + 1 \in P => i \in P BY <1>3
<1>6. \A i \in 1 .. n : i \in P
  <2> HIDE DEF P
  <2> QED BY <1>4, <1>5, CountingDown
<1>7. ASSUME NEW k \in 2 .. n PROVE f[k] = g[k]
  <2>1. k - 1 \in 1 .. n - 1 /\ k - 1 + 1 = k /\ k \in 1 .. n OBVIOUS
  <2>2. v[k] = w[k] BY <1>6, <2>1
  <2> QED BY <1>3, <2>1, <2>2
<1> QED BY <1>7 DEF Choices

(* Every order has choices: each round fetches what the place is to have.    *)
LEMMA OrderIsChosen ==
  ASSUME NEW n \in Nat \ {0}, NEW p \in Orders(n)
  PROVE  \E f \in Choices(n) : Shuffled(n, f) = p
<1> DEFINE id == [k \in 1 .. n |-> k]
           Where(u, x) == CHOOSE j \in 1 .. n : u[j] = x
           step == [q \in Orders(n) \X (1 .. n - 1) |->
                      Swapped(q[1], n - q[2] + 1, Where(q[1], p[n - q[2] + 1]))]
<1>1. n - 1 \in Nat /\ id \in Orders(n) BY DEF Orders
<1>2. ASSUME NEW u \in Orders(n), NEW i \in 1 .. n
      PROVE  Where(u, p[i]) \in 1 .. n /\ u[Where(u, p[i])] = p[i]
  <2>1. p[i] \in 1 .. n BY DEF Orders
  <2>2. \E j \in 1 .. n : u[j] = p[i] BY <2>1, OrdersHaveAll
  <2> QED BY <2>2
<1>3. \A u \in Orders(n), k \in 1 .. n - 1 :
        /\ step[<< u, k >>] = Swapped(u, n - k + 1, Where(u, p[n - k + 1]))
        /\ step[<< u, k >>] \in Orders(n)
  <2> TAKE u \in Orders(n), k \in 1 .. n - 1
  <2>1. step[<< u, k >>] = Swapped(u, n - k + 1, Where(u, p[n - k + 1])) OBVIOUS
  <2>2. n - k + 1 \in 1 .. n OBVIOUS
  <2> HIDE DEF Where, step
  <2>3. Where(u, p[n - k + 1]) \in 1 .. n BY <1>2, <2>2
  <2>4. Swapped(u, n - k + 1, Where(u, p[n - k + 1])) \in Orders(n)
    BY <2>2, <2>3, SwapKeepsOrder
  <2> QED BY <2>1, <2>4
<1>4. step \in [Orders(n) \X (1 .. n - 1) -> Orders(n)]
  <2>1. \A q \in Orders(n) \X (1 .. n - 1) : step[q] \in Orders(n)
    <3> TAKE q \in Orders(n) \X (1 .. n - 1)
    <3>1. q = << q[1], q[2] >> /\ q[1] \in Orders(n) /\ q[2] \in 1 .. n - 1 OBVIOUS
    <3> HIDE DEF step
    <3> QED BY <1>3, <3>1
  <2> QED BY <2>1
<1> HIDE DEF step, id, Where
<1>5. PICK g \in [0 .. n - 1 -> Orders(n)] :
        g[0] = id /\ \A k \in 1 .. n - 1 : g[k] = step[<< g[k - 1], k >>]
  <2>1. Loop(n - 1, Orders(n), id, step) BY <1>1, <1>4, LoopRuns
  <2> QED BY <2>1 DEF Loop
<1> DEFINE w == [i \in 1 .. n |-> g[n - i]]
           f == [i \in 2 .. n |-> Where(w[i], p[i])]
<1>6. w \in [1 .. n -> Orders(n)] /\ w[n] = id BY <1>5
<1>7. ASSUME NEW i \in 1 .. n - 1
      PROVE  w[i] = Swapped(w[i + 1], i + 1, f[i + 1]) /\ f[i + 1] \in 1 .. n
             /\ w[i + 1][f[i + 1]] = p[i + 1] /\ w[i + 1] \in Orders(n)
  <2>1. n - i \in 1 .. n - 1 /\ n - i - 1 \in 0 .. n - 1 /\ i + 1 \in 1 .. n
        /\ i + 1 \in 2 .. n /\ i \in 1 .. n
        /\ n - (i + 1) = n - i - 1 /\ n - (n - i) + 1 = i + 1
    OBVIOUS
  <2>2. w[i] = g[n - i] /\ w[i + 1] = g[n - i - 1] BY <2>1
  <2>3. f[i + 1] = Where(w[i + 1], p[i + 1]) BY <2>1
  <2>4. g[n - i] = step[<< g[n - i - 1], n - i >>] /\ g[n - i - 1] \in Orders(n)
    BY <1>5, <2>1
  <2>5. step[<< g[n - i - 1], n - i >>]
          = Swapped(g[n - i - 1], n - (n - i) + 1,
                    Where(g[n - i - 1], p[n - (n - i) + 1]))
    BY <1>3, <2>1, <2>4
  <2> HIDE DEF w, f
  <2>6. w[i] = Swapped(w[i + 1], i + 1, f[i + 1])
    BY <2>1, <2>2, <2>3, <2>4, <2>5
  <2>7. w[i + 1] \in Orders(n) BY <2>2, <2>4
  <2>8. f[i + 1] \in 1 .. n /\ w[i + 1][f[i + 1]] = p[i + 1]
    BY <1>2, <2>1, <2>3, <2>7
  <2> QED BY <2>6, <2>7, <2>8
<1>8. f = [i \in 2 .. n |-> f[i]] OBVIOUS
<1> HIDE DEF w, f
<1> DEFINE P == {i \in 1 .. n : \A k \in i + 1 .. n : w[i][k] = p[k]}
<1>9. ASSUME NEW i \in 1 .. n - 1, i + 1 \in P
      PROVE  f[i + 1] \in 1 .. i + 1 /\ i \in P
  <2>1. i \in 1 .. n /\ i + 1 \in 1 .. n OBVIOUS
  <2>2. \A k \in i + 2 .. n : w[i + 1][k] = p[k]
    <3>1. \A k \in i + 2 .. n : k \in i + 1 + 1 .. n OBVIOUS
    <3> QED BY <1>9, <3>1
  <2>3. f[i + 1] \in 1 .. i + 1
    <3>1. f[i + 1] \in 1 .. n /\ w[i + 1][f[i + 1]] = p[i + 1] BY <1>7
    <3> SUFFICES ASSUME f[i + 1] \in i + 2 .. n PROVE FALSE BY <3>1
    <3>2. p[f[i + 1]] = p[i + 1] /\ f[i + 1] # i + 1 BY <2>2, <3>1
    <3> QED BY <2>1, <3>1, <3>2 DEF Orders
  <2>4. /\ w[i][i + 1] = p[i + 1]
        /\ \A k \in 1 .. n : k # i + 1 /\ k # f[i + 1] => w[i][k] = w[i + 1][k]
    <3>1. /\ w[i + 1] \in Orders(n) /\ f[i + 1] \in 1 .. n
          /\ w[i] = Swapped(w[i + 1], i + 1, f[i + 1])
          /\ w[i + 1][f[i + 1]] = p[i + 1]
      BY <1>7
    <3> QED BY <3>1, RoundKeepsOrder
  <2>5. ASSUME NEW k \in i + 2 .. n PROVE w[i][k] = p[k]
    <3>1. k \in 1 .. n /\ k # i + 1 /\ k # f[i + 1] BY <2>3
    <3>2. w[i][k] = w[i + 1][k] BY <2>4, <3>1
    <3> QED BY <2>2, <3>2
  <2>6. \A k \in i + 1 .. n : k = i + 1 \/ k \in i + 2 .. n OBVIOUS
  <2>7. \A k \in i + 1 .. n : w[i][k] = p[k] BY <2>4, <2>5, <2>6
  <2> QED BY <2>1, <2>3, <2>7
<1>10. \A i \in 1 .. n : i \in P
  <2>1. n \in P OBVIOUS
  <2>2. \A i \in 1 .. n - 1 : i + 1 \in P => i \in P BY <1>9
  <2> HIDE DEF P
  <2> QED BY <2>1, <2>2, CountingDown
<1>11. f \in Choices(n)
  <2>1. ASSUME NEW i \in 2 .. n PROVE f[i] \in 1 .. i
    <3>1. i - 1 \in 1 .. n - 1 /\ i - 1 + 1 = i /\ i \in 1 .. n OBVIOUS
    <3>2. i \in P BY <1>10, <3>1
    <3> HIDE DEF P
    <3>3. i - 1 + 1 \in P BY <3>1, <3>2
    <3>4. f[i - 1 + 1] \in 1 .. i - 1 + 1 BY <1>9, <3>1, <3>3
    <3> QED BY <3>1, <3>4
  <2>2. \A i \in 2 .. n : f[i] \in 1 .. n BY <2>1
  <2> QED BY <1>8, <2>1, <2>2 DEF Choices, Partners
<1>12. Walks(n, f, w) BY <1>6, <1>7 DEF Walks, id
<1>13. PICK v : Walks(n, f, v) /\ Shuffled(n, f) = v[1] BY <1>11, WalkIsTaken
<1>14. 1 \in 1 .. n OBVIOUS
<1>15. Shuffled(n, f) = w[1] BY <1>12, <1>13, <1>14, WalkIsOne
<1>16. w[1] \in Orders(n) BY <1>6, <1>14
<1>17. \A k \in 2 .. n : w[1][k] = p[k]
  <2>1. 1 \in P BY <1>10, <1>14
  <2> QED BY <2>1
<1>18. w[1][1] = p[1]
  <2>1. p[1] \in 1 .. n BY <1>14 DEF Orders
  <2>2. PICK j \in 1 .. n : w[1][j] = p[1] BY <1>16, <2>1, OrdersHaveAll
  <2>3. j = 1
    <3> SUFFICES ASSUME j # 1 PROVE FALSE OBVIOUS
    <3>1. j \in 2 .. n OBVIOUS
    <3>2. p[j] = p[1] BY <1>17, <2>2, <3>1
    <3> QED BY <1>14, <3>2 DEF Orders
  <2> QED BY <2>2, <2>3
<1>19. \A k \in 1 .. n : w[1][k] = p[k]
  <2>1. \A k \in 1 .. n : k = 1 \/ k \in 2 .. n OBVIOUS
  <2> QED BY <1>17, <1>18, <2>1
<1>20. w[1] = p
  <2>1. w[1] \in [1 .. n -> 1 .. n] /\ p \in [1 .. n -> 1 .. n] BY <1>16 DEF Orders
  <2> DEFINE x == w[1]
  <2>2. x \in [1 .. n -> 1 .. n] /\ \A k \in 1 .. n : x[k] = p[k] BY <1>19, <2>1
  <2> HIDE DEF x
  <2>3. x = p BY <2>1, <2>2
  <2> QED BY <2>3 DEF x
<1> QED BY <1>11, <1>15, <1>20

LEMMA ChoicesAreFinite ==
  ASSUME NEW n \in Nat
  PROVE  IsFiniteSet(Choices(n))
<1> DEFINE T == SUBSET ((2 .. n) \X (1 .. n))
           graph == [f \in Choices(n) |-> {<< i, f[i] >> : i \in 2 .. n}]
<1>1. IsFiniteSet(T)
  <2>1. IsFiniteSet(2 .. n) /\ IsFiniteSet(1 .. n) BY FS_Interval
  <2>2. IsFiniteSet((2 .. n) \X (1 .. n)) BY <2>1, FS_Product
  <2> QED BY <2>2, FS_SUBSET
<1>2. graph \in [Choices(n) -> T] BY DEF Choices
<1>3. ASSUME NEW f \in Choices(n), NEW g \in Choices(n), graph[f] = graph[g]
      PROVE  f = g
  <2>1. ASSUME NEW i \in 2 .. n PROVE f[i] = g[i]
    <3>1. << i, f[i] >> \in graph[f] OBVIOUS
    <3>2. << i, f[i] >> \in {<< k, g[k] >> : k \in 2 .. n} BY <1>3, <3>1
    <3> QED BY <3>2
  <2> QED BY <2>1 DEF Choices
<1> HIDE DEF T, graph
<1>4. graph \in Injection(Choices(n), T) BY <1>2, <1>3 DEF Injection, IsInjective
<1> QED BY <1>1, <1>4, FS_Injection

(* The shuffle gives every order of n characters from exactly one row of       *)
(* choices, for every n (the swaps of generatePassword, passwordgen.cpp:120).  *)
THEOREM ShuffleFair == \A n \in Nat \ {0} : FairShuffle(n)
<1> SUFFICES ASSUME NEW n \in Nat \ {0} PROVE FairShuffle(n) OBVIOUS
<1> DEFINE results == {Shuffled(n, f) : f \in Choices(n)}
           map == [f \in Choices(n) |-> Shuffled(n, f)]
<1>1. ASSUME NEW f \in Choices(n) PROVE Shuffled(n, f) \in Orders(n)
  <2>1. PICK w : Walks(n, f, w) /\ Shuffled(n, f) = w[1] BY WalkIsTaken
  <2> QED BY <2>1 DEF Walks
<1>2. results = Orders(n) BY <1>1, OrderIsChosen
<1>3. map \in [Choices(n) -> results] OBVIOUS
<1>4. \A f, g \in Choices(n) : map[f] = map[g] => f = g BY ChoicesTold
<1>5. \A p \in results : \E f \in Choices(n) : map[f] = p OBVIOUS
<1> HIDE DEF map
<1>6. map \in Bijection(Choices(n), results)
  BY <1>3, <1>4, <1>5 DEF Bijection, Injection, Surjection, IsInjective
<1>7. Cardinality(results) = Cardinality(Choices(n))
  BY <1>6, ChoicesAreFinite, FS_Bijection DEF ExistsBijection
<1> QED BY <1>2, <1>7 DEF FairShuffle, Orders

-----------------------------------------------------------------------------
(* The loop of Filtered, round by round.                                     *)
LEMMA FilteredRuns ==
  ASSUME NEW S, NEW s \in Seq(S), NEW T
  PROVE  \E kept : /\ kept[0] = << >>
                   /\ \A k \in 1 .. Len(s) :
                        kept[k] = IF s[k] \in T THEN Append(kept[k - 1], s[k])
                                  ELSE kept[k - 1]
                   /\ Filtered(s, T) = kept[Len(s)]
<1> DEFINE Runs(g) ==
             g = [k \in 0 .. Len(s) |->
                    IF k = 0 THEN << >>
                    ELSE IF s[k] \in T THEN Append(g[k - 1], s[k]) ELSE g[k - 1]]
           step == [p \in Seq(S) \X (1 .. Len(s)) |->
                      IF s[p[2]] \in T THEN Append(p[1], s[p[2]]) ELSE p[1]]
<1>1. Len(s) \in Nat /\ << >> \in Seq(S) OBVIOUS
<1>2. step \in [Seq(S) \X (1 .. Len(s)) -> Seq(S)] OBVIOUS
<1>3. \A r \in Seq(S), k \in 1 .. Len(s) :
        step[<< r, k >>] = IF s[k] \in T THEN Append(r, s[k]) ELSE r
  OBVIOUS
<1> HIDE DEF step
<1>4. PICK f \in [0 .. Len(s) -> Seq(S)] :
        f[0] = << >> /\ \A k \in 1 .. Len(s) : f[k] = step[<< f[k - 1], k >>]
  <2>1. Loop(Len(s), Seq(S), << >>, step) BY <1>1, <1>2, LoopRuns
  <2> QED BY <2>1 DEF Loop
<1>5. \A k \in 1 .. Len(s) :
        f[k] = IF s[k] \in T THEN Append(f[k - 1], s[k]) ELSE f[k - 1]
  <2> TAKE k \in 1 .. Len(s)
  <2>1. k - 1 \in 0 .. Len(s) BY <1>1
  <2>2. f[k - 1] \in Seq(S) BY <2>1
  <2>3. f[k] = step[<< f[k - 1], k >>] BY <1>4
  <2> QED BY <1>3, <2>2, <2>3
<1>6. Runs(f)
  <2>1. \A k \in 0 .. Len(s) :
          f[k] = IF k = 0 THEN << >>
                 ELSE IF s[k] \in T THEN Append(f[k - 1], s[k]) ELSE f[k - 1]
    <3> TAKE k \in 0 .. Len(s)
    <3>1. CASE k = 0 BY <1>4, <3>1
    <3>2. CASE k # 0
      <4>1. k \in 1 .. Len(s) BY <1>1, <3>2
      <4> QED BY <1>5, <3>2, <4>1
    <3> QED BY <3>1, <3>2
  <2> QED BY <2>1
<1> DEFINE kept == CHOOSE g : Runs(g)
<1>7. Runs(kept) BY <1>6
<1>8. Filtered(s, T) = kept[Len(s)] BY DEF Filtered
<1> HIDE DEF kept
<1>9. kept[0] = << >> BY <1>1, <1>7
<1>10. \A k \in 1 .. Len(s) :
         kept[k] = IF s[k] \in T THEN Append(kept[k - 1], s[k]) ELSE kept[k - 1]
  <2> TAKE k \in 1 .. Len(s)
  <2>1. k \in 0 .. Len(s) /\ k # 0 BY <1>1
  <2> QED BY <1>7, <2>1
<1> QED BY <1>8, <1>9, <1>10

(* What is kept is in the set, all that is in the set is kept, and a first    *)
(* element that is kept comes first.                                         *)
Keeps(r, s, T) ==
  /\ \A i \in 1 .. Len(r) : r[i] \in T /\ \E j \in 1 .. Len(s) : r[i] = s[j]
  /\ \A j \in 1 .. Len(s) : s[j] \in T => \E i \in 1 .. Len(r) : r[i] = s[j]
  /\ s # << >> /\ s[1] \in T => r # << >> /\ r[1] = s[1]

LEMMA FilteredKeeps ==
  ASSUME NEW S, NEW s, NEW T, s \in Seq(S)
  PROVE  Filtered(s, T) \in Seq(S) /\ Keeps(Filtered(s, T), s, T)
<1>1. PICK kept :
        /\ kept[0] = << >>
        /\ \A k \in 1 .. Len(s) :
             kept[k] = IF s[k] \in T THEN Append(kept[k - 1], s[k]) ELSE kept[k - 1]
        /\ Filtered(s, T) = kept[Len(s)]
  BY FilteredRuns
<1> DEFINE Has(r, k) == \A j \in 1 .. k : s[j] \in T => \E i \in 1 .. Len(r) : r[i] = s[j]
           Only(r, k) == \A i \in 1 .. Len(r) :
                           r[i] \in T /\ \E j \in 1 .. k : r[i] = s[j]
           Good(k) == /\ kept[k] \in Seq(S) /\ Only(kept[k], k) /\ Has(kept[k], k)
                      /\ k >= 1 /\ s[1] \in T => kept[k] # << >> /\ kept[k][1] = s[1]
           P == {k \in 0 .. Len(s) : Good(k)}
<1>2. Good(0)
  <2>1. kept[0] \in Seq(S) /\ Len(kept[0]) = 0 BY <1>1
  <2> QED BY <2>1
<1>3. ASSUME NEW k \in 0 .. Len(s) - 1, Good(k) PROVE Good(k + 1)
  <2>1. k + 1 \in 1 .. Len(s) /\ s[k + 1] \in S /\ (k + 1) - 1 = k /\ k \in Nat OBVIOUS
  <2> DEFINE r == kept[k]
             q == kept[k + 1]
  <2>2. r \in Seq(S) /\ Only(r, k) /\ Has(r, k) BY <1>3
  <2>3. \A j \in 1 .. k + 1 : j \in 1 .. k \/ j = k + 1 BY <2>1
  <2>4. \A j \in 1 .. k : j \in 1 .. k + 1 BY <2>1
  <2>5. CASE s[k + 1] \in T
    <3>1. q = Append(r, s[k + 1]) BY <1>1, <2>1, <2>5
    <3>2. /\ q \in Seq(S) /\ Len(q) = Len(r) + 1 /\ Len(r) \in Nat
          /\ \A i \in 1 .. Len(r) : q[i] = r[i]
          /\ q[Len(r) + 1] = s[k + 1]
      BY <2>1, <2>2, <3>1, AppendProperties
    <3>3. k = 0 => Len(r) = 0 BY <1>1
    <3>4. k >= 1 /\ s[1] \in T => r # << >> /\ r[1] = s[1] BY <1>3
    <3>5. r # << >> => Len(r) >= 1 BY <2>2
    <3>6. k + 1 \in 1 .. k + 1 /\ Len(r) + 1 \in 1 .. Len(q) BY <2>1, <3>2
    <3> HIDE DEF r, q
    <3>7. Only(q, k + 1)
      <4> SUFFICES ASSUME NEW i \in 1 .. Len(q)
                   PROVE  q[i] \in T /\ \E j \in 1 .. k + 1 : q[i] = s[j]
        OBVIOUS
      <4>1. i \in 1 .. Len(r) \/ i = Len(r) + 1 BY <3>2
      <4>2. CASE i \in 1 .. Len(r) BY <2>2, <2>4, <3>2, <4>2
      <4>3. CASE i = Len(r) + 1 BY <2>5, <3>2, <3>6, <4>3
      <4> QED BY <4>1, <4>2, <4>3
    <3>8. Has(q, k + 1) BY <2>2, <2>3, <3>2, <3>6
    <3>9. q # << >> BY <3>2
    <3>10. s[1] \in T => q[1] = s[1]
      <4>1. CASE k = 0 BY <3>2, <3>3, <4>1
      <4>2. CASE k # 0 BY <2>1, <3>2, <3>4, <3>5, <4>2
      <4> QED BY <4>1, <4>2
    <3> QED BY <3>2, <3>7, <3>8, <3>9, <3>10 DEF q
  <2>6. CASE s[k + 1] \notin T
    <3>1. q = r BY <1>1, <2>1, <2>6
    <3>2. Only(r, k + 1) BY <2>2, <2>4
    <3>3. Has(r, k + 1) BY <2>2, <2>3, <2>6
    <3>4. s[1] \in T => k >= 1 BY <2>1, <2>6
    <3>5. s[1] \in T => r # << >> /\ r[1] = s[1] BY <1>3, <3>4
    <3> HIDE DEF r, Only, Has
    <3>6. q \in Seq(S) /\ Only(q, k + 1) /\ Has(q, k + 1)
      BY <2>2, <3>1, <3>2, <3>3
    <3>7. s[1] \in T => q # << >> /\ q[1] = s[1] BY <3>1, <3>5
    <3> QED BY <3>6, <3>7
  <2> QED BY <2>5, <2>6
<1>4. Good(Len(s))
  <2> HIDE DEF Good
  <2>1. Len(s) \in Nat OBVIOUS
  <2>2. 0 \in P BY <1>2, <2>1
  <2>3. \A k \in 0 .. Len(s) - 1 : k \in P => k + 1 \in P BY <1>3, <2>1
  <2>4. \A k \in 0 .. Len(s) : k \in P BY <2>1, <2>2, <2>3, CountingTo
  <2> QED BY <2>1, <2>4
<1>5. s # << >> => Len(s) >= 1 OBVIOUS
<1> QED BY <1>1, <1>4, <1>5 DEF Keeps

-----------------------------------------------------------------------------
(* Answers to a login.  Of the entries of a demand those that count are the   *)
(* ones with an id.                                                          *)
LEMMA CountsIds ==
  ASSUME NEW e, IsEntry(e)
  PROVE  /\ Tokens!Counts(e) => e.value \in Nat
         /\ e.value \in Nat => Tokens!Counts(e)
<1>1. e.value \in Nat \cup {NoNumber} /\ NoNumber \notin Nat
  BY TokenAssumption DEF IsEntry, Entry
<1>2. CASE e.kind = "number"
  <2>1. Tokens!Counts(e) <=> e.value # NoNumber /\ e.value >= 0
    BY <1>2 DEF Tokens!Counts
  <2> QED BY <1>1, <2>1
<1>3. CASE e.kind = "string"
  <2>1. Tokens!Counts(e) <=> e.value # NoNumber BY <1>3 DEF Tokens!Counts
  <2> QED BY <1>1, <2>1
<1>4. CASE e.kind \notin {"number", "string"}
  <2>1. e.value = NoNumber BY <1>4 DEF IsEntry
  <2>2. ~Tokens!Counts(e) BY <1>4 DEF Tokens!Counts
  <2> QED BY <1>1, <2>1, <2>2
<1> QED BY <1>2, <1>3, <1>4

(* The providers are the ids named, each of them, in a sequence.              *)
LEMMA ProvidersAreNamed ==
  ASSUME NEW i \in Inputs.token, Tokens!Challenge(i.of)
  PROVE  LET providers == Tokens!Providers(i.of) IN
         /\ Len(providers) \in Nat /\ DOMAIN providers = 1 .. Len(providers)
         /\ \A k \in 1 .. Len(providers) : providers[k] \in Tokens!Named(i.of)
         /\ \A p \in Tokens!Named(i.of) : \E k \in 1 .. Len(providers) : providers[k] = p
<1> DEFINE entries == i.of["twoFactorProviders"]
           T == {entries[k] : k \in {j \in DOMAIN entries : Tokens!Counts(entries[j])}}
           kept == Tokens!Filtered(entries, T)
<1>1. entries \in Seq(Entry) /\ \A k \in DOMAIN entries : IsEntry(entries[k])
  BY TokenAssumption
<1>2. kept = Filtered(entries, T) BY DEF Filtered, Tokens!Filtered
<1>3. Tokens!Providers(i.of) = [k \in DOMAIN kept |-> kept[k].value]
  BY DEF Tokens!Providers
<1>4. Tokens!Named(i.of) = {e.value : e \in {entries[k] : k \in DOMAIN entries}} \cap Nat
  BY DEF Tokens!Named
<1>5. DOMAIN entries = 1 .. Len(entries) BY <1>1
<1>6. \A j \in DOMAIN entries : entries[j] \in T <=> Tokens!Counts(entries[j]) OBVIOUS
<1> HIDE DEF entries, T, kept
<1>7. /\ kept \in Seq(Entry)
      /\ \A k \in 1 .. Len(kept) :
           kept[k] \in T /\ \E j \in 1 .. Len(entries) : kept[k] = entries[j]
      /\ \A j \in 1 .. Len(entries) :
           entries[j] \in T => \E k \in 1 .. Len(kept) : kept[k] = entries[j]
  <2>1. kept \in Seq(Entry) /\ Keeps(kept, entries, T) BY <1>1, <1>2, FilteredKeeps
  <2> QED BY <2>1 DEF Keeps
<1> DEFINE providers == Tokens!Providers(i.of)
<1>8. Len(kept) \in Nat /\ DOMAIN kept = 1 .. Len(kept) BY <1>7
<1>9. Len(providers) = Len(kept) /\ DOMAIN providers = 1 .. Len(kept)
      /\ \A k \in 1 .. Len(kept) : providers[k] = kept[k].value
  BY <1>3, <1>8
<1>10. ASSUME NEW k \in 1 .. Len(kept) PROVE kept[k].value \in Tokens!Named(i.of)
  <2>1. PICK j \in 1 .. Len(entries) : kept[k] = entries[j] BY <1>7
  <2>2. IsEntry(entries[j]) /\ Tokens!Counts(entries[j]) BY <1>1, <1>5, <1>6, <1>7, <2>1
  <2>3. entries[j].value \in Nat BY <2>2, CountsIds
  <2> QED BY <1>4, <1>5, <2>1, <2>3
<1>11. ASSUME NEW p \in Tokens!Named(i.of)
       PROVE  \E k \in 1 .. Len(kept) : kept[k].value = p
  <2>1. PICK j \in 1 .. Len(entries) : p = entries[j].value BY <1>4, <1>5
  <2>2. IsEntry(entries[j]) /\ p \in Nat BY <1>1, <1>4, <1>5
  <2>3. Tokens!Counts(entries[j]) BY <2>1, <2>2, CountsIds
  <2>4. entries[j] \in T BY <1>5, <1>6, <2>3
  <2>5. PICK k \in 1 .. Len(kept) : kept[k] = entries[j] BY <1>7, <2>4
  <2> QED BY <2>1, <2>5
<1> HIDE DEF providers
<1>12. \A k \in 1 .. Len(providers) : providers[k] \in Tokens!Named(i.of)
  BY <1>9, <1>10
<1>13. \A p \in Tokens!Named(i.of) : \E k \in 1 .. Len(providers) : providers[k] = p
  BY <1>9, <1>11
<1> QED BY <1>8, <1>9, <1>12, <1>13 DEF providers

(* What is selected on the page is one of the ids named.                     *)
LEMMA SelectedIsNamed ==
  ASSUME NEW i \in Inputs.token, Tokens!Challenge(i.of), Tokens!Named(i.of) # {},
         NEW p \in Tokens!Selectable(Tokens!Providers(i.of))
  PROVE  p \in Tokens!Named(i.of)
<1> DEFINE providers == Tokens!Providers(i.of)
           Named == Tokens!Named(i.of)
<1>1. /\ Len(providers) \in Nat /\ DOMAIN providers = 1 .. Len(providers)
      /\ \A k \in 1 .. Len(providers) : providers[k] \in Named
      /\ \A q \in Named : \E k \in 1 .. Len(providers) : providers[k] = q
  BY ProvidersAreNamed
<1>2. Len(providers) >= 1 BY <1>1
<1>3. p = Tokens!Default(providers) \/ \E k \in DOMAIN providers : p = providers[k]
  BY DEF Tokens!Selectable
<1>4. Tokens!Default(providers) \in Named
  <2>1. providers # << >> BY <1>2
  <2>2. CASE \E k \in DOMAIN providers : providers[k] = Tokens!Authenticator
    <3>1. Tokens!Default(providers) = Tokens!Authenticator BY <2>2 DEF Tokens!Default
    <3> QED BY <1>1, <2>2, <3>1
  <2>3. CASE ~\E k \in DOMAIN providers : providers[k] = Tokens!Authenticator
    <3>1. Tokens!Default(providers) = providers[1] BY <2>1, <2>3 DEF Tokens!Default
    <3>2. 1 \in 1 .. Len(providers) BY <1>1, <1>2
    <3> QED BY <1>1, <3>1, <3>2
  <2> QED BY <2>2, <2>3
<1> QED BY <1>1, <1>3, <1>4

LEMMA ChallengeIsMet ==
  ASSUME NEW i \in Inputs.token
  PROVE  Tokens!ChallengeMet(i.status, i.of)
<1> DEFINE outcome == Tokens!LoginOutcome(i.status, i.of)
<1>1. ASSUME i.status # 200, Tokens!Challenge(i.of)
      PROVE  /\ outcome.state = "twofactor"
             /\ outcome.providers = Tokens!Providers(i.of)
  <2>1. outcome = [state |-> "twofactor", providers |-> Tokens!Providers(i.of)]
    BY <1>1 DEF Tokens!LoginOutcome
  <2> QED BY <2>1
<1>2. ASSUME NEW p \in Tokens!Named(i.of)
      PROVE  Tokens!TwoFactorFields(p, "code")
               = [twoFactorProvider |-> p, twoFactorToken |-> "code"]
  <2>1. p \in Nat BY DEF Tokens!Named
  <2> QED BY <2>1 DEF Tokens!TwoFactorFields
<1>3. ASSUME outcome.state = "login" PROVE outcome.error # NoText
  <2>1. CASE i.status = 200 /\ Tokens!ParsesAsToken(i.of)
    <3>1. outcome = [state |-> "syncing"] BY <2>1 DEF Tokens!LoginOutcome
    <3> QED BY <1>3, <3>1
  <2>2. CASE i.status = 200 /\ ~Tokens!ParsesAsToken(i.of)
    <3>1. outcome = [state |-> "login", error |-> "token: missing access_token"]
      BY <2>2 DEF Tokens!LoginOutcome
    <3>2. NoText # "token: missing access_token" BY TokenAssumption
    <3> HIDE DEF outcome
    <3> QED BY <3>1, <3>2
  <2>3. CASE i.status # 200 /\ Tokens!Challenge(i.of) BY <1>1, <1>3, <2>3
  <2>4. CASE i.status # 200 /\ ~Tokens!Challenge(i.of)
    <3>1. outcome = [state |-> "login", error |-> Tokens!Message(i.status, i.of)]
      BY <2>4 DEF Tokens!LoginOutcome
    <3>2. HttpText(i.status) # NoText BY TokenAssumption
    <3>3. Tokens!Message(i.status, i.of) # NoText
      BY <3>2 DEF Tokens!Message, Tokens!Or
    <3> QED BY <3>1, <3>3
  <2> QED BY <2>1, <2>2, <2>3, <2>4
<1> HIDE DEF outcome
<1> QED BY <1>1, <1>2, <1>3, SelectedIsNamed DEF Tokens!ChallengeMet, outcome

-----------------------------------------------------------------------------
(* The KDF parameters of an answer.  A number the bounds let through after    *)
(* the cast to unsigned is the one the server wrote.                         *)
LEMMA CastIsExact ==
  ASSUME NEW n, Integer(n), NEW max \in Nat, 2 * max < UIntSize,
         Forms!Unsigned(Forms!ToInt(n, 0)) # 0,
         ~(Forms!Unsigned(Forms!ToInt(n, 0)) > max)
  PROVE  n \in 1 .. max /\ Forms!Unsigned(Forms!ToInt(n, 0)) = n
<1> USE BoundsAssumption
<1>1. n # NoInt
  <2> SUFFICES ASSUME n = NoInt PROVE FALSE OBVIOUS
  <2>1. Forms!ToInt(n, 0) = 0 BY DEF Forms!ToInt
  <2>2. 0 % UIntSize = 0 OBVIOUS
  <2> QED BY <2>1, <2>2 DEF Forms!Unsigned
<1>2. n \in Int /\ -UIntSize <= 2 * n /\ 2 * n < UIntSize BY <1>1 DEF Integer
<1>3. Forms!Unsigned(Forms!ToInt(n, 0)) = n % UIntSize
  BY <1>1 DEF Forms!ToInt, Forms!Unsigned
<1>4. CASE n >= 0
  <2>1. n % UIntSize = n BY <1>2, <1>4
  <2> QED BY <1>2, <1>3, <1>4, <2>1
<1>5. CASE n < 0
  <2>1. n % UIntSize = n + UIntSize
    <3>1. n + UIntSize \in 0 .. UIntSize - 1 BY <1>2, <1>5
    <3>2. (UIntSize * (-1) + (n + UIntSize)) % UIntSize = n + UIntSize
      BY <3>1, Remainder
    <3> QED BY <1>2, <3>2
  <2> QED BY <1>2, <1>3, <1>5, <2>1
<1> QED BY <1>2, <1>4, <1>5

LEMMA DerivationIsBounded ==
  ASSUME NEW i \in Inputs.prelogin
  PROVE  Forms!DerivationBounded(i.of)
<1> DEFINE answer  == i.of
           params  == Forms!ParsePrelogin(answer)
           derived == Forms!DeriveMasterKey(1, 1, params)
           count   == Forms!Unsigned(Forms!ToInt(answer.kdfIterations, 0))
           memory  == Forms!Unsigned(Forms!ToInt(answer.kdfMemory, 0))
           lanes   == Forms!Unsigned(Forms!ToInt(answer.kdfParallelism, 0))
<1> SUFFICES ASSUME params # Refused, derived # Refused
             PROVE  /\ derived.iterations = answer.kdfIterations
                    /\ IF params.type = 0
                       THEN derived.iterations \in 1 .. MaxPbkdf2Iterations
                       ELSE /\ Forms!WithinBounds(derived)
                            /\ derived.memoryKiB = 1024 * answer.kdfMemory
                            /\ derived.parallelism = answer.kdfParallelism
  BY DEF Forms!DerivationBounded
<1>1. Integer(answer.kdfIterations) /\ Integer(answer.kdfMemory)
      /\ Integer(answer.kdfParallelism)
  BY PreloginAssumption
<1>2. Forms!ToInt(answer.kdf, -1) \in {0, 1}
      /\ params = [type |-> Forms!ToInt(answer.kdf, -1), iterations |-> count,
                   memoryMiB |-> memory, parallelism |-> lanes]
  BY DEF Forms!ParsePrelogin
<1>3. params.type \in {0, 1} /\ params.iterations = count
      /\ params.memoryMiB = memory /\ params.parallelism = lanes
  <2> HIDE DEF params, count, memory, lanes
  <2> QED BY <1>2
<1> HIDE DEF params
<1>4. CASE params.type = 0
  <2>1. derived = Forms!Pbkdf2Sha256(count)
    BY <1>3, <1>4 DEF Forms!DeriveMasterKey
  <2>2. count # 0 /\ ~(count > MaxPbkdf2Iterations)
        /\ derived = [iterations |-> count]
    BY <2>1 DEF Forms!Pbkdf2Sha256
  <2>3. derived.iterations = count
    <3> HIDE DEF derived, count
    <3> QED BY <2>2
  <2> HIDE DEF derived
  <2>4. 2 * MaxPbkdf2Iterations < UIntSize /\ MaxPbkdf2Iterations \in Nat
    BY BoundsAssumption
  <2>5. answer.kdfIterations \in 1 .. MaxPbkdf2Iterations /\ count = answer.kdfIterations
    BY <1>1, <2>2, <2>4, CastIsExact
  <2> QED BY <1>4, <2>3, <2>5
<1>5. CASE params.type = 1
  <2>1. derived = Forms!Argon2id(count, memory, lanes)
    BY <1>3, <1>5 DEF Forms!DeriveMasterKey
  <2>2. /\ count # 0 /\ ~(count > MaxArgon2Iterations)
        /\ memory # 0 /\ ~(memory > MaxArgon2MemoryMiB)
        /\ lanes # 0 /\ ~(lanes > MaxArgon2Parallelism)
        /\ derived = [iterations |-> count, memoryKiB |-> Forms!Unsigned(memory * 1024),
                      parallelism |-> lanes]
    BY <2>1 DEF Forms!Argon2id
  <2>3. /\ derived.iterations = count /\ derived.parallelism = lanes
        /\ derived.memoryKiB = Forms!Unsigned(memory * 1024)
    <3> HIDE DEF derived, count, memory, lanes
    <3> QED BY <2>2
  <2> HIDE DEF derived
  <2>4. /\ MaxArgon2Iterations \in Nat /\ MaxArgon2MemoryMiB \in Nat
        /\ MaxArgon2Parallelism \in Nat /\ UIntSize \in Nat
        /\ 2 * MaxArgon2Iterations < UIntSize /\ 2 * MaxArgon2Parallelism < UIntSize
        /\ 2 * (1024 * MaxArgon2MemoryMiB) < UIntSize
    BY BoundsAssumption
  <2>5. 2 * MaxArgon2MemoryMiB < UIntSize BY <2>4
  <2>6. answer.kdfIterations \in 1 .. MaxArgon2Iterations /\ count = answer.kdfIterations
    BY <1>1, <2>2, <2>4, CastIsExact
  <2>7. answer.kdfMemory \in 1 .. MaxArgon2MemoryMiB /\ memory = answer.kdfMemory
    BY <1>1, <2>2, <2>4, <2>5, CastIsExact
  <2>8. answer.kdfParallelism \in 1 .. MaxArgon2Parallelism
        /\ lanes = answer.kdfParallelism
    BY <1>1, <2>2, <2>4, CastIsExact
  <2> HIDE DEF count, memory, lanes, answer
  <2>9. Forms!Unsigned(memory * 1024) = 1024 * answer.kdfMemory
    BY <2>4, <2>7 DEF Forms!Unsigned
  <2>10. (1024 * answer.kdfMemory) \div 1024 = answer.kdfMemory
         /\ (1024 * answer.kdfMemory) % 1024 = 0
    BY <2>4, <2>7
  <2>11. Forms!WithinBounds(derived)
    BY <2>3, <2>6, <2>7, <2>8, <2>9, <2>10 DEF Forms!WithinBounds
  <2> QED BY <1>5, <2>3, <2>6, <2>8, <2>9, <2>11
<1> QED BY <1>3, <1>4, <1>5

-----------------------------------------------------------------------------
(* Encodings.  A number from its digits, round by round.                     *)
LEMMA JoinedRuns ==
  ASSUME NEW base \in Nat, NEW v \in Nat, NEW d \in [1 .. v -> Nat]
  PROVE  \E number \in [0 .. v -> Nat] :
           /\ number[0] = 0
           /\ \A k \in 1 .. v : number[k] = base * number[k - 1] + d[k]
           /\ Codes!Joined(base, d) = number[v]
<1> DEFINE Runs(x) == x = [k \in 0 .. v |-> IF k = 0 THEN 0 ELSE base * x[k - 1] + d[k]]
           step == [p \in Nat \X (1 .. v) |-> base * p[1] + d[p[2]]]
<1>1. Len(d) = v OBVIOUS
<1>2. step \in [Nat \X (1 .. v) -> Nat]
  <2>1. \A p \in Nat \X (1 .. v) : base * p[1] + d[p[2]] \in Nat
    <3> TAKE p \in Nat \X (1 .. v)
    <3>1. p[1] \in Nat /\ d[p[2]] \in Nat OBVIOUS
    <3>2. base * p[1] \in Nat BY <3>1
    <3> QED BY <3>1, <3>2
  <2> QED BY <2>1
<1>3. \A n \in Nat, k \in 1 .. v : step[<< n, k >>] = base * n + d[k] OBVIOUS
<1> HIDE DEF step
<1>4. PICK f \in [0 .. v -> Nat] :
        f[0] = 0 /\ \A k \in 1 .. v : f[k] = step[<< f[k - 1], k >>]
  <2>1. Loop(v, Nat, 0, step) BY <1>2, LoopRuns
  <2> QED BY <2>1 DEF Loop
<1>5. \A k \in 1 .. v : f[k] = base * f[k - 1] + d[k]
  <2> TAKE k \in 1 .. v
  <2>1. f[k - 1] \in Nat BY <1>4
  <2> QED BY <1>3, <1>4, <2>1
<1>6. Runs(f) BY <1>4, <1>5
<1> DEFINE number == CHOOSE x : Runs(x)
<1>7. Runs(number) BY <1>6
<1>8. Codes!Joined(base, d) = number[v] BY <1>1 DEF Codes!Joined
<1> HIDE DEF number
<1>9. number[0] = 0 /\ \A k \in 1 .. v : number[k] = base * number[k - 1] + d[k]
  BY <1>7
<1> DEFINE P == {k \in 0 .. v : number[k] = f[k]}
<1>10. 0 \in P BY <1>4, <1>9
<1>11. \A k \in 0 .. v - 1 : k \in P => k + 1 \in P
  <2> TAKE k \in 0 .. v - 1
  <2> HAVE k \in P
  <2>1. k + 1 \in 1 .. v /\ k + 1 - 1 = k OBVIOUS
  <2>2. number[k + 1] = base * number[k] + d[k + 1] BY <1>9, <2>1
  <2>3. f[k + 1] = base * f[k] + d[k + 1] BY <1>5, <2>1
  <2> QED BY <2>1, <2>2, <2>3
<1> HIDE DEF P
<1>12. \A k \in 0 .. v : k \in P BY <1>10, <1>11, CountingTo
<1>13. number[v] = f[v] BY <1>12 DEF P
<1> QED BY <1>4, <1>5, <1>8, <1>13

(* Powers of two, and a number below 256 from its bits.                      *)
LEMMA PowersOfTwo ==
  /\ 2 ^ 0 = 1 /\ 2 ^ 1 = 2 /\ 2 ^ 2 = 4 /\ 2 ^ 3 = 8
  /\ 2 ^ 4 = 16 /\ 2 ^ 5 = 32 /\ 2 ^ 6 = 64 /\ 2 ^ 7 = 128
<1>1. 2 ^ 0 = 1 OBVIOUS
<1>2. 2 ^ 1 = 2 OBVIOUS
<1>3. 2 ^ 2 = 4 OBVIOUS
<1>4. 2 ^ 3 = 8 OBVIOUS
<1>5. 2 ^ 4 = 16 OBVIOUS
<1>6. 2 ^ 5 = 32 OBVIOUS
<1>7. 2 ^ 6 = 64 OBVIOUS
<1>8. 2 ^ 7 = 128 OBVIOUS
<1> QED BY <1>1, <1>2, <1>3, <1>4, <1>5, <1>6, <1>7, <1>8, Zenon

LEMMA FourBits ==
  ASSUME NEW b \in [1 .. 4 -> 0 .. 1]
  PROVE  Codes!Joined(2, b) = 8 * b[1] + 4 * b[2] + 2 * b[3] + b[4]
<1>1. b \in [1 .. 4 -> Nat] /\ 2 \in Nat /\ 4 \in Nat OBVIOUS
<1>2. PICK number \in [0 .. 4 -> Nat] :
        /\ number[0] = 0 /\ \A k \in 1 .. 4 : number[k] = 2 * number[k - 1] + b[k]
        /\ Codes!Joined(2, b) = number[4]
  BY <1>1, JoinedRuns, Zenon
<1>3. /\ b[1] \in 0 .. 1 /\ b[2] \in 0 .. 1 /\ b[3] \in 0 .. 1 /\ b[4] \in 0 .. 1
  OBVIOUS
<1>4. /\ number[1] = 2 * number[0] + b[1] /\ number[2] = 2 * number[1] + b[2]
      /\ number[3] = 2 * number[2] + b[3] /\ number[4] = 2 * number[3] + b[4]
  BY <1>2
<1>5. number[1] = b[1] BY <1>2, <1>3, <1>4
<1>6. number[2] = 2 * b[1] + b[2]
  BY <1>3, <1>4, <1>5
<1>7. number[3] = 4 * b[1] + 2 * b[2] + b[3]
  BY <1>3, <1>4, <1>6
<1>8. number[4] = 8 * b[1] + 4 * b[2] + 2 * b[3] + b[4]
  BY <1>3, <1>4, <1>7
<1> QED BY <1>2, <1>8, Zenon

LEMMA SixBits ==
  ASSUME NEW b \in [1 .. 6 -> 0 .. 1]
  PROVE  Codes!Joined(2, b) = 32 * b[1] + 16 * b[2] + 8 * b[3]
                            + 4 * b[4] + 2 * b[5] + b[6]
<1>1. b \in [1 .. 6 -> Nat] /\ 2 \in Nat /\ 6 \in Nat OBVIOUS
<1>2. PICK number \in [0 .. 6 -> Nat] :
        /\ number[0] = 0 /\ \A k \in 1 .. 6 : number[k] = 2 * number[k - 1] + b[k]
        /\ Codes!Joined(2, b) = number[6]
  BY <1>1, JoinedRuns, Zenon
<1>3. /\ b[1] \in 0 .. 1 /\ b[2] \in 0 .. 1 /\ b[3] \in 0 .. 1 /\ b[4] \in 0 .. 1
      /\ b[5] \in 0 .. 1 /\ b[6] \in 0 .. 1
  OBVIOUS
<1>4. /\ number[1] = 2 * number[0] + b[1] /\ number[2] = 2 * number[1] + b[2]
      /\ number[3] = 2 * number[2] + b[3] /\ number[4] = 2 * number[3] + b[4]
      /\ number[5] = 2 * number[4] + b[5] /\ number[6] = 2 * number[5] + b[6]
  BY <1>2
<1>5. number[1] = b[1] BY <1>2, <1>3, <1>4
<1>6. number[2] = 2 * b[1] + b[2]
  BY <1>3, <1>4, <1>5
<1>7. number[3] = 4 * b[1] + 2 * b[2] + b[3]
  BY <1>3, <1>4, <1>6
<1>8. number[4] = 8 * b[1] + 4 * b[2] + 2 * b[3] + b[4]
  BY <1>3, <1>4, <1>7
<1>9. number[5] = 16 * b[1] + 8 * b[2] + 4 * b[3] + 2 * b[4] + b[5]
  BY <1>3, <1>4, <1>8
<1>10. number[6] = 32 * b[1] + 16 * b[2] + 8 * b[3] + 4 * b[4] + 2 * b[5] + b[6]
  BY <1>3, <1>4, <1>9
<1> QED BY <1>2, <1>10, Zenon

LEMMA EightBits ==
  ASSUME NEW b \in [1 .. 8 -> 0 .. 1]
  PROVE  Codes!Joined(2, b) = 128 * b[1] + 64 * b[2] + 32 * b[3] + 16 * b[4]
                            + 8 * b[5] + 4 * b[6] + 2 * b[7] + b[8]
<1>1. b \in [1 .. 8 -> Nat] /\ 2 \in Nat /\ 8 \in Nat OBVIOUS
<1>2. PICK number \in [0 .. 8 -> Nat] :
        /\ number[0] = 0 /\ \A k \in 1 .. 8 : number[k] = 2 * number[k - 1] + b[k]
        /\ Codes!Joined(2, b) = number[8]
  BY <1>1, JoinedRuns, Zenon
<1>3. /\ b[1] \in 0 .. 1 /\ b[2] \in 0 .. 1 /\ b[3] \in 0 .. 1 /\ b[4] \in 0 .. 1
      /\ b[5] \in 0 .. 1 /\ b[6] \in 0 .. 1 /\ b[7] \in 0 .. 1 /\ b[8] \in 0 .. 1
  OBVIOUS
<1>4. /\ number[1] = 2 * number[0] + b[1] /\ number[2] = 2 * number[1] + b[2]
      /\ number[3] = 2 * number[2] + b[3] /\ number[4] = 2 * number[3] + b[4]
      /\ number[5] = 2 * number[4] + b[5] /\ number[6] = 2 * number[5] + b[6]
      /\ number[7] = 2 * number[6] + b[7] /\ number[8] = 2 * number[7] + b[8]
  BY <1>2
<1>5. number[1] = b[1] BY <1>2, <1>3, <1>4
<1>6. number[2] = 2 * b[1] + b[2]
  BY <1>3, <1>4, <1>5
<1>7. number[3] = 4 * b[1] + 2 * b[2] + b[3]
  BY <1>3, <1>4, <1>6
<1>8. number[4] = 8 * b[1] + 4 * b[2] + 2 * b[3] + b[4]
  BY <1>3, <1>4, <1>7
<1>9. number[5] = 16 * b[1] + 8 * b[2] + 4 * b[3] + 2 * b[4] + b[5]
  BY <1>3, <1>4, <1>8
<1>10. number[6] = 32 * b[1] + 16 * b[2] + 8 * b[3] + 4 * b[4] + 2 * b[5] + b[6]
  BY <1>3, <1>4, <1>9
<1>11. number[7] = 64 * b[1] + 32 * b[2] + 16 * b[3] + 8 * b[4]
                  + 4 * b[5] + 2 * b[6] + b[7]
  BY <1>3, <1>4, <1>10
<1>12. number[8] = 128 * b[1] + 64 * b[2] + 32 * b[3] + 16 * b[4]
                  + 8 * b[5] + 4 * b[6] + 2 * b[7] + b[8]
  BY <1>3, <1>4, <1>11
<1> QED BY <1>2, <1>12, Zenon

(* The row of bits of s: bit j of number i + 1, and zeros beyond the last.    *)
Width == {4, 5, 6, 8}
BitOf(x, w, j) == (x \div 2 ^ ((w - 1) - j)) % 2

LEMMA PowerOfBit ==
  ASSUME NEW w \in Width, NEW j \in 0 .. w - 1
  PROVE  2 ^ ((w - 1) - j) \in Nat \ {0}
<1>1. (w - 1) - j \in 0 .. 7 BY DEF Width
<1> DEFINE e == (w - 1) - j
<1>2. 2 ^ e \in Nat \ {0}
  <2>1. e = 0 \/ e = 1 \/ e = 2 \/ e = 3 \/ e = 4 \/ e = 5 \/ e = 6 \/ e = 7 BY <1>1
  <2> HIDE DEF e
  <2>2. 2 ^ e \in {1, 2, 4, 8, 16, 32, 64, 128}
    <3>1. CASE e = 0 BY <3>1, PowersOfTwo, Zenon
    <3>2. CASE e = 1 BY <3>2, PowersOfTwo, Zenon
    <3>3. CASE e = 2 BY <3>3, PowersOfTwo, Zenon
    <3>4. CASE e = 3 BY <3>4, PowersOfTwo, Zenon
    <3>5. CASE e = 4 BY <3>5, PowersOfTwo, Zenon
    <3>6. CASE e = 5 BY <3>6, PowersOfTwo, Zenon
    <3>7. CASE e = 6 BY <3>7, PowersOfTwo, Zenon
    <3>8. CASE e = 7 BY <3>8, PowersOfTwo, Zenon
    <3> QED BY <2>1, <3>1, <3>2, <3>3, <3>4, <3>5, <3>6, <3>7, <3>8, Zenon
  <2> QED BY <2>2
<1> QED BY <1>2 DEF e

LEMMA BitIsBinary ==
  ASSUME NEW w \in Width, NEW j \in 0 .. w - 1, NEW x \in Nat
  PROVE  BitOf(x, w, j) \in 0 .. 1
<1> DEFINE e == (w - 1) - j
<1>1. 2 ^ e \in Nat \ {0} BY PowerOfBit
<1>2. x \div 2 ^ e \in Nat
  <2> DEFINE p == 2 ^ e
  <2> HIDE DEF p, e
  <2>1. p \in Nat \ {0} BY <1>1 DEF p
  <2>2. x \div p \in Nat BY <2>1, Division
  <2> QED BY <2>2 DEF p
<1> DEFINE q == x \div 2 ^ e
<1>3. BitOf(x, w, j) = q % 2 BY DEF BitOf
<1>4. q \in Nat BY <1>2
<1> HIDE DEF q
<1> QED BY <1>3, <1>4

LEMMA BitInside ==
  ASSUME NEW w \in Width, NEW n \in Nat, NEW s \in [1 .. n -> Nat],
         NEW i \in 0 .. n - 1, NEW j \in 0 .. w - 1
  PROVE  Codes!Bit(s, w, w * i + j) = BitOf(s[i + 1], w, j)
<1>1. Len(s) = n OBVIOUS
<1> DEFINE k == w * i + j
<1>2. k \div w = i /\ k % w = j /\ ~(k >= w * n)
  BY DEF Width
<1> QED BY <1>1, <1>2 DEF Codes!Bit, BitOf

LEMMA BitOutside ==
  ASSUME NEW w \in Width, NEW n \in Nat, NEW s \in [1 .. n -> Nat],
         NEW k \in Nat, k >= w * n
  PROVE  Codes!Bit(s, w, k) = 0
<1>1. Len(s) = n OBVIOUS
<1> QED BY <1>1 DEF Codes!Bit

LEMMA BitSplit ==
  ASSUME NEW w \in Width, NEW n \in Nat, NEW k \in Nat, k < w * n
  PROVE  \E i \in 0 .. n - 1, j \in 0 .. w - 1 : k = w * i + j
<1>1. k = w * (k \div w) + (k % w) /\ k % w \in 0 .. w - 1 /\ k \div w \in 0 .. n - 1
  BY DEF Width
<1> QED BY <1>1

LEMMA RowIsBinary ==
  ASSUME NEW w \in Width, NEW n \in Nat, NEW s \in [1 .. n -> Nat], NEW k \in Nat
  PROVE  Codes!Bit(s, w, k) \in 0 .. 1
<1>1. w * n \in Nat BY DEF Width
<1>2. CASE k < w * n
  <2>1. PICK i \in 0 .. n - 1, j \in 0 .. w - 1 : k = w * i + j BY <1>2, BitSplit
  <2>2. s[i + 1] \in Nat OBVIOUS
  <2>3. Codes!Bit(s, w, k) = BitOf(s[i + 1], w, j) BY <2>1, BitInside
  <2> QED BY <2>2, <2>3, BitIsBinary
<1>3. CASE ~(k < w * n) BY <1>1, <1>3, BitOutside
<1> QED BY <1>2, <1>3

(* The numbers of five and six bits, from their bits; bytes as sixes.         *)
LEMMA QuintetBits ==
  ASSUME NEW x \in 0 .. 31
  PROVE  x = 16 * BitOf(x, 5, 0) + 8 * BitOf(x, 5, 1) + 4 * BitOf(x, 5, 2)
             + 2 * BitOf(x, 5, 3) + BitOf(x, 5, 4)
<1>1. BitOf(x, 5, 0) = (x \div 16) % 2
  <2>1. (5 - 1) - 0 = 4 OBVIOUS
  <2> QED BY <2>1, PowersOfTwo, Zenon DEF BitOf
<1>2. BitOf(x, 5, 1) = (x \div 8) % 2
  <2>1. (5 - 1) - 1 = 3 OBVIOUS
  <2> QED BY <2>1, PowersOfTwo, Zenon DEF BitOf
<1>3. BitOf(x, 5, 2) = (x \div 4) % 2
  <2>1. (5 - 1) - 2 = 2 OBVIOUS
  <2> QED BY <2>1, PowersOfTwo, Zenon DEF BitOf
<1>4. BitOf(x, 5, 3) = (x \div 2) % 2
  <2>1. (5 - 1) - 3 = 1 OBVIOUS
  <2> QED BY <2>1, PowersOfTwo, Zenon DEF BitOf
<1>5. BitOf(x, 5, 4) = x % 2
  <2>1. (5 - 1) - 4 = 0 OBVIOUS
  <2>2. x \div 1 = x OBVIOUS
  <2> QED BY <2>1, <2>2, PowersOfTwo, Zenon DEF BitOf
<1>6. x = 16 * ((x \div 16) % 2) + 8 * ((x \div 8) % 2) + 4 * ((x \div 4) % 2)
          + 2 * ((x \div 2) % 2) + (x % 2)
  OBVIOUS
<1> QED BY <1>1, <1>2, <1>3, <1>4, <1>5, <1>6, Zenon

LEMMA SextetBits ==
  ASSUME NEW x \in 0 .. 63
  PROVE  x = 32 * BitOf(x, 6, 0) + 16 * BitOf(x, 6, 1) + 8 * BitOf(x, 6, 2)
             + 4 * BitOf(x, 6, 3) + 2 * BitOf(x, 6, 4) + BitOf(x, 6, 5)
<1>1. BitOf(x, 6, 0) = (x \div 32) % 2
  <2>1. (6 - 1) - 0 = 5 OBVIOUS
  <2> QED BY <2>1, PowersOfTwo, Zenon DEF BitOf
<1>2. BitOf(x, 6, 1) = (x \div 16) % 2
  <2>1. (6 - 1) - 1 = 4 OBVIOUS
  <2> QED BY <2>1, PowersOfTwo, Zenon DEF BitOf
<1>3. BitOf(x, 6, 2) = (x \div 8) % 2
  <2>1. (6 - 1) - 2 = 3 OBVIOUS
  <2> QED BY <2>1, PowersOfTwo, Zenon DEF BitOf
<1>4. BitOf(x, 6, 3) = (x \div 4) % 2
  <2>1. (6 - 1) - 3 = 2 OBVIOUS
  <2> QED BY <2>1, PowersOfTwo, Zenon DEF BitOf
<1>5. BitOf(x, 6, 4) = (x \div 2) % 2
  <2>1. (6 - 1) - 4 = 1 OBVIOUS
  <2> QED BY <2>1, PowersOfTwo, Zenon DEF BitOf
<1>6. BitOf(x, 6, 5) = x % 2
  <2>1. (6 - 1) - 5 = 0 OBVIOUS
  <2>2. x \div 1 = x OBVIOUS
  <2> QED BY <2>1, <2>2, PowersOfTwo, Zenon DEF BitOf
<1>7. x = 32 * ((x \div 32) % 2) + 16 * ((x \div 16) % 2) + 8 * ((x \div 8) % 2)
          + 4 * ((x \div 4) % 2) + 2 * ((x \div 2) % 2) + (x % 2)
  OBVIOUS
<1> QED BY <1>1, <1>2, <1>3, <1>4, <1>5, <1>6, <1>7, Zenon

LEMMA OctetBits ==
  ASSUME NEW x \in 0 .. 255
  PROVE  x = 128 * BitOf(x, 8, 0) + 64 * BitOf(x, 8, 1) + 32 * BitOf(x, 8, 2)
             + 16 * BitOf(x, 8, 3) + 8 * BitOf(x, 8, 4) + 4 * BitOf(x, 8, 5)
             + 2 * BitOf(x, 8, 6) + BitOf(x, 8, 7)
<1>1. BitOf(x, 8, 0) = (x \div 128) % 2
  <2>1. (8 - 1) - 0 = 7 OBVIOUS
  <2> QED BY <2>1, PowersOfTwo, Zenon DEF BitOf
<1>2. BitOf(x, 8, 1) = (x \div 64) % 2
  <2>1. (8 - 1) - 1 = 6 OBVIOUS
  <2> QED BY <2>1, PowersOfTwo, Zenon DEF BitOf
<1>3. BitOf(x, 8, 2) = (x \div 32) % 2
  <2>1. (8 - 1) - 2 = 5 OBVIOUS
  <2> QED BY <2>1, PowersOfTwo, Zenon DEF BitOf
<1>4. BitOf(x, 8, 3) = (x \div 16) % 2
  <2>1. (8 - 1) - 3 = 4 OBVIOUS
  <2> QED BY <2>1, PowersOfTwo, Zenon DEF BitOf
<1>5. BitOf(x, 8, 4) = (x \div 8) % 2
  <2>1. (8 - 1) - 4 = 3 OBVIOUS
  <2> QED BY <2>1, PowersOfTwo, Zenon DEF BitOf
<1>6. BitOf(x, 8, 5) = (x \div 4) % 2
  <2>1. (8 - 1) - 5 = 2 OBVIOUS
  <2> QED BY <2>1, PowersOfTwo, Zenon DEF BitOf
<1>7. BitOf(x, 8, 6) = (x \div 2) % 2
  <2>1. (8 - 1) - 6 = 1 OBVIOUS
  <2> QED BY <2>1, PowersOfTwo, Zenon DEF BitOf
<1>8. BitOf(x, 8, 7) = x % 2
  <2>1. (8 - 1) - 7 = 0 OBVIOUS
  <2>2. x \div 1 = x OBVIOUS
  <2> QED BY <2>1, <2>2, PowersOfTwo, Zenon DEF BitOf
<1>9. x = 128 * ((x \div 128) % 2) + 64 * ((x \div 64) % 2) + 32 * ((x \div 32) % 2)
          + 16 * ((x \div 16) % 2) + 8 * ((x \div 8) % 2) + 4 * ((x \div 4) % 2)
          + 2 * ((x \div 2) % 2) + (x % 2)
  OBVIOUS
<1> QED BY <1>1, <1>2, <1>3, <1>4, <1>5, <1>6, <1>7, <1>8, <1>9, Zenon

LEMMA OctetJoined ==
  ASSUME NEW x \in 0 .. 255
  PROVE  Codes!Joined(2, [j \in 1 .. 8 |-> BitOf(x, 8, j - 1)]) = x
<1> DEFINE b == [j \in 1 .. 8 |-> BitOf(x, 8, j - 1)]
<1>1. \A j \in 1 .. 8 : BitOf(x, 8, j - 1) \in 0 .. 1
  <2> TAKE j \in 1 .. 8
  <2>1. 8 \in Width /\ j - 1 \in 0 .. 8 - 1 /\ x \in Nat BY DEF Width
  <2> QED BY <2>1, BitIsBinary
<1>2. b \in [1 .. 8 -> 0 .. 1] BY <1>1
<1>3. /\ b[1] = BitOf(x, 8, 0) /\ b[2] = BitOf(x, 8, 1) /\ b[3] = BitOf(x, 8, 2)
      /\ b[4] = BitOf(x, 8, 3) /\ b[5] = BitOf(x, 8, 4) /\ b[6] = BitOf(x, 8, 5)
      /\ b[7] = BitOf(x, 8, 6) /\ b[8] = BitOf(x, 8, 7)
  OBVIOUS
<1> HIDE DEF b
<1>4. Codes!Joined(2, b) = 128 * b[1] + 64 * b[2] + 32 * b[3] + 16 * b[4]
                             + 8 * b[5] + 4 * b[6] + 2 * b[7] + b[8]
  BY <1>2, EightBits
<1>5. Codes!Joined(2, b) = x
  <2>1. x = 128 * b[1] + 64 * b[2] + 32 * b[3] + 16 * b[4]
              + 8 * b[5] + 4 * b[6] + 2 * b[7] + b[8]
    <3>1. x = 128 * BitOf(x, 8, 0) + 64 * BitOf(x, 8, 1) + 32 * BitOf(x, 8, 2)
                + 16 * BitOf(x, 8, 3) + 8 * BitOf(x, 8, 4) + 4 * BitOf(x, 8, 5)
                + 2 * BitOf(x, 8, 6) + BitOf(x, 8, 7)
      BY OctetBits
    <3> QED BY <1>3, <3>1, Zenon
  <2> QED BY <1>4, <2>1, Zenon
<1> QED BY <1>5 DEF b

LEMMA SextetSays ==
  ASSUME NEW b \in [1 .. 6 -> 0 .. 1]
  PROVE  /\ Codes!Joined(2, b) \in 0 .. 63
         /\ \A j \in 0 .. 5 : BitOf(Codes!Joined(2, b), 6, j) = b[j + 1]
<1> DEFINE x == Codes!Joined(2, b)
<1>1. x = 32 * b[1] + 16 * b[2] + 8 * b[3] + 4 * b[4] + 2 * b[5] + b[6] BY SixBits
<1> HIDE DEF x
<1>2. /\ b[1] \in 0 .. 1 /\ b[2] \in 0 .. 1 /\ b[3] \in 0 .. 1
      /\ b[4] \in 0 .. 1 /\ b[5] \in 0 .. 1 /\ b[6] \in 0 .. 1
  OBVIOUS
<1>3. x \in 0 .. 63 BY <1>1, <1>2
<1>4. x = 32 * BitOf(x, 6, 0) + 16 * BitOf(x, 6, 1) + 8 * BitOf(x, 6, 2)
          + 4 * BitOf(x, 6, 3) + 2 * BitOf(x, 6, 4) + BitOf(x, 6, 5)
  BY <1>3, SextetBits
<1>5. \A j \in 0 .. 5 : BitOf(x, 6, j) \in 0 .. 1
  <2> TAKE j \in 0 .. 5
  <2>1. 6 \in Width /\ j \in 0 .. 6 - 1 /\ x \in Nat BY <1>3 DEF Width
  <2> QED BY <2>1, BitIsBinary
<1>6. /\ BitOf(x, 6, 0) \in 0 .. 1 /\ BitOf(x, 6, 1) \in 0 .. 1
      /\ BitOf(x, 6, 2) \in 0 .. 1 /\ BitOf(x, 6, 3) \in 0 .. 1
      /\ BitOf(x, 6, 4) \in 0 .. 1 /\ BitOf(x, 6, 5) \in 0 .. 1
  BY <1>5
<1>7. /\ BitOf(x, 6, 0) = b[1] /\ BitOf(x, 6, 1) = b[2] /\ BitOf(x, 6, 2) = b[3]
      /\ BitOf(x, 6, 3) = b[4] /\ BitOf(x, 6, 4) = b[5] /\ BitOf(x, 6, 5) = b[6]
  BY <1>1, <1>2, <1>4, <1>6
<1>8. ASSUME NEW j \in 0 .. 5 PROVE BitOf(x, 6, j) = b[j + 1]
  <2>1. j = 0 \/ j = 1 \/ j = 2 \/ j = 3 \/ j = 4 \/ j = 5 OBVIOUS
  <2>2. 0 + 1 = 1 /\ 1 + 1 = 2 /\ 2 + 1 = 3 /\ 3 + 1 = 4 /\ 4 + 1 = 5 /\ 5 + 1 = 6
    OBVIOUS
  <2> QED BY <1>7, <2>1, <2>2, Zenon
<1> QED BY <1>3, <1>8 DEF x

(* A sequence of bytes regrouped in sixes and back is the same bytes.         *)
BitRow(s, w, v, i) == [k \in 1 .. v |-> Codes!Bit(s, w, v * i + (k - 1))]

LEMMA RegroupedRow ==
  ASSUME NEW s, NEW w, NEW v, NEW n \in Nat, NEW g \in 1 .. n
  PROVE  Codes!Regrouped(s, w, v, n)[g] = Codes!Joined(2, BitRow(s, w, v, g - 1))
  BY DEF Codes!Regrouped, BitRow

LEMMA RegroupedBack ==
  ASSUME NEW n \in Nat, NEW s \in [1 .. n -> 0 .. 255], NEW m \in Nat, 8 * n <= 6 * m
  PROVE  Codes!Regrouped(Codes!Regrouped(s, 8, 6, m), 6, 8, n) = s
<1> DEFINE sixes == Codes!Regrouped(s, 8, 6, m)
           six(i) == BitRow(s, 8, 6, i)
<1>1. s \in [1 .. n -> Nat] /\ 8 \in Width /\ 6 \in Width
  <2>1. \A x \in 0 .. 255 : x \in Nat OBVIOUS
  <2>2. s \in [1 .. n -> Nat] BY <2>1
  <2>3. 8 \in Width /\ 6 \in Width BY DEF Width
  <2> QED BY <2>2, <2>3
<1>2. ASSUME NEW i \in 0 .. m - 1 PROVE six(i) \in [1 .. 6 -> 0 .. 1]
  <2>1. ASSUME NEW k \in 1 .. 6 PROVE Codes!Bit(s, 8, 6 * i + (k - 1)) \in 0 .. 1
    <3>1. 6 * i + (k - 1) \in Nat OBVIOUS
    <3> QED BY <1>1, <3>1, RowIsBinary
  <2> QED BY <2>1 DEF BitRow
<1>3. ASSUME NEW i \in 0 .. m - 1
      PROVE  /\ sixes[i + 1] = Codes!Joined(2, six(i))
             /\ sixes[i + 1] \in 0 .. 63
             /\ \A j \in 0 .. 5 : BitOf(sixes[i + 1], 6, j) = Codes!Bit(s, 8, 6 * i + j)
  <2>1. i + 1 \in 1 .. m /\ (i + 1) - 1 = i OBVIOUS
  <2>2. sixes[i + 1] = Codes!Joined(2, six(i)) BY <2>1, RegroupedRow
  <2>3. \A j \in 0 .. 5 : six(i)[j + 1] = Codes!Bit(s, 8, 6 * i + j)
    <3> TAKE j \in 0 .. 5
    <3>1. j + 1 \in 1 .. 6 /\ (j + 1) - 1 = j OBVIOUS
    <3> QED BY <3>1 DEF BitRow
  <2> HIDE DEF six, sixes
  <2> QED BY <1>2, <2>2, <2>3, SextetSays
<1>4. sixes \in [1 .. m -> Nat]
  <2>1. sixes = [g \in 1 .. m |-> sixes[g]] BY DEF Codes!Regrouped
  <2>2. \A g \in 1 .. m : sixes[g] \in Nat
    <3> TAKE g \in 1 .. m
    <3>1. g - 1 \in 0 .. m - 1 /\ (g - 1) + 1 = g OBVIOUS
    <3>2. sixes[(g - 1) + 1] \in 0 .. 63 BY <1>3, <3>1
    <3> HIDE DEF sixes
    <3>3. sixes[g] \in 0 .. 63 BY <3>1, <3>2, Zenon
    <3>4. \A x \in 0 .. 63 : x \in Nat OBVIOUS
    <3> QED BY <3>3, <3>4, Zenon
  <2> HIDE DEF sixes
  <2> QED BY <2>1, <2>2
<1>5. ASSUME NEW k \in Nat, k < 6 * m
      PROVE  Codes!Bit(sixes, 6, k) = Codes!Bit(s, 8, k)
  <2>1. PICK i \in 0 .. m - 1, j \in 0 .. 6 - 1 : k = 6 * i + j BY <1>1, <1>5, BitSplit
  <2>2. j \in 0 .. 5 BY <2>1
  <2> HIDE DEF sixes
  <2>3. Codes!Bit(sixes, 6, 6 * i + j) = BitOf(sixes[i + 1], 6, j)
    BY <1>1, <1>4, BitInside
  <2> QED BY <1>3, <2>1, <2>2, <2>3
<1>6. ASSUME NEW g \in 1 .. n
      PROVE  Codes!Regrouped(sixes, 6, 8, n)[g] = s[g]
  <2> HIDE DEF sixes
  <2> DEFINE row == BitRow(sixes, 6, 8, g - 1)
             b == [k \in 1 .. 8 |-> BitOf(s[g], 8, k - 1)]
  <2>1. Codes!Regrouped(sixes, 6, 8, n)[g] = Codes!Joined(2, row)
    BY RegroupedRow
  <2>2. ASSUME NEW k \in 1 .. 8
        PROVE  Codes!Bit(sixes, 6, 8 * (g - 1) + (k - 1)) = BitOf(s[g], 8, k - 1)
    <3>1. 8 * (g - 1) + (k - 1) \in Nat /\ 8 * (g - 1) + (k - 1) < 6 * m OBVIOUS
    <3>2. Codes!Bit(sixes, 6, 8 * (g - 1) + (k - 1))
            = Codes!Bit(s, 8, 8 * (g - 1) + (k - 1))
      BY <1>5, <3>1
    <3>3. g - 1 \in 0 .. n - 1 /\ k - 1 \in 0 .. 8 - 1 /\ (g - 1) + 1 = g OBVIOUS
    <3>4. Codes!Bit(s, 8, 8 * (g - 1) + (k - 1)) = BitOf(s[(g - 1) + 1], 8, k - 1)
      BY <1>1, <3>3, BitInside
    <3> QED BY <3>2, <3>3, <3>4
  <2>3. row = b BY <2>2 DEF BitRow
  <2>4. s[g] \in 0 .. 255 OBVIOUS
  <2>5. Codes!Joined(2, b) = s[g] BY <2>4, OctetJoined
  <2> QED BY <2>1, <2>3, <2>5, Zenon
<1>7. Codes!Regrouped(sixes, 6, 8, n)
        = [g \in 1 .. n |-> Codes!Regrouped(sixes, 6, 8, n)[g]]
  BY DEF Codes!Regrouped
<1> HIDE DEF sixes
<1>8. Codes!Regrouped(sixes, 6, 8, n) = s
  BY <1>6, <1>7
<1> QED BY <1>8 DEF sixes

-----------------------------------------------------------------------------
(* Decimals.  A number divided twice, the powers of ten, and what the lower   *)
(* digits of a number add up to.                                             *)
LEMMA DividedByTen ==
  ASSUME NEW x \in Nat, NEW p \in Nat \ {0}
  PROVE  x \div (10 * p) = (x \div p) \div 10
<1> DEFINE q == x \div p
           r == x % p
           s == q \div 10
           t == q % 10
<1>1. x = p * q + r /\ r \in 0 .. p - 1 /\ q \in Nat BY Division
<1> HIDE DEF q, r
<1>2. q = 10 * s + t /\ t \in 0 .. 9 /\ s \in Nat BY <1>1
<1> HIDE DEF s, t
<1>3. p * q = (10 * p) * s + p * t
  <2>1. \A a, b, c \in Nat : a * (10 * b + c) = (10 * a) * b + a * c OBVIOUS
  <2>2. t \in Nat BY <1>2
  <2> QED BY <1>2, <2>1, <2>2
<1>4. p * t \in 0 .. 9 * p
  <2>1. \/ t = 0 \/ t = 1 \/ t = 2 \/ t = 3 \/ t = 4
        \/ t = 5 \/ t = 6 \/ t = 7 \/ t = 8 \/ t = 9
    BY <1>2
  <2> QED BY <2>1
<1> DEFINE u == p * t + r
           m == 10 * p
<1>5. u \in 0 .. m - 1 /\ m \in Nat \ {0}
  <2> DEFINE w == p * t
  <2>1. w \in 0 .. 9 * p BY <1>4
  <2> HIDE DEF w
  <2>2. w + r \in 0 .. 10 * p - 1 /\ 10 * p \in Nat \ {0} BY <1>1, <2>1
  <2> QED BY <2>2 DEF w
<1>6. x = m * s + u
  <2> DEFINE w == p * t
             y == (10 * p) * s
  <2>1. p * q = y + w BY <1>3
  <2>2. w \in Int BY <1>4
  <2>3. y \in Int BY <1>2
  <2> HIDE DEF w, y
  <2>4. x = y + (w + r) BY <1>1, <2>1, <2>2, <2>3
  <2> QED BY <2>4 DEF w, y
<1> HIDE DEF u, m
<1>7. x \div m = s BY <1>2, <1>5, <1>6
<1> QED BY <1>7 DEF m, s, q

LEMMA PowersOfTen ==
  /\ 10 ^ 0 = 1 /\ 10 ^ 1 = 10 /\ 10 ^ 2 = 100 /\ 10 ^ 3 = 1000
  /\ 10 ^ 4 = 10000 /\ 10 ^ 5 = 100000 /\ 10 ^ 6 = 1000000 /\ 10 ^ 7 = 10000000
  /\ 10 ^ 8 = 100000000 /\ 10 ^ 9 = 1000000000 /\ 10 ^ 10 = 10000000000
<1>1. 10 ^ 0 = 1 OBVIOUS
<1>2. 10 ^ 1 = 10 OBVIOUS
<1>3. 10 ^ 2 = 100 OBVIOUS
<1>4. 10 ^ 3 = 1000 OBVIOUS
<1>5. 10 ^ 4 = 10000 OBVIOUS
<1>6. 10 ^ 5 = 100000 OBVIOUS
<1>7. 10 ^ 6 = 1000000 OBVIOUS
<1>8. 10 ^ 7 = 10000000 OBVIOUS
<1>9. 10 ^ 8 = 100000000 OBVIOUS
<1>10. 10 ^ 9 = 1000000000 OBVIOUS
<1>11. 10 ^ 10 = 10000000000 OBVIOUS
<1> QED BY <1>1, <1>2, <1>3, <1>4, <1>5, <1>6, <1>7, <1>8, <1>9, <1>10, <1>11

LEMMA NextPower ==
  ASSUME NEW j \in 0 .. 9
  PROVE  10 ^ (j + 1) = 10 * 10 ^ j /\ 10 ^ j \in Nat \ {0} /\ 10 ^ (j + 1) \in Nat \ {0}
<1>1. CASE j = 0 BY <1>1, PowersOfTen, 0 + 1 = 1
<1>2. CASE j = 1 BY <1>2, PowersOfTen, 1 + 1 = 2
<1>3. CASE j = 2 BY <1>3, PowersOfTen, 2 + 1 = 3
<1>4. CASE j = 3 BY <1>4, PowersOfTen, 3 + 1 = 4
<1>5. CASE j = 4 BY <1>5, PowersOfTen, 4 + 1 = 5
<1>6. CASE j = 5 BY <1>6, PowersOfTen, 5 + 1 = 6
<1>7. CASE j = 6 BY <1>7, PowersOfTen, 6 + 1 = 7
<1>8. CASE j = 7 BY <1>8, PowersOfTen, 7 + 1 = 8
<1>9. CASE j = 8 BY <1>9, PowersOfTen, 8 + 1 = 9
<1>10. CASE j = 9 BY <1>10, PowersOfTen, 9 + 1 = 10
<1> QED BY <1>1, <1>2, <1>3, <1>4, <1>5, <1>6, <1>7, <1>8, <1>9, <1>10

LEMMA DigitsSay ==
  ASSUME NEW n \in 0 .. 10, NEW x \in Nat, NEW value \in [0 .. n -> Nat],
         value[0] = 0,
         \A k \in 1 .. n : value[k] = 10 * value[k - 1] + ((x \div 10 ^ (n - k)) % 10)
  PROVE  value[n] = x % 10 ^ n
<1> DEFINE upper(k) == x \div 10 ^ (n - k)
           rest == x \div 10 ^ n
           P == {k \in 0 .. n : value[k] = upper(k) - rest * 10 ^ k}
<1>1. ASSUME NEW k \in 0 .. n PROVE 10 ^ k \in Nat \ {0}
  <2>1. CASE k = 0 BY <2>1, PowersOfTen
  <2>2. CASE k # 0
    <3>1. k \in 1 .. 10
      <4>1. n \in Int /\ n <= 10 /\ k \in Int /\ 0 <= k /\ k <= n OBVIOUS
      <4> QED BY <2>2, <4>1
    <3>2. k - 1 \in 0 .. 9 /\ (k - 1) + 1 = k BY <3>1
    <3> QED BY <3>2, NextPower
  <2> QED BY <2>1, <2>2
<1>2. \A k \in 0 .. n : upper(k) \in Nat
  <2> TAKE k \in 0 .. n
  <2>1. n - k \in 0 .. n OBVIOUS
  <2>2. 10 ^ (n - k) \in Nat \ {0} BY <1>1, <2>1
  <2> DEFINE p == 10 ^ (n - k)
  <2>3. p \in Nat \ {0} BY <2>2
  <2> HIDE DEF p
  <2>4. x \div p \in Nat BY <2>3, Division
  <2> QED BY <2>4 DEF p
<1>3. rest \in Nat
  <2>1. 0 \in 0 .. n /\ n - 0 = n OBVIOUS
  <2>2. upper(0) = rest BY <2>1
  <2> QED BY <1>2, <2>1, <2>2
<1>4. 0 \in P
  <2>1. n - 0 = n /\ 0 \in 0 .. n OBVIOUS
  <2>2. upper(0) = rest BY <2>1
  <2>3. rest * 10 ^ 0 = rest
    <3>1. 10 ^ 0 = 1 BY PowersOfTen
    <3> HIDE DEF rest
    <3> QED BY <1>3, <3>1
  <2> HIDE DEF upper, rest
  <2>4. upper(0) - rest * 10 ^ 0 = 0 BY <1>3, <2>2, <2>3
  <2> QED BY <2>1, <2>4
<1>5. ASSUME NEW k \in 0 .. n - 1, k \in P PROVE k + 1 \in P
  <2>1. /\ k + 1 \in 1 .. n /\ k + 1 \in 0 .. n /\ (k + 1) - 1 = k /\ k \in 0 .. n
        /\ n - k = (n - (k + 1)) + 1 /\ n - (k + 1) \in 0 .. 9 /\ k \in 0 .. 9
    <3>1. n \in Int /\ n <= 10 /\ k \in Int /\ 0 <= k /\ k <= n - 1 OBVIOUS
    <3> HIDE DEF P
    <3> QED BY <3>1
  <2>2. value[k + 1] = 10 * value[k] + (upper(k + 1) % 10) BY <2>1
  <2>3. upper(k) = upper(k + 1) \div 10
    <3> DEFINE p == 10 ^ (n - (k + 1))
    <3>1. p \in Nat \ {0} /\ 10 ^ (n - k) = 10 * p BY <2>1, NextPower
    <3>2. x \div (10 * p) = (x \div p) \div 10
      <4> HIDE DEF p
      <4> QED BY <3>1, DividedByTen
    <3> QED BY <3>1, <3>2
  <2>4. value[k] = upper(k) - rest * 10 ^ k BY <1>5
  <2> DEFINE p == 10 ^ k
             y == rest * p
  <2>5. p \in Nat \ {0} /\ 10 ^ (k + 1) = 10 * p BY <2>1, NextPower
  <2>6. upper(k) \in Nat /\ upper(k + 1) \in Nat BY <1>2, <2>1
  <2> HIDE DEF p, rest, upper
  <2>7. y \in Nat BY <1>3, <2>5
  <2>8. rest * 10 ^ (k + 1) = 10 * y
    <3>1. \A a, b \in Nat : a * (10 * b) = 10 * (a * b) OBVIOUS
    <3>2. rest \in Nat /\ p \in Nat BY <1>3, <2>5
    <3> QED BY <2>5, <3>1, <3>2
  <2>9. value[k] = upper(k) - y BY <2>4 DEF p
  <2> HIDE DEF y
  <2>10. 10 * upper(k) + (upper(k + 1) % 10) = upper(k + 1)
    <3>1. \A a \in Nat : 10 * (a \div 10) + (a % 10) = a OBVIOUS
    <3> QED BY <2>3, <2>6, <3>1
  <2>11. value[k + 1] = upper(k + 1) - 10 * y BY <2>2, <2>6, <2>7, <2>9, <2>10
  <2>12. value[k + 1] = upper(k + 1) - rest * 10 ^ (k + 1) BY <2>8, <2>11, Zenon
  <2> QED BY <2>1, <2>12
<1> HIDE DEF P
<1>6. n \in P
  <2>1. \A k \in 0 .. n - 1 : k \in P => k + 1 \in P BY <1>5
  <2>2. n \in Nat /\ n \in 0 .. n OBVIOUS
  <2> QED BY <1>4, <2>1, <2>2, CountingTo
<1>7. value[n] = upper(n) - rest * 10 ^ n BY <1>6 DEF P
<1>8. upper(n) = x
  <2>1. n - n = 0 OBVIOUS
  <2>2. x \div 1 = x OBVIOUS
  <2>3. 10 ^ 0 = 1 BY PowersOfTen
  <2> QED BY <2>1, <2>2, <2>3, Zenon
<1>9. n \in 0 .. n OBVIOUS
<1> DEFINE p == 10 ^ n
<1>10. p \in Nat \ {0} BY <1>1, <1>9
<1>11. value[n] = x - (x \div p) * p BY <1>7, <1>8
<1> HIDE DEF p, upper, rest
<1>12. x = p * (x \div p) + (x % p) /\ (x \div p) \in Nat /\ x % p \in Nat
  BY <1>10, Division
<1>13. (x \div p) * p = p * (x \div p) BY <1>10, <1>12
<1> DEFINE y == p * (x \div p)
<1>14. y \in Nat BY <1>10, <1>12
<1> HIDE DEF y
<1>15. value[n] = x % p BY <1>11, <1>12, <1>13, <1>14 DEF y
<1> QED BY <1>15 DEF p

(* hotp: the nibble that names a place, and the 31 bits from there.          *)
LEMMA QuartetBits ==
  ASSUME NEW x \in 0 .. 15
  PROVE  x = 8 * BitOf(x, 4, 0) + 4 * BitOf(x, 4, 1) + 2 * BitOf(x, 4, 2) + BitOf(x, 4, 3)
<1>1. BitOf(x, 4, 0) = (x \div 8) % 2
  <2>1. (4 - 1) - 0 = 3 OBVIOUS
  <2> QED BY <2>1, PowersOfTwo, Zenon DEF BitOf
<1>2. BitOf(x, 4, 1) = (x \div 4) % 2
  <2>1. (4 - 1) - 1 = 2 OBVIOUS
  <2> QED BY <2>1, PowersOfTwo, Zenon DEF BitOf
<1>3. BitOf(x, 4, 2) = (x \div 2) % 2
  <2>1. (4 - 1) - 2 = 1 OBVIOUS
  <2> QED BY <2>1, PowersOfTwo, Zenon DEF BitOf
<1>4. BitOf(x, 4, 3) = x % 2
  <2>1. (4 - 1) - 3 = 0 OBVIOUS
  <2>2. x \div 1 = x OBVIOUS
  <2> QED BY <2>1, <2>2, PowersOfTwo, Zenon DEF BitOf
<1>5. x = 8 * ((x \div 8) % 2) + 4 * ((x \div 4) % 2) + 2 * ((x \div 2) % 2) + (x % 2)
  OBVIOUS
<1> QED BY <1>1, <1>2, <1>3, <1>4, <1>5, Zenon

LEMMA QuartetRead ==
  ASSUME NEW x \in 0 .. 15
  PROVE  Codes!Regrouped(<< x >>, 4, 4, 1)[1] = x
<1> DEFINE b == BitRow(<< x >>, 4, 4, 0)
           s == << x >>
<1>1. Codes!Regrouped(s, 4, 4, 1)[1] = Codes!Joined(2, b)
  <2>1. 1 \in Nat /\ 1 \in 1 .. 1 /\ 1 - 1 = 0 OBVIOUS
  <2> HIDE DEF s
  <2>2. Codes!Regrouped(s, 4, 4, 1)[1] = Codes!Joined(2, BitRow(s, 4, 4, 1 - 1))
    BY <2>1, RegroupedRow
  <2> QED BY <2>1, <2>2, Zenon DEF s
<1>2. s \in [1 .. 1 -> Nat] /\ s[0 + 1] = x /\ 4 \in Width /\ x \in Nat BY DEF Width
<1>3. ASSUME NEW k \in 1 .. 4
      PROVE  Codes!Bit(s, 4, 4 * 0 + (k - 1)) = BitOf(x, 4, k - 1)
  <2>1. 0 \in 0 .. 1 - 1 /\ k - 1 \in 0 .. 4 - 1 /\ 1 \in Nat OBVIOUS
  <2> HIDE DEF s
  <2>2. Codes!Bit(s, 4, 4 * 0 + (k - 1)) = BitOf(s[0 + 1], 4, k - 1)
    BY <1>2, <2>1, BitInside
  <2> QED BY <1>2, <2>2
<1>4. b = [k \in 1 .. 4 |-> BitOf(x, 4, k - 1)]
  <2> HIDE DEF s
  <2>1. BitRow(s, 4, 4, 0) = [k \in 1 .. 4 |-> BitOf(x, 4, k - 1)] BY <1>3 DEF BitRow
  <2> QED BY <2>1 DEF s
<1> HIDE DEF b, s
<1>5. \A k \in 1 .. 4 : BitOf(x, 4, k - 1) \in 0 .. 1
  <2> TAKE k \in 1 .. 4
  <2>1. k - 1 \in 0 .. 4 - 1 OBVIOUS
  <2> QED BY <1>2, <2>1, BitIsBinary
<1>6. b \in [1 .. 4 -> 0 .. 1] BY <1>4, <1>5
<1>7. b[1] = BitOf(x, 4, 0) /\ b[2] = BitOf(x, 4, 1) /\ b[3] = BitOf(x, 4, 2)
      /\ b[4] = BitOf(x, 4, 3)
  BY <1>4
<1>8. Codes!Joined(2, b) = 8 * b[1] + 4 * b[2] + 2 * b[3] + b[4] BY <1>6, FourBits
<1>9. x = 8 * b[1] + 4 * b[2] + 2 * b[3] + b[4] BY <1>7, QuartetBits, Zenon
<1> QED BY <1>1, <1>8, <1>9, Zenon DEF s

(* Eight rounds of a number that takes its digits from b.                     *)
Doubles(v, b) == \A j \in 0 .. 7 : v[j + 1] = 2 * v[j] + b[j]
LowerSeven(b) ==
  64 * b[1] + 32 * b[2] + 16 * b[3] + 8 * b[4] + 4 * b[5] + 2 * b[6] + b[7]

LEMMA Eightfold ==
  ASSUME NEW v \in [0 .. 8 -> Nat], NEW b \in [0 .. 7 -> 0 .. 1], Doubles(v, b)
  PROVE  v[8] = 256 * v[0] + (128 * b[0] + LowerSeven(b)) /\ LowerSeven(b) \in 0 .. 127
<1>1. /\ v[1] = 2 * v[0] + b[0] /\ v[2] = 2 * v[1] + b[1]
      /\ v[3] = 2 * v[2] + b[2] /\ v[4] = 2 * v[3] + b[3]
      /\ v[5] = 2 * v[4] + b[4] /\ v[6] = 2 * v[5] + b[5]
      /\ v[7] = 2 * v[6] + b[6] /\ v[8] = 2 * v[7] + b[7]
  BY DEF Doubles
<1>2. /\ b[0] \in 0 .. 1 /\ b[1] \in 0 .. 1 /\ b[2] \in 0 .. 1 /\ b[3] \in 0 .. 1
      /\ b[4] \in 0 .. 1 /\ b[5] \in 0 .. 1 /\ b[6] \in 0 .. 1 /\ b[7] \in 0 .. 1
  OBVIOUS
<1>3. v[0] \in Nat OBVIOUS
<1>4. v[1] = 2 * v[0] + b[0] BY <1>1
<1>5. v[2] = 4 * v[0] + 2 * b[0] + b[1]
  BY <1>1, <1>2, <1>3, <1>4
<1>6. v[3] = 8 * v[0] + 4 * b[0] + 2 * b[1] + b[2]
  BY <1>1, <1>2, <1>3, <1>5
<1>7. v[4] = 16 * v[0] + 8 * b[0] + 4 * b[1] + 2 * b[2] + b[3]
  BY <1>1, <1>2, <1>3, <1>6
<1>8. v[5] = 32 * v[0] + 16 * b[0] + 8 * b[1] + 4 * b[2] + 2 * b[3] + b[4]
  BY <1>1, <1>2, <1>3, <1>7
<1>9. v[6] = 64 * v[0] + 32 * b[0] + 16 * b[1] + 8 * b[2] + 4 * b[3] + 2 * b[4] + b[5]
  BY <1>1, <1>2, <1>3, <1>8
<1>10. v[7] = 128 * v[0] + 64 * b[0] + 32 * b[1] + 16 * b[2]
                + 8 * b[3] + 4 * b[4] + 2 * b[5] + b[6]
  BY <1>1, <1>2, <1>3, <1>9
<1>11. v[8] = 256 * v[0] + (128 * b[0] + LowerSeven(b))
  BY <1>1, <1>2, <1>3, <1>10 DEF LowerSeven
<1>12. LowerSeven(b) \in 0 .. 127 BY <1>2 DEF LowerSeven
<1> QED BY <1>11, <1>12

(* Seven and eight rounds of a number that takes the bits of x.               *)
Doubling(number, d, n) == \A k \in 1 .. n : number[k] = 2 * number[k - 1] + d[k]
OctetAt(d, m, x)  == \A j \in 0 .. 7 : d[m + (j + 1)] = BitOf(x, 8, j)
SeptetOf(d, x) == \A j \in 1 .. 7 : d[j] = BitOf(x, 8, j)

LEMMA OctetDigits ==
  ASSUME NEW x \in 0 .. 255
  PROVE  \A j \in 0 .. 7 : BitOf(x, 8, j) \in 0 .. 1
<1> TAKE j \in 0 .. 7
<1>1. 8 \in Width /\ j \in 0 .. 8 - 1 /\ x \in Nat BY DEF Width
<1> QED BY <1>1, BitIsBinary

LEMMA OctetSum ==
  ASSUME NEW x \in 0 .. 255, NEW b \in [0 .. 7 -> 0 .. 1],
         \A j \in 0 .. 7 : b[j] = BitOf(x, 8, j)
  PROVE  x = 128 * b[0] + LowerSeven(b)
<1>1. /\ b[0] = BitOf(x, 8, 0) /\ b[1] = BitOf(x, 8, 1) /\ b[2] = BitOf(x, 8, 2)
      /\ b[3] = BitOf(x, 8, 3) /\ b[4] = BitOf(x, 8, 4) /\ b[5] = BitOf(x, 8, 5)
      /\ b[6] = BitOf(x, 8, 6) /\ b[7] = BitOf(x, 8, 7)
  OBVIOUS
<1>2. x = 128 * b[0] + 64 * b[1] + 32 * b[2] + 16 * b[3]
            + 8 * b[4] + 4 * b[5] + 2 * b[6] + b[7]
  BY <1>1, OctetBits, Zenon
<1>3. /\ b[0] \in 0 .. 1 /\ b[1] \in 0 .. 1 /\ b[2] \in 0 .. 1 /\ b[3] \in 0 .. 1
      /\ b[4] \in 0 .. 1 /\ b[5] \in 0 .. 1 /\ b[6] \in 0 .. 1 /\ b[7] \in 0 .. 1
  OBVIOUS
<1> QED BY <1>2, <1>3 DEF LowerSeven

TakesOctet(n, number, d, m, x) ==
  /\ n \in Nat /\ number \in [0 .. n -> Nat] /\ Doubling(number, d, n)
  /\ m \in Nat /\ m + 8 <= n /\ x \in 0 .. 255 /\ OctetAt(d, m, x)

LEMMA OctetTaken ==
  ASSUME NEW n, NEW number, NEW d, NEW m, NEW x, TakesOctet(n, number, d, m, x)
  PROVE  number[m + 8] = 256 * number[m] + x
<1>1. /\ n \in Nat /\ number \in [0 .. n -> Nat] /\ Doubling(number, d, n)
      /\ m \in Nat /\ m + 8 <= n /\ x \in 0 .. 255 /\ OctetAt(d, m, x)
  BY DEF TakesOctet
<1> DEFINE v == [j \in 0 .. 8 |-> number[m + j]]
           b == [j \in 0 .. 7 |-> BitOf(x, 8, j)]
<1>2. ASSUME NEW j \in 0 .. 7 PROVE v[j + 1] = 2 * v[j] + b[j]
  <2>1. /\ m + (j + 1) \in 1 .. n /\ (m + (j + 1)) - 1 = m + j
        /\ j + 1 \in 0 .. 8 /\ j \in 0 .. 8
    BY <1>1
  <2>2. number[m + (j + 1)] = 2 * number[(m + (j + 1)) - 1] + d[m + (j + 1)]
    BY <1>1, <2>1 DEF Doubling
  <2>3. d[m + (j + 1)] = BitOf(x, 8, j) BY <1>1 DEF OctetAt
  <2>4. v[j + 1] = number[m + (j + 1)] /\ v[j] = number[m + j] /\ b[j] = BitOf(x, 8, j)
    BY <2>1
  <2> QED BY <2>1, <2>2, <2>3, <2>4, Zenon
<1>3. v \in [0 .. 8 -> Nat]
  <2>1. \A j \in 0 .. 8 : number[m + j] \in Nat
    <3> TAKE j \in 0 .. 8
    <3>1. m + j \in 0 .. n BY <1>1
    <3> QED BY <1>1, <3>1
  <2> QED BY <2>1
<1>4. b \in [0 .. 7 -> 0 .. 1] BY <1>1, OctetDigits
<1>5. v[0] = number[m] /\ v[8] = number[m + 8]
  <2>1. m + 0 = m BY <1>1
  <2> QED BY <2>1
<1>6. \A j \in 0 .. 7 : b[j] = BitOf(x, 8, j) OBVIOUS
<1> HIDE DEF v, b
<1>7. v[8] = 256 * v[0] + (128 * b[0] + LowerSeven(b))
  <2>1. Doubles(v, b) BY <1>2 DEF Doubles
  <2> QED BY <1>3, <1>4, <2>1, Eightfold
<1>8. x = 128 * b[0] + LowerSeven(b) BY <1>1, <1>4, <1>6, OctetSum
<1> QED BY <1>5, <1>7, <1>8, Zenon

TakesSeptet(n, number, d, x) ==
  /\ n \in Nat /\ number \in [0 .. n -> Nat] /\ Doubling(number, d, n)
  /\ 7 <= n /\ x \in 0 .. 255 /\ number[0] = 0 /\ SeptetOf(d, x)

LEMMA SeptetTaken ==
  ASSUME NEW n, NEW number, NEW d, NEW x, TakesSeptet(n, number, d, x)
  PROVE  number[7] = x % 128
<1>1. /\ n \in Nat /\ number \in [0 .. n -> Nat] /\ Doubling(number, d, n)
      /\ 7 <= n /\ x \in 0 .. 255 /\ number[0] = 0 /\ SeptetOf(d, x)
  BY DEF TakesSeptet
<1> DEFINE v == [j \in 0 .. 8 |-> IF j = 0 THEN 0 ELSE number[j - 1]]
           c == [j \in 0 .. 7 |-> BitOf(x, 8, j)]
           b == [j \in 0 .. 7 |-> IF j = 0 THEN 0 ELSE c[j]]
<1>2. ASSUME NEW j \in 0 .. 7 PROVE v[j + 1] = 2 * v[j] + b[j]
  <2>1. CASE j = 0
    <3>1. v[0 + 1] = 0 /\ v[0] = 0 /\ b[0] = 0 BY <1>1
    <3>2. 0 = 2 * 0 + 0 OBVIOUS
    <3> QED BY <2>1, <3>1, <3>2, Zenon
  <2>2. CASE j # 0
    <3>1. j \in 1 .. n /\ j \in 1 .. 7 /\ (j + 1) - 1 = j /\ j + 1 \in 0 .. 8 /\ j + 1 # 0
      BY <1>1, <2>2
    <3>2. number[j] = 2 * number[j - 1] + d[j] BY <1>1, <3>1 DEF Doubling
    <3>3. d[j] = BitOf(x, 8, j) BY <1>1, <3>1 DEF SeptetOf
    <3>4. v[j + 1] = number[j] /\ v[j] = number[j - 1] /\ b[j] = BitOf(x, 8, j)
      BY <2>2, <3>1
    <3> QED BY <3>2, <3>3, <3>4, Zenon
  <2> QED BY <2>1, <2>2
<1>3. v \in [0 .. 8 -> Nat]
  <2>1. \A j \in 0 .. 8 : j # 0 => number[j - 1] \in Nat
    <3> TAKE j \in 0 .. 8
    <3> HAVE j # 0
    <3>1. j - 1 \in 0 .. n BY <1>1
    <3> QED BY <1>1, <3>1
  <2> QED BY <2>1
<1>4. c \in [0 .. 7 -> 0 .. 1] /\ \A j \in 0 .. 7 : c[j] = BitOf(x, 8, j)
  BY <1>1, OctetDigits
<1>5. v[0] = 0 /\ v[8] = number[7]
  <2>1. 8 - 1 = 7 /\ 8 # 0 OBVIOUS
  <2> QED BY <2>1
<1> HIDE DEF v, c
<1>6. b \in [0 .. 7 -> 0 .. 1]
  <2>1. \A j \in 0 .. 7 : (IF j = 0 THEN 0 ELSE c[j]) \in 0 .. 1
    <3>1. 0 \in 0 .. 1 OBVIOUS
    <3> QED BY <1>4, <3>1
  <2> QED BY <2>1
<1>7. b[0] = 0 /\ LowerSeven(b) = LowerSeven(c)
  <2>1. /\ b[0] = 0 /\ b[1] = c[1] /\ b[2] = c[2] /\ b[3] = c[3] /\ b[4] = c[4]
        /\ b[5] = c[5] /\ b[6] = c[6] /\ b[7] = c[7]
    OBVIOUS
  <2> HIDE DEF b
  <2> QED BY <2>1, Zenon DEF LowerSeven
<1> HIDE DEF b
<1>8. v[8] = 256 * v[0] + (128 * b[0] + LowerSeven(b)) /\ LowerSeven(b) \in 0 .. 127
  <2>1. Doubles(v, b) BY <1>2 DEF Doubles
  <2> QED BY <1>3, <1>6, <2>1, Eightfold
<1>9. x = 128 * c[0] + LowerSeven(c) BY <1>1, <1>4, OctetSum
<1>10. c[0] \in 0 .. 1 BY <1>4
<1> DEFINE rest == LowerSeven(c)
<1>11. v[8] = rest /\ rest \in 0 .. 127
  <2>1. v[8] = 256 * 0 + (128 * 0 + rest) /\ rest \in 0 .. 127
    BY <1>5, <1>7, <1>8, Zenon
  <2> HIDE DEF rest
  <2> QED BY <2>1
<1>12. x = 128 * c[0] + rest BY <1>9
<1> HIDE DEF rest
<1>13. rest = x % 128
  <2>1. 128 \in Nat \ {0} /\ c[0] \in Int /\ rest \in 0 .. 128 - 1 BY <1>10, <1>11
  <2>2. (128 * c[0] + rest) % 128 = rest BY <2>1, Remainder
  <2> QED BY <1>12, <2>2
<1> QED BY <1>5, <1>11, <1>13, Zenon

(* The number of the four bytes from there, less its first bit.               *)
Big(s, b, c, e) == s * 16777216 + b * 65536 + c * 256 + e

LEMMA Below == \A a, z \in Nat : a < z => a % z = a
OBVIOUS

LEMMA BigBounds ==
  ASSUME NEW s \in 0 .. 127, NEW b \in 0 .. 255, NEW c \in 0 .. 255, NEW e \in 0 .. 255
  PROVE  Big(s, b, c, e) \in Nat /\ Big(s, b, c, e) < 10 ^ 10
<1>1. s * 16777216 + b * 65536 + c * 256 + e \in Nat BY SMT
<1>2. s * 16777216 + b * 65536 + c * 256 + e < 10 ^ 10 BY PowersOfTen, SMT
<1> QED BY <1>1, <1>2, SMT DEF Big

TakesFour(number, d, p, q, r, s) ==
  /\ number \in [0 .. 31 -> Nat] /\ number[0] = 0 /\ Doubling(number, d, 31)
  /\ p \in 0 .. 255 /\ q \in 0 .. 255 /\ r \in 0 .. 255 /\ s \in 0 .. 255
  /\ SeptetOf(d, p) /\ OctetAt(d, 7, q) /\ OctetAt(d, 15, r) /\ OctetAt(d, 23, s)

LEMMA FourTaken ==
  ASSUME NEW number, NEW d, NEW p, NEW q, NEW r, NEW s, TakesFour(number, d, p, q, r, s)
  PROVE  number[31] = Big(p % 128, q, r, s)
<1>1. number[7] = p % 128
  <2>1. 31 \in Nat /\ 7 <= 31 OBVIOUS
  <2>2. TakesSeptet(31, number, d, p) BY <2>1, Zenon DEF TakesFour, TakesSeptet
  <2> QED BY <2>2, SeptetTaken
<1>2. /\ TakesOctet(31, number, d, 7, q)
      /\ TakesOctet(31, number, d, 15, r)
      /\ TakesOctet(31, number, d, 23, s)
  <2>1. /\ 31 \in Nat /\ 7 \in Nat /\ 15 \in Nat /\ 23 \in Nat
        /\ 7 + 8 <= 31 /\ 15 + 8 <= 31 /\ 23 + 8 <= 31
    OBVIOUS
  <2> QED BY <2>1, Zenon DEF TakesFour, TakesOctet
<1>3. /\ number[7 + 8] = 256 * number[7] + q
      /\ number[15 + 8] = 256 * number[15] + r
      /\ number[23 + 8] = 256 * number[23] + s
  BY <1>2, OctetTaken
<1>4. /\ number[15] = 256 * number[7] + q /\ number[23] = 256 * number[15] + r
      /\ number[31] = 256 * number[23] + s
  <2>1. 7 + 8 = 15 /\ 15 + 8 = 23 /\ 23 + 8 = 31 OBVIOUS
  <2> QED BY <1>3, <2>1, Zenon
<1>5. p \in 0 .. 255 /\ q \in 0 .. 255 /\ r \in 0 .. 255 /\ s \in 0 .. 255
  BY DEF TakesFour
<1>6. number[7] \in 0 .. 127 BY <1>1, <1>5
<1>7. number[23] = 65536 * number[7] + 256 * q + r BY <1>4, <1>5, <1>6, SMT
<1>8. number[31] = number[7] * 16777216 + q * 65536 + r * 256 + s
  BY <1>4, <1>5, <1>6, <1>7, SMT
<1>9. number[31] = Big(number[7], q, r, s) BY <1>8, SMT DEF Big
<1> QED BY <1>1, <1>9

LEMMA TakenBits ==
  ASSUME NEW n \in Nat, n >= 20, NEW mac \in [1 .. n -> 0 .. 255], NEW x \in 0 .. 15
  PROVE  Codes!Joined(2, [k \in 1 .. 31 |-> Codes!Bit(mac, 8, 8 * x + k)])
           = Big(mac[x + 1] % 128, mac[x + 2], mac[x + 3], mac[x + 4])
<1>1. PICK p \in 0 .. 255, q \in 0 .. 255, r \in 0 .. 255, s \in 0 .. 255 :
        mac[x + 1] = p /\ mac[x + 2] = q /\ mac[x + 3] = r /\ mac[x + 4] = s
  <2>1. /\ x + 1 \in 1 .. n /\ x + 2 \in 1 .. n /\ x + 3 \in 1 .. n /\ x + 4 \in 1 .. n
    OBVIOUS
  <2> QED BY <2>1
<1> DEFINE d == [k \in 1 .. 31 |-> Codes!Bit(mac, 8, 8 * x + k)]
<1>2. mac \in [1 .. n -> Nat]
  <2>1. \A y \in 0 .. 255 : y \in Nat OBVIOUS
  <2>2. \A k \in 1 .. n : mac[k] \in Nat BY <2>1
  <2> QED BY <2>2
<1>3. ASSUME NEW i \in 0 .. 3, NEW j \in 0 .. 7
      PROVE  Codes!Bit(mac, 8, 8 * (x + i) + j) = BitOf(mac[x + (i + 1)], 8, j)
  <2>1. /\ 8 \in Width /\ x + i \in 0 .. n - 1 /\ j \in 0 .. 8 - 1
        /\ (x + i) + 1 = x + (i + 1)
    BY DEF Width
  <2>2. Codes!Bit(mac, 8, 8 * (x + i) + j) = BitOf(mac[(x + i) + 1], 8, j)
    BY <1>2, <2>1, BitInside
  <2> QED BY <2>1, <2>2, Zenon
<1>4. d \in [1 .. 31 -> Nat]
  <2>1. \A k \in 1 .. 31 : Codes!Bit(mac, 8, 8 * x + k) \in Nat
    <3> TAKE k \in 1 .. 31
    <3>1. 8 * x + k \in Nat /\ 8 \in Width BY DEF Width
    <3>2. Codes!Bit(mac, 8, 8 * x + k) \in 0 .. 1 BY <1>2, <3>1, RowIsBinary
    <3>3. \A y \in 0 .. 1 : y \in Nat OBVIOUS
    <3> QED BY <3>2, <3>3, Zenon
  <2> QED BY <2>1
<1>5. SeptetOf(d, p)
  <2>1. ASSUME NEW j \in 1 .. 7 PROVE d[j] = BitOf(p, 8, j)
    <3>1. 0 \in 0 .. 3 /\ j \in 0 .. 7 /\ 8 * (x + 0) + j = 8 * x + j /\ 0 + 1 = 1
      OBVIOUS
    <3>2. d[j] = Codes!Bit(mac, 8, 8 * x + j) OBVIOUS
    <3>3. Codes!Bit(mac, 8, 8 * (x + 0) + j) = BitOf(mac[x + (0 + 1)], 8, j)
      BY <1>3, <3>1
    <3>4. d[j] = BitOf(mac[x + 1], 8, j) BY <3>1, <3>2, <3>3, Zenon
    <3> QED BY <1>1, <3>4
  <2> QED BY <2>1 DEF SeptetOf
<1>6. ASSUME NEW i \in 1 .. 3
      PROVE  OctetAt(d, 8 * i - 1, mac[x + (i + 1)])
  <2>1. ASSUME NEW j \in 0 .. 7
        PROVE  d[(8 * i - 1) + (j + 1)] = BitOf(mac[x + (i + 1)], 8, j)
    <3> DEFINE k == (8 * i - 1) + (j + 1)
    <3>1. k \in 1 .. 31 /\ 8 * x + k = 8 * (x + i) + j /\ i \in 0 .. 3 OBVIOUS
    <3>2. d[k] = Codes!Bit(mac, 8, 8 * x + k) BY <3>1
    <3>3. Codes!Bit(mac, 8, 8 * (x + i) + j) = BitOf(mac[x + (i + 1)], 8, j)
      BY <1>3, <3>1
    <3> QED BY <3>1, <3>2, <3>3, Zenon
  <2> QED BY <2>1 DEF OctetAt
<1>7. OctetAt(d, 7, q) /\ OctetAt(d, 15, r) /\ OctetAt(d, 23, s)
  <2>1. /\ 8 * 1 - 1 = 7 /\ 8 * 2 - 1 = 15 /\ 8 * 3 - 1 = 23
        /\ 1 + 1 = 2 /\ 2 + 1 = 3 /\ 3 + 1 = 4
        /\ 1 \in 1 .. 3 /\ 2 \in 1 .. 3 /\ 3 \in 1 .. 3
    OBVIOUS
  <2> HIDE DEF d
  <2>2. /\ OctetAt(d, 8 * 1 - 1, mac[x + (1 + 1)])
        /\ OctetAt(d, 8 * 2 - 1, mac[x + (2 + 1)])
        /\ OctetAt(d, 8 * 3 - 1, mac[x + (3 + 1)])
    BY <1>6, <2>1
  <2> QED BY <1>1, <2>1, <2>2, Zenon
<1> HIDE DEF d
<1>8. PICK number \in [0 .. 31 -> Nat] :
        /\ number[0] = 0
        /\ \A k \in 1 .. 31 : number[k] = 2 * number[k - 1] + d[k]
        /\ Codes!Joined(2, d) = number[31]
  <2>1. 2 \in Nat /\ 31 \in Nat OBVIOUS
  <2> QED BY <1>4, <2>1, JoinedRuns, Zenon
<1>9. TakesFour(number, d, p, q, r, s)
  <2>1. Doubling(number, d, 31) BY <1>8, Zenon DEF Doubling
  <2> QED BY <1>5, <1>7, <1>8, <2>1, Zenon DEF TakesFour
<1>10. number[31] = Big(p % 128, q, r, s) BY <1>9, FourTaken
<1> QED BY <1>1, <1>8, <1>10, Zenon DEF d

(* Whatever MAC the library returns, the digits of hotp are the last of the   *)
(* number that 31 of its bits make, from where its last four bits say.        *)
THEOREM HotpExact ==
  ASSUME NEW key, NEW counter, NEW digits \in 6 .. 10, NEW algorithm,
         Hmac(algorithm, key, counter) \in Seq(0 .. 255),
         Len(Hmac(algorithm, key, counter)) >= 20
  PROVE  Codes!CodeIsRfc(key, counter, digits, algorithm)
<1> DEFINE mac == Hmac(algorithm, key, counter)
           n == Len(mac)
           x == mac[n] % 16
           offset == Codes!Regrouped(<< x >>, 4, 4, 1)[1]
           binary == Codes!Truncated(mac)
           code == Codes!Hotp(key, counter, digits, algorithm)
<1>1. n \in Nat /\ n >= 20 /\ mac \in [1 .. n -> 0 .. 255]
  <2>1. mac \in Seq(0 .. 255) /\ Len(mac) >= 20 OBVIOUS
  <2> HIDE DEF mac
  <2> QED BY <2>1, LenProperties
<1>2. Codes!CodeIsRfc(key, counter, digits, algorithm)
        = /\ offset + 4 <= n /\ Len(code) = digits
          /\ Codes!Joined(10, code)
               = IF digits < 10
                 THEN Codes!Joined(2, [k \in 1 .. 31 |->
                                           Codes!Bit(mac, 8, 8 * offset + k)])
                        % 10 ^ digits
                 ELSE Codes!Joined(2, [k \in 1 .. 31 |->
                                           Codes!Bit(mac, 8, 8 * offset + k)])
  BY Zenon DEF Codes!CodeIsRfc
<1>3. code = Codes!Digits(binary, digits) BY Zenon DEF Codes!Hotp
<1>4. binary = (mac[x + 1] % 128) * 16777216 + mac[x + 2] * 65536
                 + mac[x + 3] * 256 + mac[x + 4]
  BY SMT DEF Codes!Truncated
<1> HIDE DEF code, binary, mac
<1>5. x \in 0 .. 15
  <2>1. n \in 1 .. n BY <1>1
  <2> DEFINE y == mac[n]
  <2>2. y \in 0 .. 255 BY <1>1, <2>1
  <2> HIDE DEF y, n
  <2>3. y % 16 \in 0 .. 15 BY <2>2
  <2> QED BY <2>3 DEF y, n
<1>6. offset = x BY <1>5, QuartetRead
<1> HIDE DEF x, offset, n
<1>7. PICK p \in 0 .. 255, q \in 0 .. 255, r \in 0 .. 255, s \in 0 .. 255 :
        mac[x + 1] = p /\ mac[x + 2] = q /\ mac[x + 3] = r /\ mac[x + 4] = s
  <2>1. /\ x + 1 \in 1 .. n /\ x + 2 \in 1 .. n /\ x + 3 \in 1 .. n /\ x + 4 \in 1 .. n
    BY <1>1, <1>5
  <2> QED BY <1>1, <2>1
<1>8. binary = Big(p % 128, q, r, s) BY <1>4, <1>7, SMT DEF Big
<1>9. Codes!Joined(2, [k \in 1 .. 31 |-> Codes!Bit(mac, 8, 8 * x + k)]) = binary
  <2>1. Codes!Joined(2, [k \in 1 .. 31 |-> Codes!Bit(mac, 8, 8 * x + k)])
          = Big(mac[x + 1] % 128, mac[x + 2], mac[x + 3], mac[x + 4])
    BY <1>1, <1>5, TakenBits
  <2> QED BY <1>7, <1>8, <2>1, Zenon
<1> DEFINE y == p % 128
<1>10. y \in 0 .. 127 OBVIOUS
<1>11. binary = Big(y, q, r, s) BY <1>8
<1> HIDE DEF y
<1>12. Big(y, q, r, s) \in Nat /\ Big(y, q, r, s) < 10 ^ 10
  BY <1>10, BigBounds, Zenon
<1>13. binary \in Nat /\ binary < 10 ^ 10 BY <1>11, <1>12, Zenon
<1>14. code = [k \in 1 .. digits |-> (binary \div 10 ^ (digits - k)) % 10]
  BY <1>3 DEF Codes!Digits
<1>15. Codes!Joined(10, code) = binary % 10 ^ digits
  <2>1. ASSUME NEW k \in 1 .. digits PROVE (binary \div 10 ^ (digits - k)) % 10 \in Nat
    <3>1. digits - k \in 0 .. 9 OBVIOUS
    <3> DEFINE power == 10 ^ (digits - k)
    <3>2. power \in Nat \ {0} BY <3>1, NextPower
    <3> HIDE DEF power
    <3>3. binary \div power \in Nat BY <1>13, <3>2, Division
    <3>4. (binary \div power) % 10 \in Nat BY <3>3
    <3> QED BY <3>4 DEF power
  <2>2. code \in [1 .. digits -> Nat] BY <1>14, <2>1
  <2>3. 10 \in Nat /\ digits \in Nat /\ digits \in 0 .. 10 OBVIOUS
  <2>4. PICK value \in [0 .. digits -> Nat] :
          /\ value[0] = 0
          /\ \A k \in 1 .. digits : value[k] = 10 * value[k - 1] + code[k]
          /\ Codes!Joined(10, code) = value[digits]
    BY <2>2, <2>3, JoinedRuns, Zenon
  <2>5. \A k \in 1 .. digits : code[k] = (binary \div 10 ^ (digits - k)) % 10
    BY <1>14, Zenon
  <2>6. \A k \in 1 .. digits :
          value[k] = 10 * value[k - 1] + ((binary \div 10 ^ (digits - k)) % 10)
    BY <2>4, <2>5, Zenon
  <2>7. value[digits] = binary % 10 ^ digits
    BY <1>13, <2>3, <2>4, <2>6, DigitsSay, Zenon
  <2> QED BY <2>4, <2>7
<1>16. CASE digits < 10
  <2>1. offset + 4 <= n /\ Len(code) = digits BY <1>1, <1>5, <1>6, <1>14
  <2> QED BY <1>2, <1>6, <1>9, <1>15, <1>16, <2>1
<1>17. CASE ~(digits < 10)
  <2>1. offset + 4 <= n /\ Len(code) = digits BY <1>1, <1>5, <1>6, <1>14
  <2>2. digits = 10 BY <1>17
  <2>3. binary % 10 ^ digits = binary
    <3> DEFINE z == 10 ^ 10
    <3>1. z \in Nat /\ binary < z
      <4>1. 10 ^ 10 \in Nat BY PowersOfTen, SMT
      <4> QED BY <1>13, <4>1
    <3> HIDE DEF z
    <3>2. binary % z = binary BY <1>13, <3>1, Below, Zenon
    <3> QED BY <2>2, <3>2, Zenon DEF z
  <2> QED BY <1>2, <1>6, <1>9, <1>15, <1>17, <2>1, <2>3
<1> QED BY <1>16, <1>17

-----------------------------------------------------------------------------
(* base64.  The pieces of a byte, by its bits.                               *)
LEMMA OctetParts ==
  ASSUME NEW x \in 0 .. 255
  PROVE  /\ x \div 4 = 32 * BitOf(x, 8, 0) + 16 * BitOf(x, 8, 1) + 8 * BitOf(x, 8, 2)
                         + 4 * BitOf(x, 8, 3) + 2 * BitOf(x, 8, 4) + BitOf(x, 8, 5)
         /\ x % 4 = 2 * BitOf(x, 8, 6) + BitOf(x, 8, 7)
         /\ x \div 16 = 8 * BitOf(x, 8, 0) + 4 * BitOf(x, 8, 1) + 2 * BitOf(x, 8, 2)
                          + BitOf(x, 8, 3)
         /\ x % 16 = 8 * BitOf(x, 8, 4) + 4 * BitOf(x, 8, 5) + 2 * BitOf(x, 8, 6)
                       + BitOf(x, 8, 7)
         /\ x \div 64 = 2 * BitOf(x, 8, 0) + BitOf(x, 8, 1)
         /\ x % 64 = 32 * BitOf(x, 8, 2) + 16 * BitOf(x, 8, 3) + 8 * BitOf(x, 8, 4)
                       + 4 * BitOf(x, 8, 5) + 2 * BitOf(x, 8, 6) + BitOf(x, 8, 7)
<1>1. x = 128 * BitOf(x, 8, 0) + 64 * BitOf(x, 8, 1) + 32 * BitOf(x, 8, 2)
            + 16 * BitOf(x, 8, 3) + 8 * BitOf(x, 8, 4) + 4 * BitOf(x, 8, 5)
            + 2 * BitOf(x, 8, 6) + BitOf(x, 8, 7)
  BY OctetBits
<1>2. /\ BitOf(x, 8, 0) \in 0 .. 1 /\ BitOf(x, 8, 1) \in 0 .. 1
      /\ BitOf(x, 8, 2) \in 0 .. 1 /\ BitOf(x, 8, 3) \in 0 .. 1
      /\ BitOf(x, 8, 4) \in 0 .. 1 /\ BitOf(x, 8, 5) \in 0 .. 1
      /\ BitOf(x, 8, 6) \in 0 .. 1 /\ BitOf(x, 8, 7) \in 0 .. 1
  BY OctetDigits
<1>3. x \div 4 = 32 * BitOf(x, 8, 0) + 16 * BitOf(x, 8, 1) + 8 * BitOf(x, 8, 2)
         + 4 * BitOf(x, 8, 3) + 2 * BitOf(x, 8, 4) + BitOf(x, 8, 5)
      /\ x % 4 = 2 * BitOf(x, 8, 6) + BitOf(x, 8, 7)
  <2> DEFINE u == 32 * BitOf(x, 8, 0) + 16 * BitOf(x, 8, 1) + 8 * BitOf(x, 8, 2)
                + 4 * BitOf(x, 8, 3) + 2 * BitOf(x, 8, 4) + BitOf(x, 8, 5)
             v == 2 * BitOf(x, 8, 6) + BitOf(x, 8, 7)
  <2>1. u \in Nat BY <1>2
  <2>2. v \in 0 .. 3 BY <1>2
  <2>3. x = 4 * u + v BY <1>1, <1>2
  <2> HIDE DEF u, v
  <2>4. x \div 4 = u /\ x % 4 = v BY <2>1, <2>2, <2>3
  <2> QED BY <2>4, Zenon DEF u, v
<1>4. x \div 16 = 8 * BitOf(x, 8, 0) + 4 * BitOf(x, 8, 1) + 2 * BitOf(x, 8, 2)
          + BitOf(x, 8, 3)
      /\ x % 16 = 8 * BitOf(x, 8, 4) + 4 * BitOf(x, 8, 5)
                  + 2 * BitOf(x, 8, 6) + BitOf(x, 8, 7)
  <2> DEFINE u == 8 * BitOf(x, 8, 0) + 4 * BitOf(x, 8, 1) + 2 * BitOf(x, 8, 2)
                + BitOf(x, 8, 3)
             v == 8 * BitOf(x, 8, 4) + 4 * BitOf(x, 8, 5) + 2 * BitOf(x, 8, 6)
                + BitOf(x, 8, 7)
  <2>1. u \in Nat BY <1>2
  <2>2. v \in 0 .. 15 BY <1>2
  <2>3. x = 16 * u + v BY <1>1, <1>2
  <2> HIDE DEF u, v
  <2>4. x \div 16 = u /\ x % 16 = v BY <2>1, <2>2, <2>3
  <2> QED BY <2>4, Zenon DEF u, v
<1>5. x \div 64 = 2 * BitOf(x, 8, 0) + BitOf(x, 8, 1)
      /\ x % 64 = 32 * BitOf(x, 8, 2) + 16 * BitOf(x, 8, 3) + 8 * BitOf(x, 8, 4)
       + 4 * BitOf(x, 8, 5) + 2 * BitOf(x, 8, 6) + BitOf(x, 8, 7)
  <2> DEFINE u == 2 * BitOf(x, 8, 0) + BitOf(x, 8, 1)
             v == 32 * BitOf(x, 8, 2) + 16 * BitOf(x, 8, 3) + 8 * BitOf(x, 8, 4)
                + 4 * BitOf(x, 8, 5) + 2 * BitOf(x, 8, 6) + BitOf(x, 8, 7)
  <2>1. u \in Nat BY <1>2
  <2>2. v \in 0 .. 63 BY <1>2
  <2>3. x = 64 * u + v BY <1>1, <1>2
  <2> HIDE DEF u, v
  <2>4. x \div 64 = u /\ x % 64 = v BY <2>1, <2>2, <2>3
  <2> QED BY <2>4, Zenon DEF u, v
<1> QED BY <1>3, <1>4, <1>5, Zenon

(* The four sixes of three bytes.                                            *)
Six(x, y, z, p) ==
  CASE p = 0 -> x \div 4
    [] p = 1 -> (x % 4) * 16 + (y \div 16)
    [] p = 2 -> (y % 16) * 4 + (z \div 64)
    [] p = 3 -> z % 64

LEMMA SixSays ==
  ASSUME NEW x, NEW y, NEW z
  PROVE  /\ Six(x, y, z, 0) = x \div 4
         /\ Six(x, y, z, 1) = (x % 4) * 16 + (y \div 16)
         /\ Six(x, y, z, 2) = (y % 16) * 4 + (z \div 64)
         /\ Six(x, y, z, 3) = z % 64
  BY DEF Six

TripleOf(x, y, z) == x * 65536 + y * 256 + z
SixIn(v, p) == (v \div 64 ^ (3 - p)) % 64

LEMMA SixOfTriple ==
  ASSUME NEW x \in 0 .. 255, NEW y \in 0 .. 255, NEW z \in 0 .. 255, NEW p \in 0 .. 3
  PROVE  SixIn(TripleOf(x, y, z), p) = Six(x, y, z, p)
<1> USE DEF TripleOf, SixIn
<1>1. 64 ^ 3 = 262144 BY SMT
<1>2. 64 ^ 2 = 4096 BY SMT
<1>3. 64 ^ 1 = 64 BY SMT
<1>4. 64 ^ 0 = 1 BY SMT
<1>5. CASE p = 0
  <2>1. ((x * 65536 + y * 256 + z) \div 262144) % 64 = x \div 4 BY SMT
  <2>2. 3 - p = 3 BY <1>5, SMT
  <2> QED BY <1>1, <1>5, <2>1, <2>2, SMT DEF Six
<1>6. CASE p = 1
  <2>1. ((x * 65536 + y * 256 + z) \div 4096) % 64 = (x % 4) * 16 + (y \div 16)
    <3>1. (x * 65536 + y * 256 + z) \div 4096 = 16 * x + (y \div 16) BY SMT
    <3> DEFINE u == x \div 4
               v == x % 4
               w == y \div 16
    <3>2. x = 4 * u + v /\ u \in Nat /\ v \in 0 .. 3 /\ w \in 0 .. 15 BY SMT
    <3> HIDE DEF u, v, w
    <3>3. (16 * x + w) % 64 = v * 16 + w BY <3>2, SMT
    <3> QED BY <3>1, <3>3, SMT DEF v, w
  <2>2. 3 - p = 2 BY <1>6, SMT
  <2> QED BY <1>2, <1>6, <2>1, <2>2, SMT DEF Six
<1>7. CASE p = 2
  <2>1. ((x * 65536 + y * 256 + z) \div 64) % 64 = (y % 16) * 4 + (z \div 64) BY SMT
  <2>2. 3 - p = 1 BY <1>7, SMT
  <2> QED BY <1>3, <1>7, <2>1, <2>2, SMT DEF Six
<1>8. CASE p = 3
  <2>1. ((x * 65536 + y * 256 + z) \div 1) % 64 = z % 64 BY SMT
  <2>2. 3 - p = 0 BY <1>8, SMT
  <2> QED BY <1>4, <1>8, <2>1, <2>2, SMT DEF Six
<1> QED BY <1>5, <1>6, <1>7, <1>8, SMT

(* A byte of a group, none beyond the end, and the bits of its place.        *)
GroupByte(data, g, i) == IF 3 * g + i \in DOMAIN data THEN data[3 * g + i] ELSE 0

LEMMA GroupBits ==
  ASSUME NEW n \in Nat, NEW data \in [1 .. n -> 0 .. 255], NEW g \in Nat,
         NEW i \in 1 .. 3, NEW j \in 0 .. 7
  PROVE  /\ GroupByte(data, g, i) \in 0 .. 255
         /\ Codes!Bit(data, 8, 8 * (3 * g + (i - 1)) + j)
              = BitOf(GroupByte(data, g, i), 8, j)
<1>1. data \in [1 .. n -> Nat] /\ 8 \in Width /\ j \in 0 .. 8 - 1
  <2>1. \A k \in 1 .. n : data[k] \in 0 .. 255 OBVIOUS
  <2>2. \A y \in 0 .. 255 : y \in Nat OBVIOUS
  <2>3. data \in [1 .. n -> Nat] BY <2>1, <2>2
  <2> QED BY <2>3 DEF Width
<1>2. CASE 3 * g + i \in 1 .. n
  <2>1. 3 * g + (i - 1) \in 0 .. n - 1 /\ (3 * g + (i - 1)) + 1 = 3 * g + i BY <1>2
  <2>2. Codes!Bit(data, 8, 8 * (3 * g + (i - 1)) + j)
          = BitOf(data[(3 * g + (i - 1)) + 1], 8, j)
    BY <1>1, <2>1, BitInside
  <2>3. GroupByte(data, g, i) = data[3 * g + i] BY <1>2 DEF GroupByte
  <2>4. data[3 * g + i] \in 0 .. 255 BY <1>2
  <2> QED BY <2>1, <2>2, <2>3, <2>4, Zenon
<1>3. CASE ~(3 * g + i \in 1 .. n)
  <2>1. 8 * (3 * g + (i - 1)) + j \in Nat /\ 8 * (3 * g + (i - 1)) + j >= 8 * n BY <1>3
  <2>2. Codes!Bit(data, 8, 8 * (3 * g + (i - 1)) + j) = 0 BY <1>1, <2>1, BitOutside
  <2>3. GroupByte(data, g, i) = 0 BY <1>3 DEF GroupByte
  <2>4. BitOf(0, 8, j) = 0
    <3> DEFINE p == 2 ^ ((8 - 1) - j)
    <3>1. p \in Nat \ {0} BY <1>1, PowerOfBit
    <3> HIDE DEF p
    <3>2. (0 \div p) % 2 = 0 BY <3>1
    <3> QED BY <3>2 DEF BitOf, p
  <2>5. 0 \in 0 .. 255 OBVIOUS
  <2> QED BY <2>2, <2>3, <2>4, <2>5, Zenon
<1> QED BY <1>2, <1>3

LEMMA SixSplit ==
  ASSUME NEW b \in [1 .. 6 -> 0 .. 1]
  PROVE  LET sum == 32 * b[1] + 16 * b[2] + 8 * b[3] + 4 * b[4] + 2 * b[5] + b[6] IN
         /\ sum = (2 * b[1] + b[2]) * 16 + (8 * b[3] + 4 * b[4] + 2 * b[5] + b[6])
         /\ sum = (8 * b[1] + 4 * b[2] + 2 * b[3] + b[4]) * 4 + (2 * b[5] + b[6])
<1>1. /\ b[1] \in 0 .. 1 /\ b[2] \in 0 .. 1 /\ b[3] \in 0 .. 1
      /\ b[4] \in 0 .. 1 /\ b[5] \in 0 .. 1 /\ b[6] \in 0 .. 1
  OBVIOUS
<1>2. 32 * b[1] + 16 * b[2] + 8 * b[3] + 4 * b[4] + 2 * b[5] + b[6]
        = (2 * b[1] + b[2]) * 16 + (8 * b[3] + 4 * b[4] + 2 * b[5] + b[6])
  BY <1>1
<1>3. 32 * b[1] + 16 * b[2] + 8 * b[3] + 4 * b[4] + 2 * b[5] + b[6]
        = (8 * b[1] + 4 * b[2] + 2 * b[3] + b[4]) * 4 + (2 * b[5] + b[6])
  BY <1>1
<1> QED BY <1>2, <1>3

LEMMA SixOfRow ==
  ASSUME NEW n \in Nat, NEW data \in [1 .. n -> 0 .. 255], NEW g \in Nat, NEW p \in 0 .. 3
  PROVE  Codes!Joined(2, BitRow(data, 8, 6, 4 * g + p))
           = Six(GroupByte(data, g, 1), GroupByte(data, g, 2), GroupByte(data, g, 3), p)
<1> DEFINE b == BitRow(data, 8, 6, 4 * g + p)
           x == GroupByte(data, g, 1)
           y == GroupByte(data, g, 2)
           z == GroupByte(data, g, 3)
<1> SUFFICES Codes!Joined(2, b) = Six(x, y, z, p) OBVIOUS
<1>1. x \in 0 .. 255 /\ y \in 0 .. 255 /\ z \in 0 .. 255
  <2>1. 1 \in 1 .. 3 /\ 2 \in 1 .. 3 /\ 3 \in 1 .. 3 /\ 0 \in 0 .. 7 OBVIOUS
  <2> QED BY <2>1, GroupBits
<1>2. ASSUME NEW i \in 1 .. 3, NEW j \in 0 .. 7, NEW k \in 1 .. 6,
             6 * p + (k - 1) = 8 * (i - 1) + j
      PROVE  b[k] = BitOf(GroupByte(data, g, i), 8, j)
  <2>1. 6 * (4 * g + p) + (k - 1) = 8 * (3 * g + (i - 1)) + j BY <1>2
  <2>2. b[k] = Codes!Bit(data, 8, 6 * (4 * g + p) + (k - 1)) BY DEF BitRow
  <2>3. Codes!Bit(data, 8, 8 * (3 * g + (i - 1)) + j) = BitOf(GroupByte(data, g, i), 8, j)
    BY GroupBits
  <2> QED BY <2>1, <2>2, <2>3, Zenon
<1>3. b = [k \in 1 .. 6 |-> b[k]] BY DEF BitRow
<1> HIDE DEF b
<1>4. b \in [1 .. 6 -> 0 .. 1]
  <2>1. ASSUME NEW k \in 1 .. 6 PROVE b[k] \in 0 .. 1
    <3>1. PICK i \in 1 .. 3, j \in 0 .. 7 : 6 * p + (k - 1) = 8 * (i - 1) + j
      <4> DEFINE t == 6 * p + (k - 1)
      <4>1. t \in 0 .. 23 OBVIOUS
      <4>2. /\ t = 8 * (((t \div 8) + 1) - 1) + (t % 8)
            /\ (t \div 8) + 1 \in 1 .. 3 /\ t % 8 \in 0 .. 7
        BY <4>1
      <4> QED BY <4>2
    <3>2. b[k] = BitOf(GroupByte(data, g, i), 8, j) BY <1>2, <3>1
    <3>3. GroupByte(data, g, i) \in 0 .. 255 BY GroupBits
    <3> QED BY <3>2, <3>3, OctetDigits
  <2> QED BY <1>3, <2>1
<1>5. Codes!Joined(2, b) = 32 * b[1] + 16 * b[2] + 8 * b[3] + 4 * b[4] + 2 * b[5] + b[6]
  BY <1>4, SixBits
<1>6. CASE p = 0
  <2>1. /\ b[1] = BitOf(x, 8, 0) /\ b[2] = BitOf(x, 8, 1) /\ b[3] = BitOf(x, 8, 2)
        /\ b[4] = BitOf(x, 8, 3) /\ b[5] = BitOf(x, 8, 4) /\ b[6] = BitOf(x, 8, 5)
    BY <1>2, <1>6
  <2> HIDE DEF x, y, z
  <2>2. Codes!Joined(2, b) = x \div 4 BY <1>1, <1>5, <2>1, OctetParts, Zenon
  <2> QED BY <1>6, <2>2, SixSays
<1>7. CASE p = 1
  <2>1. /\ b[1] = BitOf(x, 8, 6) /\ b[2] = BitOf(x, 8, 7) /\ b[3] = BitOf(y, 8, 0)
        /\ b[4] = BitOf(y, 8, 1) /\ b[5] = BitOf(y, 8, 2) /\ b[6] = BitOf(y, 8, 3)
    BY <1>2, <1>7
  <2> HIDE DEF x, y, z
  <2>2. /\ x % 4 = 2 * b[1] + b[2] /\ y \div 16 = 8 * b[3] + 4 * b[4] + 2 * b[5] + b[6]
    BY <1>1, <2>1, OctetParts, Zenon
  <2>3. /\ b[1] \in 0 .. 1 /\ b[2] \in 0 .. 1 /\ b[3] \in 0 .. 1
        /\ b[4] \in 0 .. 1 /\ b[5] \in 0 .. 1 /\ b[6] \in 0 .. 1
    BY <1>4
  <2>4. Codes!Joined(2, b) = (x % 4) * 16 + (y \div 16)
    BY <1>4, <1>5, <2>2, SixSplit, Zenon
  <2> QED BY <1>7, <2>4, SixSays
<1>8. CASE p = 2
  <2>1. /\ b[1] = BitOf(y, 8, 4) /\ b[2] = BitOf(y, 8, 5) /\ b[3] = BitOf(y, 8, 6)
        /\ b[4] = BitOf(y, 8, 7) /\ b[5] = BitOf(z, 8, 0) /\ b[6] = BitOf(z, 8, 1)
    BY <1>2, <1>8
  <2> HIDE DEF x, y, z
  <2>2. /\ y % 16 = 8 * b[1] + 4 * b[2] + 2 * b[3] + b[4] /\ z \div 64 = 2 * b[5] + b[6]
    BY <1>1, <2>1, OctetParts, Zenon
  <2>3. /\ b[1] \in 0 .. 1 /\ b[2] \in 0 .. 1 /\ b[3] \in 0 .. 1
        /\ b[4] \in 0 .. 1 /\ b[5] \in 0 .. 1 /\ b[6] \in 0 .. 1
    BY <1>4
  <2>4. Codes!Joined(2, b) = (y % 16) * 4 + (z \div 64)
    BY <1>4, <1>5, <2>2, SixSplit, Zenon
  <2> QED BY <1>8, <2>4, SixSays
<1>9. CASE p = 3
  <2>1. /\ b[1] = BitOf(z, 8, 2) /\ b[2] = BitOf(z, 8, 3) /\ b[3] = BitOf(z, 8, 4)
        /\ b[4] = BitOf(z, 8, 5) /\ b[5] = BitOf(z, 8, 6) /\ b[6] = BitOf(z, 8, 7)
    BY <1>2, <1>9
  <2> HIDE DEF x, y, z
  <2>2. Codes!Joined(2, b) = z % 64 BY <1>1, <1>5, <2>1, OctetParts, Zenon
  <2> QED BY <1>9, <2>2, SixSays
<1> QED BY <1>6, <1>7, <1>8, <1>9

(* The text of base64Encode is its sixes in the alphabet, and padding.        *)
LEMMA EncodedText ==
  ASSUME NEW n \in Nat, NEW data \in [1 .. n -> 0 .. 255], NEW m, m = (8 * n + 5) \div 6
  PROVE  LET size == 4 * ((n + 2) \div 3)
             values == Codes!Regrouped(data, 8, 6, m)
         IN Codes!Base64Encode(data)
              = [k \in 1 .. size |->
                   IF k <= m THEN Codes!kAlphabet[values[k]] ELSE Codes!Equals]
<1> DEFINE size == 4 * ((n + 2) \div 3)
           values == Codes!Regrouped(data, 8, 6, m)
           char(k) == IF (k - 1) % 4 > n - 3 * ((k - 1) \div 4) THEN Codes!Equals
                      ELSE Codes!kAlphabet[(Codes!Triple(data, (k - 1) \div 4)
                                              \div 64 ^ (3 - ((k - 1) % 4))) % 64]
<1>1. Len(data) = n OBVIOUS
<1>2. Codes!Base64Encode(data) = [k \in 1 .. size |-> char(k)]
  BY <1>1 DEF Codes!Base64Encode
<1>3. ASSUME NEW k \in 1 .. size
      PROVE  char(k) = IF k <= m THEN Codes!kAlphabet[values[k]] ELSE Codes!Equals
  <2> DEFINE g == (k - 1) \div 4
             p == (k - 1) % 4
  <2>1. k - 1 = 4 * g + p /\ g \in Nat /\ p \in 0 .. 3 OBVIOUS
  <2>2. k <= m <=> ~(p > n - 3 * g)
    <3>1. m \in Nat /\ 6 * m <= 8 * n + 5 /\ 8 * n < 6 * m + 1 OBVIOUS
    <3>2. k <= 4 * ((n + 2) \div 3) /\ 3 * ((n + 2) \div 3) <= n + 2 OBVIOUS
    <3> HIDE DEF g, p
    <3> QED BY <2>1, <3>1, <3>2
  <2>3. CASE k <= m
    <3>1. m \in Nat /\ k \in 1 .. m BY <2>3
    <3>2. values[k] = Codes!Joined(2, BitRow(data, 8, 6, k - 1)) BY <3>1, RegroupedRow
    <3>3. Codes!Joined(2, BitRow(data, 8, 6, 4 * g + p))
            = Six(GroupByte(data, g, 1), GroupByte(data, g, 2), GroupByte(data, g, 3), p)
      BY <2>1, SixOfRow
    <3>4. Codes!Triple(data, g)
            = TripleOf(GroupByte(data, g, 1), GroupByte(data, g, 2),
                       GroupByte(data, g, 3))
      BY SMT DEF Codes!Triple, GroupByte, TripleOf
    <3>5. /\ GroupByte(data, g, 1) \in 0 .. 255 /\ GroupByte(data, g, 2) \in 0 .. 255
          /\ GroupByte(data, g, 3) \in 0 .. 255
      <4>1. 1 \in 1 .. 3 /\ 2 \in 1 .. 3 /\ 3 \in 1 .. 3 /\ 0 \in 0 .. 7 OBVIOUS
      <4> QED BY <2>1, <4>1, GroupBits
    <3> HIDE DEF g, p, values
    <3>6. SixIn(Codes!Triple(data, g), p)
            = Six(GroupByte(data, g, 1), GroupByte(data, g, 2), GroupByte(data, g, 3), p)
      <4> DEFINE x == GroupByte(data, g, 1)
                 y == GroupByte(data, g, 2)
                 z == GroupByte(data, g, 3)
      <4>1. p \in 0 .. 3 /\ x \in 0 .. 255 /\ y \in 0 .. 255 /\ z \in 0 .. 255
        BY <2>1, <3>5
      <4> HIDE DEF x, y, z
      <4>2. SixIn(TripleOf(x, y, z), p) = Six(x, y, z, p) BY <4>1, SixOfTriple
      <4> QED BY <3>4, <4>2, Zenon DEF x, y, z
    <3>7. values[k] = SixIn(Codes!Triple(data, g), p)
      BY <2>1, <3>2, <3>3, <3>6, Zenon
    <3>8. char(k) = Codes!kAlphabet[SixIn(Codes!Triple(data, g), p)]
      BY <2>2, <2>3, Zenon DEF g, p, SixIn
    <3> QED BY <2>3, <3>7, <3>8, Zenon
  <2>4. CASE ~(k <= m)
    <3>1. p > n - 3 * g BY <2>2, <2>4, Zenon
    <3>2. char(k) = Codes!Equals BY <3>1, Zenon
    <3> QED BY <2>4, <3>2, Zenon
  <2> QED BY <2>3, <2>4
<1> HIDE DEF char, values, size
<1>4. Codes!Base64Encode(data)
        = [k \in 1 .. size |->
             IF k <= m THEN Codes!kAlphabet[values[k]] ELSE Codes!Equals]
  BY <1>2, <1>3
<1> QED BY <1>4 DEF values, size

(* The alphabet is read as it is written.                                    *)
LEMMA AlphabetRead ==
  ASSUME NEW v \in 0 .. 63
  PROVE  Codes!kAlphabet[v] # Codes!Equals /\ Codes!DecodeChar(Codes!kAlphabet[v]) = v
<1>1. CASE v < 26
  <2>1. Codes!kAlphabet[v] = 65 + v BY <1>1 DEF Codes!kAlphabet
  <2> QED BY <1>1, <2>1 DEF Codes!DecodeChar, Codes!Equals
<1>2. CASE v \in 26 .. 51
  <2>1. Codes!kAlphabet[v] = 97 + (v - 26) BY <1>2 DEF Codes!kAlphabet
  <2> QED BY <1>2, <2>1 DEF Codes!DecodeChar, Codes!Equals
<1>3. CASE v \in 52 .. 61
  <2>1. Codes!kAlphabet[v] = 48 + (v - 52) BY <1>3 DEF Codes!kAlphabet
  <2> QED BY <1>3, <2>1 DEF Codes!DecodeChar, Codes!Equals
<1>4. CASE v = 62
  <2>1. Codes!kAlphabet[v] = 43 BY <1>4 DEF Codes!kAlphabet
  <2> QED BY <1>4, <2>1 DEF Codes!DecodeChar, Codes!Equals
<1>5. CASE v = 63
  <2>1. Codes!kAlphabet[v] = 47 BY <1>5 DEF Codes!kAlphabet
  <2> QED BY <1>5, <2>1 DEF Codes!DecodeChar, Codes!Equals
<1> QED BY <1>1, <1>2, <1>3, <1>4, <1>5

(* The bytes of a four, from its sixes.                                      *)
LEMMA SextetParts ==
  ASSUME NEW x \in 0 .. 63
  PROVE  /\ x \div 16 = 2 * BitOf(x, 6, 0) + BitOf(x, 6, 1)
         /\ x % 16 = 8 * BitOf(x, 6, 2) + 4 * BitOf(x, 6, 3)
                    + 2 * BitOf(x, 6, 4) + BitOf(x, 6, 5)
         /\ x \div 4 = 8 * BitOf(x, 6, 0) + 4 * BitOf(x, 6, 1)
                        + 2 * BitOf(x, 6, 2) + BitOf(x, 6, 3)
         /\ x % 4 = 2 * BitOf(x, 6, 4) + BitOf(x, 6, 5)
<1>1. x = 32 * BitOf(x, 6, 0) + 16 * BitOf(x, 6, 1) + 8 * BitOf(x, 6, 2)
          + 4 * BitOf(x, 6, 3) + 2 * BitOf(x, 6, 4) + BitOf(x, 6, 5)
  BY SextetBits
<1>2. ASSUME NEW j \in 0 .. 5 PROVE BitOf(x, 6, j) \in 0 .. 1
  <2>1. 6 \in Width /\ j \in 0 .. 6 - 1 /\ x \in Nat BY DEF Width
  <2> QED BY <2>1, BitIsBinary
<1>3. /\ BitOf(x, 6, 0) \in 0 .. 1 /\ BitOf(x, 6, 1) \in 0 .. 1
      /\ BitOf(x, 6, 2) \in 0 .. 1 /\ BitOf(x, 6, 3) \in 0 .. 1
      /\ BitOf(x, 6, 4) \in 0 .. 1 /\ BitOf(x, 6, 5) \in 0 .. 1
  BY <1>2
<1>4. /\ x \div 16 = 2 * BitOf(x, 6, 0) + BitOf(x, 6, 1)
      /\ x % 16 = 8 * BitOf(x, 6, 2) + 4 * BitOf(x, 6, 3)
                  + 2 * BitOf(x, 6, 4) + BitOf(x, 6, 5)
  <2> DEFINE u == 2 * BitOf(x, 6, 0) + BitOf(x, 6, 1)
             v == 8 * BitOf(x, 6, 2) + 4 * BitOf(x, 6, 3)
                  + 2 * BitOf(x, 6, 4) + BitOf(x, 6, 5)
  <2>1. u \in Nat BY <1>3
  <2>2. v \in 0 .. 15 BY <1>3
  <2>3. x = 16 * u + v BY <1>1, <1>3
  <2> HIDE DEF u, v
  <2>4. x \div 16 = u /\ x % 16 = v BY <2>1, <2>2, <2>3
  <2> QED BY <2>4, Zenon DEF u, v
<1>5. /\ x \div 4 = 8 * BitOf(x, 6, 0) + 4 * BitOf(x, 6, 1)
                   + 2 * BitOf(x, 6, 2) + BitOf(x, 6, 3)
      /\ x % 4 = 2 * BitOf(x, 6, 4) + BitOf(x, 6, 5)
  <2> DEFINE u == 8 * BitOf(x, 6, 0) + 4 * BitOf(x, 6, 1)
                  + 2 * BitOf(x, 6, 2) + BitOf(x, 6, 3)
             v == 2 * BitOf(x, 6, 4) + BitOf(x, 6, 5)
  <2>1. u \in Nat BY <1>3
  <2>2. v \in 0 .. 3 BY <1>3
  <2>3. x = 4 * u + v BY <1>1, <1>3
  <2> HIDE DEF u, v
  <2>4. x \div 4 = u /\ x % 4 = v BY <2>1, <2>2, <2>3
  <2> QED BY <2>4, Zenon DEF u, v
<1> QED BY <1>4, <1>5, Zenon

(* The three bytes of four sixes.                                            *)
Eight(x, y, z, w, i) ==
  CASE i = 0 -> x * 4 + (y \div 16)
    [] i = 1 -> (y % 16) * 16 + (z \div 4)
    [] i = 2 -> (z % 4) * 64 + w
QuadOf(x, y, z, w) == x * 262144 + y * 4096 + z * 64 + w

LEMMA EightSays ==
  ASSUME NEW x, NEW y, NEW z, NEW w
  PROVE  /\ Eight(x, y, z, w, 0) = x * 4 + (y \div 16)
         /\ Eight(x, y, z, w, 1) = (y % 16) * 16 + (z \div 4)
         /\ Eight(x, y, z, w, 2) = (z % 4) * 64 + w
  BY DEF Eight

LEMMA LowSixteen ==
  ASSUME NEW y \in 0 .. 15, NEW z \in 0 .. 63, NEW w \in 0 .. 63
  PROVE  y * 4096 + z * 64 + w \in Nat /\ y * 4096 + z * 64 + w < 65536
<1>1. y * 4096 <= 61440 /\ y * 4096 \in Int /\ 0 <= y * 4096 BY SMT
<1>2. z * 64 <= 4032 /\ z * 64 \in Int /\ 0 <= z * 64 BY SMT
<1>3. w <= 63 /\ w \in Int /\ 0 <= w BY SMT
<1> QED BY <1>1, <1>2, <1>3, SMT

LEMMA EightsOfQuad ==
  ASSUME NEW x \in 0 .. 63, NEW y \in 0 .. 63, NEW z \in 0 .. 63, NEW w \in 0 .. 63
  PROVE  Codes!ThreeBytes(QuadOf(x, y, z, w))
           = << Eight(x, y, z, w, 0), Eight(x, y, z, w, 1), Eight(x, y, z, w, 2) >>
<1> DEFINE y1 == y \div 16
           y2 == y % 16
           z1 == z \div 4
           z2 == z % 4
           v == QuadOf(x, y, z, w)
<1>1. y = 16 * y1 + y2 /\ y1 \in 0 .. 3 /\ y2 \in 0 .. 15 BY SMT
<1>2. z = 4 * z1 + z2 /\ z1 \in 0 .. 15 /\ z2 \in 0 .. 3 BY SMT
<1>3. v = x * 262144 + y * 4096 + z * 64 + w BY SMT DEF QuadOf
<1> HIDE DEF y1, y2, z1, z2, v
<1>4. v \div 65536 = x * 4 + y1
  <2>1. v = 65536 * (x * 4 + y1) + (y2 * 4096 + z * 64 + w) BY <1>1, <1>3, SMT
  <2> DEFINE p == x * 4 + y1
             r == y2 * 4096 + z * 64 + w
  <2>2. r \in Nat /\ r < 65536
    <3>1. y2 \in 0 .. 15 BY <1>1
    <3>2. y2 * 4096 + z * 64 + w \in Nat /\ y2 * 4096 + z * 64 + w < 65536
      BY <3>1, LowSixteen, SMT
    <3> QED BY <3>2, SMT
  <2>3. p \in Nat BY <1>1, SMT
  <2>4. v = 65536 * p + r BY <2>1, SMT
  <2> HIDE DEF p, r
  <2>5. v \div 65536 = p BY <2>2, <2>3, <2>4, SMT
  <2> QED BY <2>5, SMT DEF p
<1>5. (v \div 256) % 256 = y2 * 16 + z1
  <2>1. v = 256 * (256 * (x * 4 + y1) + (y2 * 16 + z1)) + (z2 * 64 + w)
    BY <1>1, <1>2, <1>3, SMT
  <2>2. z2 * 64 + w \in 0 .. 255 /\ y2 * 16 + z1 \in 0 .. 255 /\ x * 4 + y1 \in Nat
    BY <1>1, <1>2, SMT
  <2> DEFINE p == x * 4 + y1
             q == y2 * 16 + z1
             r == z2 * 64 + w
  <2>3. v = 256 * (256 * p + q) + r /\ p \in Nat /\ q \in 0 .. 255 /\ r \in 0 .. 255
    BY <2>1, <2>2, SMT
  <2> HIDE DEF p, q, r
  <2>4. v \div 256 = 256 * p + q
    <3> DEFINE u == 256 * p + q
    <3>1. u \in Nat /\ v = 256 * u + r BY <2>3, SMT
    <3> HIDE DEF u
    <3>2. v \div 256 = u BY <3>1, <2>3, SMT
    <3> QED BY <3>2, SMT DEF u
  <2>5. (256 * p + q) % 256 = q BY <2>3, SMT
  <2> QED BY <2>4, <2>5, SMT DEF q
<1>6. v % 256 = z2 * 64 + w
  <2>1. v = 256 * (256 * (x * 4 + y1) + (y2 * 16 + z1)) + (z2 * 64 + w)
    BY <1>1, <1>2, <1>3, SMT
  <2>2. z2 * 64 + w \in 0 .. 255 /\ 256 * (x * 4 + y1) + (y2 * 16 + z1) \in Nat
    BY <1>1, <1>2, SMT
  <2> QED BY <2>1, <2>2, SMT
<1>7. /\ Eight(x, y, z, w, 0) = x * 4 + y1 /\ Eight(x, y, z, w, 1) = y2 * 16 + z1
      /\ Eight(x, y, z, w, 2) = z2 * 64 + w
  BY EightSays, SMT DEF y1, y2, z1, z2
<1> QED BY <1>4, <1>5, <1>6, <1>7, SMT DEF v, Codes!ThreeBytes

LEMMA EightSplit ==
  ASSUME NEW b \in [1 .. 8 -> 0 .. 1]
  PROVE  LET sum == 128 * b[1] + 64 * b[2] + 32 * b[3] + 16 * b[4]
                      + 8 * b[5] + 4 * b[6] + 2 * b[7] + b[8] IN
         /\ sum = (32 * b[1] + 16 * b[2] + 8 * b[3] + 4 * b[4] + 2 * b[5] + b[6]) * 4
                    + (2 * b[7] + b[8])
         /\ sum = (8 * b[1] + 4 * b[2] + 2 * b[3] + b[4]) * 16
                    + (8 * b[5] + 4 * b[6] + 2 * b[7] + b[8])
         /\ sum = (2 * b[1] + b[2]) * 64
                    + (32 * b[3] + 16 * b[4] + 8 * b[5] + 4 * b[6] + 2 * b[7] + b[8])
<1>1. /\ b[1] \in 0 .. 1 /\ b[2] \in 0 .. 1 /\ b[3] \in 0 .. 1 /\ b[4] \in 0 .. 1
      /\ b[5] \in 0 .. 1 /\ b[6] \in 0 .. 1 /\ b[7] \in 0 .. 1 /\ b[8] \in 0 .. 1
  OBVIOUS
<1>2. 128 * b[1] + 64 * b[2] + 32 * b[3] + 16 * b[4]
        + 8 * b[5] + 4 * b[6] + 2 * b[7] + b[8]
        = (32 * b[1] + 16 * b[2] + 8 * b[3] + 4 * b[4] + 2 * b[5] + b[6]) * 4
            + (2 * b[7] + b[8])
  BY <1>1
<1>3. 128 * b[1] + 64 * b[2] + 32 * b[3] + 16 * b[4]
        + 8 * b[5] + 4 * b[6] + 2 * b[7] + b[8]
        = (8 * b[1] + 4 * b[2] + 2 * b[3] + b[4]) * 16
            + (8 * b[5] + 4 * b[6] + 2 * b[7] + b[8])
  BY <1>1
<1>4. 128 * b[1] + 64 * b[2] + 32 * b[3] + 16 * b[4]
        + 8 * b[5] + 4 * b[6] + 2 * b[7] + b[8]
        = (2 * b[1] + b[2]) * 64
            + (32 * b[3] + 16 * b[4] + 8 * b[5] + 4 * b[6] + 2 * b[7] + b[8])
  BY <1>1
<1> QED BY <1>2, <1>3, <1>4

(* A six of a group, none beyond the end, and the bits of its place.         *)
GroupSix(values, m, g, t) == IF 4 * g + t <= m THEN values[4 * g + t] ELSE 0

LEMMA GroupSixBits ==
  ASSUME NEW m \in Nat, NEW values \in [1 .. m -> 0 .. 63], NEW g \in Nat,
         NEW t \in 1 .. 4, NEW j \in 0 .. 5
  PROVE  /\ GroupSix(values, m, g, t) \in 0 .. 63
         /\ Codes!Bit(values, 6, 6 * (4 * g + (t - 1)) + j)
              = BitOf(GroupSix(values, m, g, t), 6, j)
<1>1. values \in [1 .. m -> Nat] /\ 6 \in Width /\ j \in 0 .. 6 - 1
  <2>1. \A k \in 1 .. m : values[k] \in 0 .. 63 OBVIOUS
  <2>2. \A y \in 0 .. 63 : y \in Nat OBVIOUS
  <2>3. values \in [1 .. m -> Nat] BY <2>1, <2>2
  <2> QED BY <2>3 DEF Width
<1>2. CASE 4 * g + t <= m
  <2>1. /\ 4 * g + (t - 1) \in 0 .. m - 1 /\ (4 * g + (t - 1)) + 1 = 4 * g + t
        /\ 4 * g + t \in 1 .. m
    BY <1>2
  <2>2. Codes!Bit(values, 6, 6 * (4 * g + (t - 1)) + j)
          = BitOf(values[(4 * g + (t - 1)) + 1], 6, j)
    BY <1>1, <2>1, BitInside
  <2>3. GroupSix(values, m, g, t) = values[4 * g + t] BY <1>2 DEF GroupSix
  <2>4. values[4 * g + t] \in 0 .. 63 BY <2>1
  <2> QED BY <2>1, <2>2, <2>3, <2>4, Zenon
<1>3. CASE ~(4 * g + t <= m)
  <2>1. 6 * (4 * g + (t - 1)) + j \in Nat /\ 6 * (4 * g + (t - 1)) + j >= 6 * m BY <1>3
  <2>2. Codes!Bit(values, 6, 6 * (4 * g + (t - 1)) + j) = 0 BY <1>1, <2>1, BitOutside
  <2>3. GroupSix(values, m, g, t) = 0 BY <1>3 DEF GroupSix
  <2>4. BitOf(0, 6, j) = 0
    <3> DEFINE p == 2 ^ ((6 - 1) - j)
    <3>1. p \in Nat \ {0} BY <1>1, PowerOfBit
    <3> HIDE DEF p
    <3>2. (0 \div p) % 2 = 0 BY <3>1
    <3> QED BY <3>2 DEF BitOf, p
  <2>5. 0 \in 0 .. 63 OBVIOUS
  <2> QED BY <2>2, <2>3, <2>4, <2>5, Zenon
<1> QED BY <1>2, <1>3

LEMMA EightOfRow ==
  ASSUME NEW m \in Nat, NEW values \in [1 .. m -> 0 .. 63],
         NEW g \in Nat, NEW i \in 0 .. 2
  PROVE  Codes!Joined(2, BitRow(values, 6, 8, 3 * g + i))
           = Eight(GroupSix(values, m, g, 1), GroupSix(values, m, g, 2),
                   GroupSix(values, m, g, 3), GroupSix(values, m, g, 4), i)
<1> DEFINE b == BitRow(values, 6, 8, 3 * g + i)
           x == GroupSix(values, m, g, 1)
           y == GroupSix(values, m, g, 2)
           z == GroupSix(values, m, g, 3)
           w == GroupSix(values, m, g, 4)
<1> SUFFICES Codes!Joined(2, b) = Eight(x, y, z, w, i) OBVIOUS
<1>1. x \in 0 .. 63 /\ y \in 0 .. 63 /\ z \in 0 .. 63 /\ w \in 0 .. 63
  <2>1. 1 \in 1 .. 4 /\ 2 \in 1 .. 4 /\ 3 \in 1 .. 4 /\ 4 \in 1 .. 4 /\ 0 \in 0 .. 5
    OBVIOUS
  <2> QED BY <2>1, GroupSixBits
<1>2. ASSUME NEW t \in 1 .. 4, NEW j \in 0 .. 5, NEW k \in 1 .. 8,
             8 * i + (k - 1) = 6 * (t - 1) + j
      PROVE  b[k] = BitOf(GroupSix(values, m, g, t), 6, j)
  <2>1. 8 * (3 * g + i) + (k - 1) = 6 * (4 * g + (t - 1)) + j BY <1>2
  <2>2. b[k] = Codes!Bit(values, 6, 8 * (3 * g + i) + (k - 1)) BY DEF BitRow
  <2>3. Codes!Bit(values, 6, 6 * (4 * g + (t - 1)) + j)
          = BitOf(GroupSix(values, m, g, t), 6, j)
    BY GroupSixBits
  <2> QED BY <2>1, <2>2, <2>3, Zenon
<1>3. b = [k \in 1 .. 8 |-> b[k]] BY DEF BitRow
<1> HIDE DEF b
<1>4. b \in [1 .. 8 -> 0 .. 1]
  <2>1. ASSUME NEW k \in 1 .. 8 PROVE b[k] \in 0 .. 1
    <3>1. PICK t \in 1 .. 4, j \in 0 .. 5 : 8 * i + (k - 1) = 6 * (t - 1) + j
      <4> DEFINE u == 8 * i + (k - 1)
      <4>1. u \in 0 .. 23 OBVIOUS
      <4>2. /\ u = 6 * (((u \div 6) + 1) - 1) + (u % 6) /\ (u \div 6) + 1 \in 1 .. 4
            /\ u % 6 \in 0 .. 5
        BY <4>1
      <4> QED BY <4>2
    <3>2. b[k] = BitOf(GroupSix(values, m, g, t), 6, j) BY <1>2, <3>1
    <3>3. GroupSix(values, m, g, t) \in 0 .. 63 BY GroupSixBits
    <3>4. 6 \in Width /\ j \in 0 .. 6 - 1 /\ GroupSix(values, m, g, t) \in Nat
      <4>1. \A e \in 0 .. 63 : e \in Nat OBVIOUS
      <4>2. GroupSix(values, m, g, t) \in Nat BY <3>3, <4>1, Zenon
      <4>3. 6 \in Width /\ j \in 0 .. 6 - 1 BY DEF Width
      <4> QED BY <4>2, <4>3, Zenon
    <3> QED BY <3>2, <3>4, BitIsBinary
  <2> QED BY <1>3, <2>1
<1>5. Codes!Joined(2, b) = 128 * b[1] + 64 * b[2] + 32 * b[3] + 16 * b[4]
                             + 8 * b[5] + 4 * b[6] + 2 * b[7] + b[8]
  BY <1>4, EightBits
<1>6. CASE i = 0
  <2>1. /\ b[1] = BitOf(x, 6, 0) /\ b[2] = BitOf(x, 6, 1) /\ b[3] = BitOf(x, 6, 2)
        /\ b[4] = BitOf(x, 6, 3) /\ b[5] = BitOf(x, 6, 4) /\ b[6] = BitOf(x, 6, 5)
        /\ b[7] = BitOf(y, 6, 0) /\ b[8] = BitOf(y, 6, 1)
    BY <1>2, <1>6
  <2> HIDE DEF x, y, z, w
  <2>2. x = 32 * b[1] + 16 * b[2] + 8 * b[3] + 4 * b[4] + 2 * b[5] + b[6]
    BY <1>1, <2>1, SextetParts, SextetBits, Zenon
  <2>3. y \div 16 = 2 * b[7] + b[8]
    BY <1>1, <2>1, SextetParts, SextetBits, Zenon
  <2>4. Codes!Joined(2, b) = x * 4 + (y \div 16)
    BY <1>4, <1>5, <2>2, <2>3, EightSplit, Zenon
  <2> QED BY <1>6, <2>4, EightSays
<1>7. CASE i = 1
  <2>1. /\ b[1] = BitOf(y, 6, 2) /\ b[2] = BitOf(y, 6, 3) /\ b[3] = BitOf(y, 6, 4)
        /\ b[4] = BitOf(y, 6, 5) /\ b[5] = BitOf(z, 6, 0) /\ b[6] = BitOf(z, 6, 1)
        /\ b[7] = BitOf(z, 6, 2) /\ b[8] = BitOf(z, 6, 3)
    BY <1>2, <1>7
  <2> HIDE DEF x, y, z, w
  <2>2. y % 16 = 8 * b[1] + 4 * b[2] + 2 * b[3] + b[4]
    BY <1>1, <2>1, SextetParts, SextetBits, Zenon
  <2>3. z \div 4 = 8 * b[5] + 4 * b[6] + 2 * b[7] + b[8]
    BY <1>1, <2>1, SextetParts, SextetBits, Zenon
  <2>4. Codes!Joined(2, b) = (y % 16) * 16 + (z \div 4)
    BY <1>4, <1>5, <2>2, <2>3, EightSplit, Zenon
  <2> QED BY <1>7, <2>4, EightSays
<1>8. CASE i = 2
  <2>1. /\ b[1] = BitOf(z, 6, 4) /\ b[2] = BitOf(z, 6, 5) /\ b[3] = BitOf(w, 6, 0)
        /\ b[4] = BitOf(w, 6, 1) /\ b[5] = BitOf(w, 6, 2) /\ b[6] = BitOf(w, 6, 3)
        /\ b[7] = BitOf(w, 6, 4) /\ b[8] = BitOf(w, 6, 5)
    BY <1>2, <1>8
  <2> HIDE DEF x, y, z, w
  <2>2. z % 4 = 2 * b[1] + b[2]
    BY <1>1, <2>1, SextetParts, SextetBits, Zenon
  <2>3. w = 32 * b[3] + 16 * b[4] + 8 * b[5] + 4 * b[6] + 2 * b[7] + b[8]
    BY <1>1, <2>1, SextetParts, SextetBits, Zenon
  <2>4. Codes!Joined(2, b) = (z % 4) * 64 + w
    BY <1>4, <1>5, <2>2, <2>3, EightSplit, Zenon
  <2> QED BY <1>8, <2>4, EightSays
<1> QED BY <1>6, <1>7, <1>8

(* The numbers of elements that the instances of the modules count.          *)
LEMMA SameCardinality == \A S : Codes!Cardinality(S) = Cardinality(S)
BY DEF Codes!Cardinality, Cardinality

(* base64Decode.  Every place but the first of a four gives a byte.           *)
LEMMA PlacesOfBytes ==
  ASSUME NEW m \in Nat
  PROVE  Cardinality({j \in 1 .. m : j % 4 # 1}) = (6 * m) \div 8
<1> DEFINE n == (6 * m) \div 8
           places == {j \in 1 .. m : j % 4 # 1}
           place(q) == 4 * ((q - 1) \div 3) + ((q - 1) % 3) + 2
           map == [q \in 1 .. n |-> place(q)]
<1>1. n \in Nat /\ 4 * n <= 3 * m /\ 3 * m < 4 * n + 4 OBVIOUS
<1> HIDE DEF n
<1>2. ASSUME NEW q \in 1 .. n PROVE place(q) \in places
  <2> DEFINE g == (q - 1) \div 3
             p == (q - 1) % 3
  <2>1. q - 1 = 3 * g + p /\ g \in Nat /\ p \in 0 .. 2 OBVIOUS
  <2> HIDE DEF g, p
  <2>2. 4 * g + p + 2 \in 1 .. m BY <1>1, <2>1
  <2>3. (4 * g + p + 2) % 4 # 1 BY <2>1
  <2> QED BY <2>2, <2>3 DEF g, p
<1>3. ASSUME NEW q \in 1 .. n, NEW r \in 1 .. n, place(q) = place(r) PROVE q = r
  <2> DEFINE g == (q - 1) \div 3
             p == (q - 1) % 3
             h == (r - 1) \div 3
             o == (r - 1) % 3
  <2>1. q - 1 = 3 * g + p /\ g \in Nat /\ p \in 0 .. 2 OBVIOUS
  <2>2. r - 1 = 3 * h + o /\ h \in Nat /\ o \in 0 .. 2 OBVIOUS
  <2>3. 4 * g + p = 4 * h + o BY <1>3, <2>1, <2>2
  <2> HIDE DEF g, p, h, o
  <2>4. g = h /\ p = o BY <2>1, <2>2, <2>3
  <2> QED BY <2>1, <2>2, <2>4
<1>4. ASSUME NEW j \in places PROVE \E q \in 1 .. n : place(q) = j
  <2> DEFINE g == (j - 1) \div 4
             p == (j - 1) % 4
             q == 3 * g + p
  <2>1. j - 1 = 4 * g + p /\ g \in Nat /\ p \in 0 .. 3 /\ j \in 1 .. m OBVIOUS
  <2>2. p # 0
    <3>1. p = 0 => j % 4 = 1
      <4> HAVE p = 0
      <4>1. j = 4 * g + 1 BY <2>1
      <4> HIDE DEF g
      <4>2. (4 * g + 1) % 4 = 1 BY <2>1
      <4> QED BY <4>1, <4>2, Zenon
    <3> QED BY <3>1
  <2> HIDE DEF g, p
  <2>3. q \in 1 .. n BY <1>1, <2>1, <2>2
  <2>4. q - 1 = 3 * g + (p - 1) /\ p - 1 \in 0 .. 2 BY <2>1, <2>2
  <2> HIDE DEF q
  <2>5. (q - 1) \div 3 = g /\ (q - 1) % 3 = p - 1 BY <2>1, <2>3, <2>4
  <2>6. place(q) = j BY <2>1, <2>5
  <2> QED BY <2>3, <2>6
<1> HIDE DEF place, places
<1>5. map \in Bijection(1 .. n, places)
  BY <1>2, <1>3, <1>4 DEF Bijection, Injection, Surjection, IsInjective
<1>6. Cardinality(places) = n BY <1>1, <1>5, FS_CountingElements DEF ExistsBijection
<1> QED BY <1>6 DEF n, places

(* A text of m characters of the alphabet, and padding.                       *)
PaddedText(values, m, size) ==
  [k \in 1 .. size |-> IF k <= m THEN Codes!kAlphabet[values[k]] ELSE Codes!Equals]

LEMMA PaddedChars ==
  ASSUME NEW size \in Nat, NEW m \in Nat, m <= size, NEW values \in [1 .. m -> 0 .. 63],
         NEW k \in 1 .. size
  PROVE  /\ k <= m => /\ PaddedText(values, m, size)[k] # Codes!Equals
                      /\ Codes!DecodeChar(PaddedText(values, m, size)[k]) = values[k]
                      /\ values[k] \in 0 .. 63
         /\ ~(k <= m) => PaddedText(values, m, size)[k] = Codes!Equals
<1>1. CASE k <= m
  <2>1. PaddedText(values, m, size)[k] = Codes!kAlphabet[values[k]]
    BY <1>1 DEF PaddedText
  <2>2. values[k] \in 0 .. 63 BY <1>1
  <2> QED BY <1>1, <2>1, <2>2, AlphabetRead, Zenon
<1>2. CASE ~(k <= m) BY <1>2 DEF PaddedText
<1> QED BY <1>1, <1>2

LEMMA PaddingOfText ==
  ASSUME NEW size \in Nat, NEW m \in Nat, m \in size - 2 .. size, size >= 2,
         NEW values \in [1 .. m -> 0 .. 63]
  PROVE  Codes!Padding(PaddedText(values, m, size)) = size - m
<1> DEFINE text == PaddedText(values, m, size)
<1>1. Len(text) = size BY DEF PaddedText
<1>2. ASSUME NEW k \in size - 1 .. size
      PROVE  text[k] = Codes!Equals <=> k \in m + 1 .. size
  <2>1. k \in 1 .. size /\ m <= size OBVIOUS
  <2>2. k <= m => text[k] # Codes!Equals BY <2>1, PaddedChars
  <2>3. ~(k <= m) => text[k] = Codes!Equals BY <2>1, PaddedChars
  <2> HIDE DEF text
  <2> QED BY <2>1, <2>2, <2>3
<1> HIDE DEF text
<1>3. {k \in size - 1 .. size : text[k] = Codes!Equals} = m + 1 .. size BY <1>2
<1>4. Cardinality(m + 1 .. size) = size - m
  <2>1. Cardinality(m + 1 .. size) = IF m + 1 > size THEN 0 ELSE size - (m + 1) + 1
    <3>1. m + 1 \in Int /\ size \in Int OBVIOUS
    <3> QED BY <3>1, FS_Interval
  <2> QED BY <2>1
<1>5. Codes!Padding(text) = size - m
  <2>1. Codes!Padding(text)
          = Cardinality({k \in Len(text) - 1 .. Len(text) : text[k] = Codes!Equals})
    BY SameCardinality, Zenon DEF Codes!Padding
  <2> QED BY <1>1, <1>3, <1>4, <2>1, Zenon
<1> QED BY <1>5 DEF text

(* The bytes of a four.                                                      *)
LEMMA QuadOfText ==
  ASSUME NEW size \in Nat, NEW m \in Nat, m <= size, NEW values \in [1 .. m -> 0 .. 63],
         NEW g \in Nat, 4 * g + 4 <= size, 4 * g + 2 <= m,
         NEW i \in 0 .. 2, 4 * g + i + 2 <= m
  PROVE  Codes!Quad(PaddedText(values, m, size), g)[i + 1]
           = Eight(GroupSix(values, m, g, 1), GroupSix(values, m, g, 2),
                   GroupSix(values, m, g, 3), GroupSix(values, m, g, 4), i)
<1> DEFINE text == PaddedText(values, m, size)
           worth(k) == IF text[4 * g + k] = Codes!Equals THEN 0
                       ELSE Codes!DecodeChar(text[4 * g + k])
           number == worth(1) * 262144 + worth(2) * 4096 + worth(3) * 64 + worth(4)
           full == {k \in 1 .. 4 : text[4 * g + k] # Codes!Equals}
           valid == Cardinality(full)
           bytes == Codes!ThreeBytes(number)
           kept == IF valid = 4 THEN 3 ELSE IF valid = 3 THEN 2 ELSE 1
           x == GroupSix(values, m, g, 1)
           y == GroupSix(values, m, g, 2)
           z == GroupSix(values, m, g, 3)
           w == GroupSix(values, m, g, 4)
<1>1. Codes!Quad(text, g) = SubSeq(bytes, 1, kept)
  <2>1. Codes!Cardinality(full) = Cardinality(full) BY SameCardinality
  <2>2. number = Codes!QuadValue(text, g) BY SMT DEF Codes!QuadValue
  <2> HIDE DEF number
  <2> QED BY <2>1, <2>2, Zenon DEF Codes!Quad
<1>2. ASSUME NEW k \in 1 .. 4
      PROVE  /\ text[4 * g + k] # Codes!Equals <=> 4 * g + k <= m
             /\ worth(k) = GroupSix(values, m, g, k)
  <2>1. 4 * g + k \in 1 .. size OBVIOUS
  <2>2. CASE 4 * g + k <= m
    <3>1. /\ text[4 * g + k] # Codes!Equals
          /\ Codes!DecodeChar(text[4 * g + k]) = values[4 * g + k]
      BY <2>1, <2>2, PaddedChars
    <3> QED BY <2>2, <3>1, SMT DEF GroupSix
  <2>3. CASE ~(4 * g + k <= m)
    <3>1. text[4 * g + k] = Codes!Equals BY <2>1, <2>3, PaddedChars
    <3> QED BY <2>3, <3>1, SMT DEF GroupSix
  <2> QED BY <2>2, <2>3
<1> HIDE DEF text
<1>3. x \in 0 .. 63 /\ y \in 0 .. 63 /\ z \in 0 .. 63 /\ w \in 0 .. 63
  <2>1. 1 \in 1 .. 4 /\ 2 \in 1 .. 4 /\ 3 \in 1 .. 4 /\ 4 \in 1 .. 4 /\ 0 \in 0 .. 5
    OBVIOUS
  <2> QED BY <2>1, GroupSixBits
<1>4. number = QuadOf(x, y, z, w)
  <2>1. worth(1) = x /\ worth(2) = y /\ worth(3) = z /\ worth(4) = w BY <1>2, SMT
  <2> HIDE DEF worth, x, y, z, w
  <2> QED BY <2>1, SMT DEF QuadOf
<1>5. kept \in 1 .. 3 /\ i + 1 <= kept
  <2> DEFINE c == IF 4 * g + 4 <= m THEN 4 ELSE m - 4 * g
  <2>1. c \in 2 .. 4 OBVIOUS
  <2>2. full = 1 .. c BY <1>2
  <2>3. Cardinality(1 .. c) = c
    <3> HIDE DEF c
    <3>1. 1 \in Int /\ c \in Int BY <2>1
    <3>2. Cardinality(1 .. c) = IF 1 > c THEN 0 ELSE c - 1 + 1 BY <3>1, FS_Interval
    <3> QED BY <2>1, <3>2
  <2>4. valid = c BY <2>2, <2>3, Zenon
  <2>5. kept = c - 1 BY <2>1, <2>4, SMT
  <2> HIDE DEF kept
  <2> QED BY <2>1, <2>5, SMT
<1> DEFINE q == QuadOf(x, y, z, w)
           quad == Codes!ThreeBytes(q)
           says == << Eight(x, y, z, w, 0), Eight(x, y, z, w, 1), Eight(x, y, z, w, 2) >>
<1>6. bytes = quad
  <2> HIDE DEF number, x, y, z, w
  <2> QED BY <1>4, SMT
<1>7. quad = says
  <2> HIDE DEF x, y, z, w
  <2> QED BY <1>3, EightsOfQuad, Zenon
<1> HIDE DEF x, y, z, w, bytes, kept, quad
<1>8. Codes!Quad(text, g) = SubSeq(says, 1, kept) BY <1>1, <1>6, <1>7, Zenon
<1>9. says[i + 1] = Eight(x, y, z, w, i) OBVIOUS
<1>10. SubSeq(says, 1, kept)[i + 1] = says[i + 1]
  <2>1. \A k \in 1 .. kept : says[k] \in {says[1], says[2], says[3]} BY <1>5
  <2>2. i + 1 \in 1 .. kept - 1 + 1 /\ 1 + (i + 1) - 1 = i + 1 BY <1>5
  <2>3. 1 \in Int /\ kept \in Int BY <1>5
  <2> HIDE DEF says
  <2>4. \A k \in 1 .. kept - 1 + 1 : SubSeq(says, 1, kept)[k] = says[1 + k - 1]
    BY <2>1, <2>3, SubSeqProperties
  <2> QED BY <2>2, <2>4
<1>11. Codes!Quad(text, g)[i + 1] = Eight(x, y, z, w, i) BY <1>8, <1>9, <1>10, Zenon
<1> QED BY <1>11, Zenon DEF text, x, y, z, w

(* base64Decode of a text with its padding gives the bytes of the sixes.      *)
LEMMA PaddedRead ==
  ASSUME NEW size \in Nat, size % 4 = 0, NEW m \in Nat, m \in size - 2 .. size,
         NEW values \in [1 .. m -> 0 .. 63]
  PROVE  Codes!Base64Decode(PaddedText(values, m, size))
           = Codes!Regrouped(values, 6, 8, (6 * m) \div 8)
<1> DEFINE text == PaddedText(values, m, size)
           n == (6 * m) \div 8
           bad(k) == IF text[k] = Codes!Equals THEN k <= Len(text) - Codes!Padding(text)
                     ELSE Codes!DecodeChar(text[k]) = Codes!Invalid
           bytes == {j \in DOMAIN text : j % 4 # 1 /\ text[j] # Codes!Equals}
           byte(k) == Codes!Quad(text, (k - 1) \div 3)[((k - 1) % 3) + 1]
<1>1. Len(text) = size /\ DOMAIN text = 1 .. size /\ m <= size BY DEF PaddedText
<1>2. n \in Nat /\ 4 * n <= 3 * m OBVIOUS
<1>3. ASSUME NEW k \in DOMAIN text PROVE ~bad(k)
  <2>1. k \in 1 .. size BY <1>1
  <2>2. size >= 2 BY <2>1
  <2>3. Codes!Padding(text) = size - m BY <2>2, PaddingOfText
  <2>4. CASE k <= m
    <3>1. /\ text[k] # Codes!Equals /\ Codes!DecodeChar(text[k]) = values[k]
          /\ values[k] \in 0 .. 63
      BY <1>1, <2>1, <2>4, PaddedChars
    <3>2. \A v \in 0 .. 63 : v # Codes!Invalid BY DEF Codes!Invalid
    <3> QED BY <3>1, <3>2, Zenon
  <2>5. CASE ~(k <= m)
    <3>1. text[k] = Codes!Equals BY <1>1, <2>1, <2>5, PaddedChars
    <3> HIDE DEF text
    <3>2. Len(text) - Codes!Padding(text) = m BY <1>1, <2>3
    <3> QED BY <2>5, <3>1, <3>2, Zenon
  <2> QED BY <2>4, <2>5
<1>4. ASSUME NEW k \in 1 .. n PROVE byte(k) = Codes!Regrouped(values, 6, 8, n)[k]
  <2> DEFINE g == (k - 1) \div 3
             i == (k - 1) % 3
             eight == Eight(GroupSix(values, m, g, 1), GroupSix(values, m, g, 2),
                            GroupSix(values, m, g, 3), GroupSix(values, m, g, 4), i)
  <2>1. k - 1 = 3 * g + i /\ g \in Nat /\ i \in 0 .. 2 OBVIOUS
  <2>2. 4 * g + i + 2 <= m /\ 4 * g + 2 <= m /\ 4 * g + 4 <= size
    <3> HIDE DEF g, i, n
    <3>1. 4 * g + i + 2 <= m BY <1>2, <2>1
    <3>2. 4 * g + 2 <= m BY <2>1, <3>1
    <3>3. size = 4 * (size \div 4) OBVIOUS
    <3> DEFINE q == size \div 4
    <3>4. q \in Int /\ size = 4 * q BY <3>3
    <3> HIDE DEF q
    <3>5. 4 * g + 4 <= size BY <1>1, <2>1, <3>2, <3>4
    <3> QED BY <3>1, <3>2, <3>5
  <2>3. Codes!Quad(text, g)[i + 1] = eight
    <3> HIDE DEF g, i
    <3> QED BY <1>1, <2>1, <2>2, QuadOfText
  <2>4. Codes!Joined(2, BitRow(values, 6, 8, 3 * g + i)) = eight
    <3> HIDE DEF g, i
    <3> QED BY <2>1, EightOfRow
  <2>5. Codes!Regrouped(values, 6, 8, n)[k] = Codes!Joined(2, BitRow(values, 6, 8, k - 1))
    <3> HIDE DEF n
    <3> QED BY <1>2, RegroupedRow
  <2> HIDE DEF eight
  <2> QED BY <2>1, <2>3, <2>4, <2>5, Zenon
<1>5. bytes = {j \in 1 .. m : j % 4 # 1}
  <2>1. ASSUME NEW j \in 1 .. size PROVE text[j] # Codes!Equals <=> j <= m
    BY <1>1, PaddedChars
  <2> HIDE DEF text
  <2> QED BY <1>1, <2>1
<1> HIDE DEF text
<1>6. Codes!Cardinality(bytes) = n
  BY <1>5, PlacesOfBytes, SameCardinality, Zenon DEF n
<1>7. Codes!Base64Decode(text) = [k \in 1 .. Codes!Cardinality(bytes) |-> byte(k)]
  <2>1. ~(\/ Len(text) % 4 # 0 \/ \E k \in DOMAIN text : bad(k)) BY <1>1, <1>3
  <2> QED BY <2>1, Zenon DEF Codes!Base64Decode
<1> HIDE DEF n, byte, bytes
<1>8. Codes!Regrouped(values, 6, 8, n)
        = [k \in 1 .. n |-> Codes!Regrouped(values, 6, 8, n)[k]]
  BY DEF Codes!Regrouped
<1>9. Codes!Base64Decode(text) = Codes!Regrouped(values, 6, 8, n)
  BY <1>4, <1>6, <1>7, <1>8
<1> QED BY <1>9, Zenon DEF text, n

(* What base64Encode makes of any bytes has the characters, the length and    *)
(* the padding of the RFC, and base64Decode gives the bytes back.             *)
THEOREM Base64Exact ==
  ASSUME NEW data \in Seq(0 .. 255)
  PROVE  Codes!Base64Writes(data)
<1> DEFINE n == Len(data)
           m == (8 * n + 5) \div 6
           size == 4 * ((n + 2) \div 3)
           values == Codes!Regrouped(data, 8, 6, m)
           text == Codes!Base64Encode(data)
<1>1. n \in Nat /\ data \in [1 .. n -> 0 .. 255] BY LenProperties
<1> HIDE DEF n
<1>2. m \in Nat /\ 8 * n <= 6 * m /\ 6 * m <= 8 * n + 5 BY <1>1
<1>3. size \in Nat /\ size % 4 = 0 /\ m \in size - 2 .. size
  <2> DEFINE q == (n + 2) \div 3
  <2>1. q \in Nat /\ 3 * q <= n + 2 /\ n <= 3 * q BY <1>1
  <2> HIDE DEF q, m
  <2>2. (4 * q) % 4 = 0 BY <2>1
  <2>3. m \in 4 * q - 2 .. 4 * q BY <1>1, <1>2, <2>1
  <2> QED BY <2>1, <2>2, <2>3 DEF q
<1>4. values \in [1 .. m -> 0 .. 63]
  <2>1. ASSUME NEW k \in 1 .. m PROVE values[k] \in 0 .. 63
    <3>1. values[k] = Codes!Joined(2, BitRow(data, 8, 6, k - 1))
      <4> HIDE DEF m
      <4> QED BY <1>2, RegroupedRow
    <3>2. BitRow(data, 8, 6, k - 1) \in [1 .. 6 -> 0 .. 1]
      <4>1. \A x \in 0 .. 255 : x \in Nat OBVIOUS
      <4>2. data \in [1 .. n -> Nat] BY <1>1, <4>1
      <4>3. 8 \in Width /\ \A j \in 1 .. 6 : 6 * (k - 1) + (j - 1) \in Nat
        BY <1>2 DEF Width
      <4>4. \A j \in 1 .. 6 : Codes!Bit(data, 8, 6 * (k - 1) + (j - 1)) \in 0 .. 1
        BY <1>1, <4>2, <4>3, RowIsBinary
      <4> QED BY <4>4 DEF BitRow
    <3> QED BY <3>1, <3>2, SextetSays, Zenon
  <2>2. values = [k \in 1 .. m |-> values[k]] BY DEF Codes!Regrouped
  <2> HIDE DEF values, m
  <2> QED BY <2>1, <2>2
<1> HIDE DEF m, size, values
<1>5. text = PaddedText(values, m, size)
  BY <1>1, EncodedText, Zenon DEF PaddedText, m, size, values
<1>6. Len(text) = size /\ DOMAIN text = 1 .. size
  BY <1>3, <1>5 DEF PaddedText
<1>7. DOMAIN values = 1 .. m BY <1>4
<1>8. text = [k \in DOMAIN text |-> IF k \in DOMAIN values THEN Codes!kAlphabet[values[k]]
                                    ELSE Codes!Equals]
  <2>1. \A k \in 1 .. size : k <= m <=> k \in 1 .. m BY <1>2, <1>3
  <2> HIDE DEF text
  <2> QED BY <1>5, <1>6, <1>7, <2>1 DEF PaddedText
<1>9. Codes!Base64Decode(text) = data
  <2>1. (6 * m) \div 8 = n BY <1>1, <1>2
  <2>2. Codes!Base64Decode(text) = Codes!Regrouped(values, 6, 8, n)
    BY <1>2, <1>3, <1>4, <1>5, <2>1, PaddedRead
  <2>3. Codes!Regrouped(values, 6, 8, n) = data
    BY <1>1, <1>2, RegroupedBack DEF values
  <2> QED BY <2>2, <2>3, Zenon
<1> HIDE DEF text
<1> QED
  <2>1. Len(text) % 4 = 0 BY <1>3, <1>6
  <2> QED BY <1>8, <1>9, <2>1, Zenon DEF Codes!Base64Writes, text, values, m, n

(* A character is read exactly if it is of the alphabet.                      *)
LEMMA AlphabetSought ==
  ASSUME NEW c \in Nat, Codes!DecodeChar(c) # Codes!Invalid
  PROVE  /\ Codes!DecodeChar(c) \in 0 .. 63
         /\ Codes!kAlphabet[Codes!DecodeChar(c)] = c
<1>1. CASE c \in 65 .. 90
  <2>1. Codes!DecodeChar(c) = c - 65 BY <1>1 DEF Codes!DecodeChar
  <2>2. Codes!kAlphabet[c - 65] = 65 + (c - 65) BY <1>1 DEF Codes!kAlphabet
  <2> QED BY <1>1, <2>1, <2>2
<1>2. CASE c \in 97 .. 122
  <2>1. Codes!DecodeChar(c) = (c - 97) + 26 BY <1>2 DEF Codes!DecodeChar
  <2>2. Codes!kAlphabet[(c - 97) + 26] = 97 + (((c - 97) + 26) - 26)
    BY <1>2 DEF Codes!kAlphabet
  <2> QED BY <1>2, <2>1, <2>2
<1>3. CASE c \in 48 .. 57
  <2>1. Codes!DecodeChar(c) = (c - 48) + 52 BY <1>3 DEF Codes!DecodeChar
  <2>2. Codes!kAlphabet[(c - 48) + 52] = 48 + (((c - 48) + 52) - 52)
    BY <1>3 DEF Codes!kAlphabet
  <2> QED BY <1>3, <2>1, <2>2
<1>4. CASE c = 43
  <2>1. Codes!DecodeChar(c) = 62 BY <1>4 DEF Codes!DecodeChar
  <2>2. Codes!kAlphabet[62] = 43 BY DEF Codes!kAlphabet
  <2> QED BY <1>4, <2>1, <2>2
<1>5. CASE c = 47
  <2>1. Codes!DecodeChar(c) = 63 BY <1>5 DEF Codes!DecodeChar
  <2>2. Codes!kAlphabet[63] = 47 BY DEF Codes!kAlphabet
  <2> QED BY <1>5, <2>1, <2>2
<1>6. CASE ~(c \in 65 .. 90 \/ c \in 97 .. 122 \/ c \in 48 .. 57 \/ c = 43 \/ c = 47)
  <2>1. Codes!DecodeChar(c) = Codes!Invalid BY <1>6 DEF Codes!DecodeChar
  <2> QED BY <2>1
<1> QED BY <1>1, <1>2, <1>3, <1>4, <1>5, <1>6

(* Texts of n characters of the alphabet, and padding.                        *)
Unpadded(text) ==
  {n \in Nat \cap (Len(text) - 2 .. Len(text)) :
     /\ \A k \in 1 .. n : \E v \in 0 .. 63 : text[k] = Codes!kAlphabet[v]
     /\ \A k \in n + 1 .. Len(text) : text[k] = Codes!Equals}

LEMMA UnpaddedRead ==
  ASSUME NEW text \in Seq(Nat), Len(text) % 4 = 0, NEW n \in Unpadded(text)
  PROVE  Codes!Base64Decode(text)
           = Codes!Regrouped([k \in 1 .. n |->
                                CHOOSE v \in 0 .. 63 : Codes!kAlphabet[v] = text[k]],
                             6, 8, (6 * n) \div 8)
<1> DEFINE value(k) == CHOOSE v \in 0 .. 63 : Codes!kAlphabet[v] = text[k]
           values == [k \in 1 .. n |-> value(k)]
           size == Len(text)
<1>1. size \in Nat /\ text = [k \in 1 .. size |-> text[k]] BY LenProperties
<1>2. /\ n \in Nat /\ n \in size - 2 .. size
      /\ \A k \in 1 .. n : \E v \in 0 .. 63 : text[k] = Codes!kAlphabet[v]
      /\ \A k \in n + 1 .. size : text[k] = Codes!Equals
  BY DEF Unpadded
<1>3. ASSUME NEW k \in 1 .. n
      PROVE  value(k) \in 0 .. 63 /\ Codes!kAlphabet[value(k)] = text[k]
  <2>1. \E v \in 0 .. 63 : Codes!kAlphabet[v] = text[k] BY <1>2, Zenon
  <2> QED BY <2>1, Zenon
<1>4. values \in [1 .. n -> 0 .. 63]
  <2> HIDE DEF value
  <2> QED BY <1>3
<1>5. ASSUME NEW k \in 1 .. size
      PROVE  text[k] = IF k <= n THEN Codes!kAlphabet[values[k]] ELSE Codes!Equals
  <2>1. CASE k <= n
    <3>1. k \in 1 .. n BY <1>2, <2>1
    <3>2. values[k] = value(k) BY <3>1
    <3> HIDE DEF value, values
    <3> QED BY <1>3, <2>1, <3>1, <3>2, Zenon
  <2>2. CASE ~(k <= n)
    <3>1. k \in n + 1 .. size BY <1>1, <1>2, <2>2
    <3> QED BY <1>2, <2>2, <3>1, Zenon
  <2> QED BY <2>1, <2>2
<1> HIDE DEF value, values, size
<1>6. text = PaddedText(values, n, size)
  BY <1>1, <1>5, Zenon DEF PaddedText
<1>7. Codes!Base64Decode(PaddedText(values, n, size))
        = Codes!Regrouped(values, 6, 8, (6 * n) \div 8)
  <2>1. size % 4 = 0 BY DEF size
  <2> QED BY <1>1, <1>2, <1>4, <2>1, PaddedRead
<1>8. Codes!Base64Decode(text) = Codes!Regrouped(values, 6, 8, (6 * n) \div 8)
  BY <1>6, <1>7, Zenon
<1> QED BY <1>8, Zenon DEF values, value

(* What is read consists of them.                                            *)
LEMMA ReadIsUnpadded ==
  ASSUME NEW text \in Seq(Nat), Len(text) % 4 = 0,
         \A k \in DOMAIN text :
           IF text[k] = Codes!Equals THEN ~(k <= Len(text) - Codes!Padding(text))
           ELSE Codes!DecodeChar(text[k]) # Codes!Invalid
  PROVE  Unpadded(text) # {}
<1> DEFINE size == Len(text)
           ends == {k \in size - 1 .. size : text[k] = Codes!Equals}
           p == Cardinality(ends)
           n == size - p
<1>1. size \in Nat /\ DOMAIN text = 1 .. size BY LenProperties
<1>2. Codes!Padding(text) = p
  <2>1. Codes!Padding(text) = Codes!Cardinality(ends) BY Zenon DEF Codes!Padding
  <2> QED BY <2>1, SameCardinality
<1>3. p \in 0 .. 2
  <2>1. IsFiniteSet(size - 1 .. size) /\ Cardinality(size - 1 .. size) = 2
    <3>1. size - 1 \in Int /\ size \in Int BY <1>1
    <3>2. Cardinality(size - 1 .. size)
            = IF size - 1 > size THEN 0 ELSE size - (size - 1) + 1
      BY <3>1, FS_Interval
    <3>3. IsFiniteSet(size - 1 .. size) BY <3>1, FS_Interval
    <3> HIDE DEF size
    <3>4. size - (size - 1) + 1 = 2 /\ ~(size - 1 > size) BY <1>1
    <3> QED BY <3>2, <3>3, <3>4
  <2>2. ends \in SUBSET (size - 1 .. size) OBVIOUS
  <2>3. IsFiniteSet(ends) /\ p <= 2
    <3> HIDE DEF ends, size
    <3> QED BY <2>1, <2>2, FS_Subset
  <2>4. p \in Nat BY <2>3, FS_CardinalityType
  <2> QED BY <2>3, <2>4
<1>4. CASE size = 0
  <2>1. 0 \in Unpadded(text) BY <1>4 DEF Unpadded
  <2> QED BY <2>1
<1>5. CASE size # 0
  <2>1. size >= 2
    <3> HIDE DEF size
    <3>1. size % 4 = 0 BY DEF size
    <3> QED BY <1>1, <1>5, <3>1
  <2>2. n \in Nat /\ n \in size - 2 .. size
    <3> HIDE DEF p, size
    <3> QED BY <1>1, <1>3, <2>1
  <2>3. ASSUME NEW k \in 1 .. n PROVE \E v \in 0 .. 63 : text[k] = Codes!kAlphabet[v]
    <3>1. k \in 1 .. size /\ k <= n
      <4> HIDE DEF p, size
      <4> QED BY <1>1, <1>3
    <3>2. text[k] # Codes!Equals
      <4>1. k <= size - Codes!Padding(text) BY <1>2, <3>1, Zenon
      <4> HIDE DEF p
      <4> QED BY <1>1, <3>1, <4>1, Zenon
    <3>3. Codes!DecodeChar(text[k]) # Codes!Invalid BY <1>1, <3>1, <3>2, Zenon
    <3>4. text[k] \in Nat BY <3>1, ElementOfSeq
    <3> QED BY <3>3, <3>4, AlphabetSought, Zenon
  <2>4. ASSUME NEW k \in n + 1 .. size PROVE text[k] = Codes!Equals
    <3>1. k \in size - 1 .. size
      <4> HIDE DEF p, size
      <4> QED BY <1>1, <1>3
    <3>2. ASSUME NEW j \in size - 1 .. size, text[j] = Codes!Equals
          PROVE  j \in n + 1 .. size
      <4>1. j \in 1 .. size
        <5> HIDE DEF size
        <5> QED BY <1>1, <2>1
      <4>2. ~(j <= n)
        <5>1. ~(j <= size - Codes!Padding(text)) BY <1>1, <3>2, <4>1, Zenon
        <5> QED BY <1>2, <5>1, Zenon
      <4> HIDE DEF p, size
      <4> QED BY <1>1, <1>3, <4>1, <4>2
    <3>3. ends \in SUBSET (n + 1 .. size)
      <4> HIDE DEF n, size
      <4> QED BY <3>2
    <3>4. IsFiniteSet(n + 1 .. size) /\ Cardinality(n + 1 .. size) = p
      <4> HIDE DEF p, size
      <4>1. n + 1 \in Int /\ size \in Int BY <1>1, <1>3
      <4>2. Cardinality(n + 1 .. size) = IF n + 1 > size THEN 0 ELSE size - (n + 1) + 1
        BY <4>1, FS_Interval
      <4>3. IsFiniteSet(n + 1 .. size) BY <4>1, FS_Interval
      <4> QED BY <1>1, <1>3, <4>2, <4>3
    <3>5. ends = n + 1 .. size
      <4> HIDE DEF ends, n, size
      <4> QED BY <3>3, <3>4, FS_Subset
    <3> QED BY <3>5
  <2>5. n \in Unpadded(text)
    <3> HIDE DEF n
    <3> QED BY <2>2, <2>3, <2>4 DEF Unpadded
  <2> QED BY <2>5
<1> QED BY <1>4, <1>5

(* Of any text base64Decode returns the bytes its characters say, or refuses   *)
(* it: exactly when it is not what the RFC calls base64.                      *)
THEOREM Base64Read ==
  ASSUME NEW text \in Seq(Nat)
  PROVE  Codes!Base64Reads(text)
<1> DEFINE unpadded == Unpadded(text)
           n == CHOOSE k \in unpadded : TRUE
           values == [k \in 1 .. n |->
                        CHOOSE v \in 0 .. 63 : Codes!kAlphabet[v] = text[k]]
           good == \A k \in DOMAIN text :
                     IF text[k] = Codes!Equals
                     THEN ~(k <= Len(text) - Codes!Padding(text))
                     ELSE Codes!DecodeChar(text[k]) # Codes!Invalid
<1>1. CASE Len(text) % 4 # 0 \/ unpadded = {}
  <2>1. Len(text) % 4 # 0 \/ ~good BY <1>1, ReadIsUnpadded
  <2>2. Codes!Base64Decode(text) = Refused BY <2>1, SMT DEF Codes!Base64Decode
  <2> QED BY <1>1, <2>2, Zenon DEF Codes!Base64Reads, Unpadded
<1>2. CASE ~(Len(text) % 4 # 0 \/ unpadded = {})
  <2>1. n \in unpadded BY <1>2
  <2>2. Codes!Base64Decode(text) = Codes!Regrouped(values, 6, 8, (6 * n) \div 8)
    <3> HIDE DEF n
    <3> QED BY <1>2, <2>1, UnpaddedRead
  <2> QED BY <1>2, <2>2, Zenon DEF Codes!Base64Reads, Unpadded
<1> QED BY <1>1, <1>2

-----------------------------------------------------------------------------
(* The PIN file.  A number of nine digits is below the bound of the cast.     *)
Top == 10 ^ 9

LEMMA TopIsAbove ==
  /\ Top \in Nat \ {0} /\ Top <= UIntSize /\ UIntSize \in Nat \ {0}
  /\ \A n \in NineDigits : n \in Nat \ {0} /\ n < Top
<1>1. UIntSize \in Nat \ {0} BY BoundsAssumption
<1>2. Top \in Nat \ {0} BY PowersOfTen, SMT DEF Top
<1>3. Top <= UIntSize BY PinAssumption, SMT DEF Top
<1>4. \A n \in NineDigits : n \in Nat \ {0} /\ n < Top BY SMT DEF Top, NineDigits
<1> QED BY <1>1, <1>2, <1>3, <1>4

LEMMA TopPower ==
  ASSUME NEW n \in 0 .. 9
  PROVE  10 ^ n \in Nat \ {0} /\ 10 ^ n <= Top
<1>1. CASE n = 0 BY <1>1, PowersOfTen, SMT DEF Top
<1>2. CASE n = 1 BY <1>2, PowersOfTen, SMT DEF Top
<1>3. CASE n = 2 BY <1>3, PowersOfTen, SMT DEF Top
<1>4. CASE n = 3 BY <1>4, PowersOfTen, SMT DEF Top
<1>5. CASE n = 4 BY <1>5, PowersOfTen, SMT DEF Top
<1>6. CASE n = 5 BY <1>6, PowersOfTen, SMT DEF Top
<1>7. CASE n = 6 BY <1>7, PowersOfTen, SMT DEF Top
<1>8. CASE n = 7 BY <1>8, PowersOfTen, SMT DEF Top
<1>9. CASE n = 8 BY <1>9, PowersOfTen, SMT DEF Top
<1>10. CASE n = 9 BY <1>10, PowersOfTen, SMT DEF Top
<1> QED BY <1>1, <1>2, <1>3, <1>4, <1>5, <1>6, <1>7, <1>8, <1>9, <1>10, SMT

LEMMA NumberRuns ==
  ASSUME NEW v \in Nat, NEW d \in [1 .. v -> Nat]
  PROVE  \E number \in [0 .. v -> Nat] :
           /\ number[0] = 0
           /\ \A k \in 1 .. v : number[k] = 10 * number[k - 1] + d[k]
           /\ Forms!Number(d) = number[v]
<1> DEFINE Runs(x) == x = [k \in 0 .. v |-> IF k = 0 THEN 0 ELSE x[k - 1] * 10 + d[k]]
           step == [p \in Nat \X (1 .. v) |-> p[1] * 10 + d[p[2]]]
<1>1. Len(d) = v OBVIOUS
<1>2. step \in [Nat \X (1 .. v) -> Nat]
  <2>1. \A p \in Nat \X (1 .. v) : p[1] * 10 + d[p[2]] \in Nat
    <3> TAKE p \in Nat \X (1 .. v)
    <3>1. p[1] \in Nat /\ d[p[2]] \in Nat OBVIOUS
    <3> QED BY <3>1
  <2> QED BY <2>1
<1>3. \A n \in Nat, k \in 1 .. v : step[<< n, k >>] = n * 10 + d[k] OBVIOUS
<1> HIDE DEF step
<1>4. PICK f \in [0 .. v -> Nat] :
        f[0] = 0 /\ \A k \in 1 .. v : f[k] = step[<< f[k - 1], k >>]
  <2>1. Loop(v, Nat, 0, step) BY <1>2, LoopRuns
  <2> QED BY <2>1 DEF Loop
<1>5. \A k \in 1 .. v : f[k] = f[k - 1] * 10 + d[k]
  <2> TAKE k \in 1 .. v
  <2>1. f[k - 1] \in Nat BY <1>4
  <2> QED BY <1>3, <1>4, <2>1
<1>6. Runs(f) BY <1>4, <1>5
<1> DEFINE number == CHOOSE x : Runs(x)
<1>7. Runs(number) BY <1>6
<1>8. Forms!Number(d) = number[v] BY <1>1 DEF Forms!Number
<1> HIDE DEF number
<1>9. number[0] = 0 /\ \A k \in 1 .. v : number[k] = number[k - 1] * 10 + d[k]
  BY <1>7
<1> DEFINE P == {k \in 0 .. v : number[k] = f[k]}
<1>10. 0 \in P BY <1>4, <1>9
<1>11. \A k \in 0 .. v - 1 : k \in P => k + 1 \in P
  <2> TAKE k \in 0 .. v - 1
  <2> HAVE k \in P
  <2>1. k + 1 \in 1 .. v /\ k + 1 - 1 = k OBVIOUS
  <2>2. number[k + 1] = number[k] * 10 + d[k + 1] BY <1>9, <2>1
  <2>3. f[k + 1] = f[k] * 10 + d[k + 1] BY <1>5, <2>1
  <2> QED BY <2>1, <2>2, <2>3
<1> HIDE DEF P
<1>12. \A k \in 0 .. v : k \in P BY <1>10, <1>11, CountingTo
<1>13. number[v] = f[v] BY <1>12 DEF P
<1>14. \A k \in 1 .. v : f[k] = 10 * f[k - 1] + d[k]
  <2> TAKE k \in 1 .. v
  <2>1. f[k - 1] \in Nat /\ d[k] \in Nat BY <1>4
  <2> QED BY <1>5, <2>1
<1> QED BY <1>4, <1>8, <1>13, <1>14

LEMMA NumberBelow ==
  ASSUME NEW v \in 0 .. 9, NEW d \in [1 .. v -> 0 .. 9]
  PROVE  Forms!Number(d) \in Nat /\ Forms!Number(d) < 10 ^ v
<1>1. v \in Nat /\ d \in [1 .. v -> Nat] OBVIOUS
<1>2. PICK number \in [0 .. v -> Nat] :
        /\ number[0] = 0
        /\ \A k \in 1 .. v : number[k] = 10 * number[k - 1] + d[k]
        /\ Forms!Number(d) = number[v]
  BY <1>1, NumberRuns
<1> DEFINE P == {k \in 0 .. v : number[k] < 10 ^ k}
<1>3. 0 \in P
  <2>1. 10 ^ 0 = 1 OBVIOUS
  <2> QED BY <1>2, <2>1
<1>4. ASSUME NEW k \in 0 .. v - 1, k \in P PROVE k + 1 \in P
  <2> DEFINE p == 10 ^ k
             q == 10 ^ (k + 1)
             a == number[k]
             b == number[k + 1]
             e == d[k + 1]
  <2>1. k \in 0 .. 9 /\ k + 1 \in 1 .. v /\ k + 1 - 1 = k OBVIOUS
  <2>2. q = 10 * p /\ p \in Nat \ {0} BY <2>1, NextPower
  <2>3. b = 10 * a + e BY <1>2, <2>1
  <2>4. a \in Nat /\ a < p /\ e \in 0 .. 9 BY <1>2, <1>4, <2>1
  <2> HIDE DEF p, q, a, b, e
  <2>5. b < q BY <2>2, <2>3, <2>4
  <2> QED BY <2>1, <2>5 DEF b, q
<1> HIDE DEF P
<1>5. \A k \in 0 .. v : k \in P BY <1>1, <1>3, <1>4, CountingTo
<1>6. number[v] < 10 ^ v /\ number[v] \in Nat BY <1>1, <1>2, <1>5 DEF P
<1> QED BY <1>2, <1>6, Zenon

LEMMA UintParsed ==
  ASSUME NEW s \in Seq((0 .. 9) \cup {NoDigit}), Forms!ParseUint(s) # Refused
  PROVE  Forms!ParseUint(s) = Forms!Number(s) /\ Forms!Number(s) \in Nat
<1> DEFINE v == Len(s)
           x == Forms!Number(s)
<1>1. ~(s = << >> \/ Len(s) > 9 \/ ~Forms!Numeric(s)) BY DEF Forms!ParseUint
<1>2. Forms!ParseUint(s) = x % UIntSize BY <1>1 DEF Forms!ParseUint, Forms!Unsigned
<1>3. v \in 0 .. 9 /\ s \in [1 .. v -> (0 .. 9) \cup {NoDigit}]
  <2>1. v \in Nat /\ s \in [1 .. v -> (0 .. 9) \cup {NoDigit}] BY LenProperties
  <2>2. ~(v > 9) BY <1>1
  <2> HIDE DEF v
  <2>3. v \in 0 .. 9 BY <2>1, <2>2
  <2> QED BY <2>1, <2>3
<1>4. \A k \in 1 .. v : s[k] # NoDigit BY <1>1, <1>3 DEF Forms!Numeric
<1> HIDE DEF v
<1>5. s \in [1 .. v -> 0 .. 9] BY <1>3, <1>4
<1>6. x \in Nat /\ x < 10 ^ v BY <1>3, <1>5, NumberBelow
<1>7. x < UIntSize
  <2> DEFINE p == 10 ^ v
  <2>1. p \in Nat /\ p <= Top BY <1>3, TopPower
  <2>2. x < p BY <1>6
  <2> HIDE DEF p, x
  <2> QED BY <1>6, <2>1, <2>2, TopIsAbove
<1> HIDE DEF x
<1>8. x % UIntSize = x BY <1>6, <1>7, TopIsAbove
<1> QED BY <1>2, <1>6, <1>8 DEF x

LEMMA DecimalParsed ==
  ASSUME NEW n \in NineDigits
  PROVE  Forms!ParseUint(Forms!Decimal(n)) = n
<1> DEFINE Fits(d) == (d = 1 \/ 10 ^ (d - 1) <= n) /\ (d = 10 \/ n < 10 ^ d)
           v == CHOOSE d \in 1 .. 10 : Fits(d)
           s == Forms!Decimal(n)
           x == Forms!Number(s)
<1>1. n \in Nat \ {0} /\ n < Top BY TopIsAbove
<1>2. \E d \in 1 .. 10 : Fits(d)
  <2>1. 1 \in 1 .. 10 /\ 2 \in 1 .. 10 /\ 3 \in 1 .. 10 /\ 4 \in 1 .. 10 /\ 5 \in 1 .. 10
        /\ 6 \in 1 .. 10 /\ 7 \in 1 .. 10 /\ 8 \in 1 .. 10 /\ 9 \in 1 .. 10
    BY SMT
  <2>2. 10 ^ 9 = Top BY SMT DEF Top
  <2>3. \/ n < 10 ^ 1
        \/ (10 ^ 1 <= n /\ n < 10 ^ 2) \/ (10 ^ 2 <= n /\ n < 10 ^ 3)
        \/ (10 ^ 3 <= n /\ n < 10 ^ 4) \/ (10 ^ 4 <= n /\ n < 10 ^ 5)
        \/ (10 ^ 5 <= n /\ n < 10 ^ 6) \/ (10 ^ 6 <= n /\ n < 10 ^ 7)
        \/ (10 ^ 7 <= n /\ n < 10 ^ 8) \/ 10 ^ 8 <= n
    BY <1>1, SMT
  <2>4. \/ Fits(1) \/ Fits(2) \/ Fits(3) \/ Fits(4) \/ Fits(5) \/ Fits(6) \/ Fits(7)
        \/ Fits(8) \/ Fits(9)
    BY <1>1, <2>2, <2>3, SMT
  <2> HIDE DEF Fits
  <2> QED BY <2>1, <2>4, SMT
<1>3. v \in 1 .. 10 /\ Fits(v)
  <2> HIDE DEF Fits
  <2> QED BY <1>2, Zenon
<1>4. s = [k \in 1 .. v |-> (n \div 10 ^ (v - k)) % 10] BY SMT DEF Forms!Decimal
<1> HIDE DEF v
<1>5. v \in 1 .. 9 /\ n < 10 ^ v
  <2>1. v # 10
    <3> SUFFICES ASSUME v = 10 PROVE FALSE OBVIOUS
    <3>1. v # 1 /\ v - 1 = 9 BY SMT
    <3>2. 10 ^ (v - 1) <= n BY <1>3, <3>1, SMT
    <3>3. Top <= n BY <3>1, <3>2, SMT DEF Top
    <3> QED BY <1>1, <3>3, TopIsAbove
  <2>2. n < 10 ^ v BY <1>3, <2>1
  <2>3. v \in 1 .. 9 BY <1>3, <2>1, SMT
  <2> QED BY <2>2, <2>3
<1>6. \A k \in 1 .. v : 10 ^ (v - k) \in Nat \ {0}
  <2> TAKE k \in 1 .. v
  <2>1. v - k \in 0 .. 9 BY <1>5
  <2> QED BY <2>1, TopPower
<1>7. s \in [1 .. v -> 0 .. 9]
  <2>1. ASSUME NEW k \in 1 .. v PROVE (n \div 10 ^ (v - k)) % 10 \in 0 .. 9
    <3> DEFINE p == 10 ^ (v - k)
    <3>1. p \in Nat \ {0} BY <1>6
    <3> HIDE DEF p
    <3> DEFINE q == n \div p
    <3>2. q \in Nat BY <1>1, <3>1
    <3> HIDE DEF q
    <3>3. q % 10 \in 0 .. 9 BY <3>2
    <3> QED BY <3>3 DEF p, q
  <2> QED BY <1>4, <2>1
<1> HIDE DEF s
<1>8. Len(s) = v /\ s # << >> /\ DOMAIN s = 1 .. v
  <2>1. v \in Nat \ {0} BY <1>5
  <2> QED BY <1>4, <2>1
<1>9. x = n
  <2>1. v \in Nat /\ v \in 0 .. 10 /\ s \in [1 .. v -> Nat] BY <1>5, <1>7
  <2>2. PICK number \in [0 .. v -> Nat] :
          /\ number[0] = 0
          /\ \A k \in 1 .. v : number[k] = 10 * number[k - 1] + s[k]
          /\ x = number[v]
    BY <2>1, NumberRuns
  <2>3. \A k \in 1 .. v : s[k] = (n \div 10 ^ (v - k)) % 10 BY <1>4
  <2>4. \A k \in 1 .. v : number[k] = 10 * number[k - 1] + ((n \div 10 ^ (v - k)) % 10)
    BY <2>2, <2>3
  <2>5. number[v] = n % 10 ^ v BY <1>1, <2>1, <2>2, <2>4, DigitsSay
  <2> DEFINE p == 10 ^ v
  <2>6. p \in Nat \ {0} /\ n < p
    <3>1. v \in 0 .. 9 BY <1>5
    <3> QED BY <1>5, <3>1, TopPower
  <2> HIDE DEF p
  <2>7. n % p = n BY <1>1, <2>6
  <2> QED BY <2>2, <2>5, <2>7 DEF p
<1>10. Forms!ParseUint(s) = x % UIntSize
  <2>1. Forms!Numeric(s)
    <3>1. \A k \in 1 .. v : s[k] \in 0 .. 9 BY <1>7
    <3>2. NoDigit \notin 0 .. 9 BY PinAssumption
    <3> QED BY <1>8, <3>1, <3>2, Zenon DEF Forms!Numeric
  <2>2. ~(Len(s) > 9) BY <1>5, <1>8
  <2> QED BY <1>8, <2>1, <2>2 DEF Forms!ParseUint, Forms!Unsigned
<1>11. n % UIntSize = n BY <1>1, TopIsAbove
<1> QED BY <1>9, <1>10, <1>11 DEF s

(* What the bounds let through is asked of the library as it stands.          *)
LEMMA ArgonBounded ==
  ASSUME NEW count \in Nat, NEW memory \in Nat, NEW lanes \in Nat,
         Forms!Argon2id(count, memory, lanes) # Refused
  PROVE  Forms!WithinBounds(Forms!Argon2id(count, memory, lanes))
<1> DEFINE kek == Forms!Argon2id(count, memory, lanes)
<1>1. /\ count # 0 /\ ~(count > MaxArgon2Iterations)
      /\ memory # 0 /\ ~(memory > MaxArgon2MemoryMiB)
      /\ lanes # 0 /\ ~(lanes > MaxArgon2Parallelism)
      /\ kek = [iterations |-> count, memoryKiB |-> Forms!Unsigned(memory * 1024),
                parallelism |-> lanes]
  BY DEF Forms!Argon2id
<1>2. /\ kek.iterations = count /\ kek.parallelism = lanes
      /\ kek.memoryKiB = Forms!Unsigned(memory * 1024)
  <2> HIDE DEF kek
  <2> QED BY <1>1
<1>3. /\ MaxArgon2Iterations \in Nat /\ MaxArgon2MemoryMiB \in Nat
      /\ MaxArgon2Parallelism \in Nat /\ UIntSize \in Nat
      /\ 2 * (1024 * MaxArgon2MemoryMiB) < UIntSize
  BY BoundsAssumption
<1>4. Forms!Unsigned(memory * 1024) = 1024 * memory
  BY <1>1, <1>3 DEF Forms!Unsigned
<1>5. (1024 * memory) \div 1024 = memory /\ (1024 * memory) % 1024 = 0 OBVIOUS
<1> HIDE DEF kek
<1>6. Forms!WithinBounds(kek)
  <2>1. kek.memoryKiB \div 1024 = memory /\ kek.memoryKiB % 1024 = 0
    BY <1>2, <1>4, <1>5
  <2>2. /\ memory \in 1 .. MaxArgon2MemoryMiB /\ count \in 1 .. MaxArgon2Iterations
        /\ lanes \in 1 .. MaxArgon2Parallelism
    BY <1>1, <1>3
  <2> QED BY <1>2, <2>1, <2>2, Zenon DEF Forms!WithinBounds
<1> QED BY <1>6, Zenon DEF kek

(* What is of type 2 is of the sizes AES-CBC and the MAC ask for.             *)
LEMMA TypeTwoDecrypts ==
  ASSUME NEW e, Forms!ParseEncString(e) # Refused, Forms!ParseEncString(e).type = 2
  PROVE  Forms!CanDecrypt(Forms!ParseEncString(e))
<1> DEFINE enc == Forms!ParseEncString(e)
           two == Forms!ParseType2(e.parts)
           four == Forms!ParseType4(e.parts)
<1>1. ~(e.type = << >> \/ ~Forms!Numeric(e.type) \/ Len(e.type) > 2)
  BY DEF Forms!ParseEncString
<1>2. enc = CASE Forms!Number(e.type) = 2 -> two
              [] Forms!Number(e.type) = 4 -> four
              [] OTHER -> Refused
  BY <1>1 DEF Forms!ParseEncString
<1>3. enc = two \/ enc = four
  <2> HIDE DEF two, four, enc
  <2>1. enc # Refused BY DEF enc
  <2> QED BY <1>2, <2>1
<1>4. CASE enc = four
  <2>1. four = [type |-> 4, iv |-> 0, ciphertext |-> e.parts[1], mac |-> 0]
    BY <1>4 DEF Forms!ParseType4
  <2>2. four.type = 4
    <3> HIDE DEF four
    <3> QED BY <2>1
  <2> QED BY <1>4, <2>2
<1>5. CASE enc = two
  <2>1. ~(\/ Len(e.parts) # 3 \/ \E k \in DOMAIN e.parts : e.parts[k] = Refused
          \/ e.parts[1] # 16 \/ e.parts[3] # 32
          \/ e.parts[2] = 0 \/ e.parts[2] % 16 # 0)
    BY <1>5 DEF Forms!ParseType2
  <2>2. two = [type |-> 2, iv |-> e.parts[1],
               ciphertext |-> e.parts[2], mac |-> e.parts[3]]
    BY <2>1 DEF Forms!ParseType2
  <2>3. two.type = 2 /\ two.iv = 16 /\ two.mac = 32 /\ two.ciphertext % 16 = 0
    <3> HIDE DEF two
    <3> QED BY <2>1, <2>2
  <2> HIDE DEF two, enc
  <2> QED BY <1>5, <2>3 DEF Forms!CanDecrypt, enc
<1> QED BY <1>3, <1>4, <1>5

(* What parsePinWrapped takes from a PIN file is what the file says, within    *)
(* the bounds of the derivation: no number in it is cut to one that passes.    *)
THEOREM PinFileExact ==
  ASSUME NEW i \in Inputs.pinFile
  PROVE  Forms!PinFileRead(i.of)
<1> DEFINE text == i.of
           wrapped == Forms!ParsePin(text)
           numbers == [k \in 1 .. 3 |-> Forms!ParseUint(text[k + 1])]
           unwrapped == Forms!UnwrapWithPin(wrapped)
<1> SUFFICES ASSUME wrapped # Refused
             PROVE  /\ wrapped.params.iterations = Forms!Number(text[2])
                    /\ wrapped.params.memoryMiB = Forms!Number(text[3])
                    /\ wrapped.params.parallelism = Forms!Number(text[4])
                    /\ unwrapped # Refused =>
                         /\ Forms!WithinBounds(unwrapped.kek)
                         /\ Forms!CanDecrypt(unwrapped.enc)
  BY DEF Forms!PinFileRead
<1>1. Len(text) = 6 /\ ~(Len(text) # 6 \/ text[1] # Forms!kTag) BY DEF Forms!ParsePin
<1>2. ~(\/ \E k \in 1 .. 3 : numbers[k] = Refused
        \/ text[5] # Forms!kSaltLen \/ Forms!ParseEncString(text[6]) = Refused)
  BY <1>1 DEF Forms!ParsePin
<1>3. wrapped = [params |-> [iterations |-> numbers[1], memoryMiB |-> numbers[2],
                             parallelism |-> numbers[3]],
                 salt |-> text[5], encString |-> text[6]]
  BY <1>1, <1>2 DEF Forms!ParsePin
<1>4. ASSUME NEW k \in 1 .. 3
      PROVE  numbers[k] = Forms!Number(text[k + 1]) /\ numbers[k] \in Nat
  <2>1. k + 1 \in 2 .. 4 OBVIOUS
  <2>2. text[k + 1] \in Seq((0 .. 9) \cup {NoDigit}) BY <1>1, <2>1, PinAssumption
  <2>3. numbers[k] = Forms!ParseUint(text[k + 1]) /\ numbers[k] # Refused BY <1>2
  <2> HIDE DEF numbers, text
  <2> QED BY <2>2, <2>3, UintParsed
<1>5. /\ numbers[1] = Forms!Number(text[2]) /\ numbers[1] \in Nat
      /\ numbers[2] = Forms!Number(text[3]) /\ numbers[2] \in Nat
      /\ numbers[3] = Forms!Number(text[4]) /\ numbers[3] \in Nat
  <2>1. /\ 1 \in 1 .. 3 /\ 2 \in 1 .. 3 /\ 3 \in 1 .. 3
        /\ 1 + 1 = 2 /\ 2 + 1 = 3 /\ 3 + 1 = 4
    OBVIOUS
  <2> HIDE DEF numbers, text
  <2>2. numbers[1] = Forms!Number(text[1 + 1]) /\ numbers[1] \in Nat BY <1>4, <2>1, Zenon
  <2>3. numbers[2] = Forms!Number(text[2 + 1]) /\ numbers[2] \in Nat BY <1>4, <2>1, Zenon
  <2>4. numbers[3] = Forms!Number(text[3 + 1]) /\ numbers[3] \in Nat BY <1>4, <2>1, Zenon
  <2> QED BY <2>1, <2>2, <2>3, <2>4, Zenon
<1> HIDE DEF numbers, text, wrapped
<1>6. /\ wrapped.params.iterations = numbers[1] /\ wrapped.params.memoryMiB = numbers[2]
      /\ wrapped.params.parallelism = numbers[3] /\ wrapped.encString = text[6]
  BY <1>3
<1>7. unwrapped # Refused =>
        Forms!WithinBounds(unwrapped.kek) /\ Forms!CanDecrypt(unwrapped.enc)
  <2> DEFINE kek == Forms!Argon2id(wrapped.params.iterations, wrapped.params.memoryMiB,
                                   wrapped.params.parallelism)
             enc == Forms!ParseEncString(wrapped.encString)
  <2> HAVE unwrapped # Refused
  <2>1. ~(kek = Refused \/ enc = Refused) /\ enc.type = 2
    BY SMT DEF Forms!UnwrapWithPin
  <2>2. unwrapped = [kek |-> kek, enc |-> enc] BY <2>1, SMT DEF Forms!UnwrapWithPin
  <2>3. Forms!WithinBounds(kek) BY <1>5, <1>6, <2>1, ArgonBounded
  <2>4. Forms!CanDecrypt(enc) BY <2>1, TypeTwoDecrypts
  <2> HIDE DEF unwrapped, kek, enc
  <2>5. unwrapped.kek = kek /\ unwrapped.enc = enc BY <2>2
  <2> QED BY <2>3, <2>4, <2>5, Zenon
<1> QED BY <1>5, <1>6, <1>7, Zenon DEF text, wrapped

(* The envelope wrapWithPin makes of any secret is read back from its file as  *)
(* it was, parameters and all.                                               *)
THEOREM PinFileKeptExact ==
  ASSUME NEW secret \in Nat
  PROVE  Forms!PinFileKept(secret)
<1> DEFINE wrapped == Forms!WrapWithPin(secret)
           enc == Forms!Encrypt(secret)
           blocks == 16 * ((secret \div 16) + 1)
           string == Forms!Serialize(enc)
           text == Forms!SerializePin(wrapped)
           it == PinParams.iterations
           mem == PinParams.memoryMiB
           par == PinParams.parallelism
<1>1. enc = [type |-> 2, iv |-> 16, ciphertext |-> blocks, mac |-> 32]
  BY DEF Forms!Encrypt
<1>2. blocks \in Nat /\ blocks # 0 /\ blocks % 16 = 0 OBVIOUS
<1> HIDE DEF blocks, enc
<1>3. string = [type |-> << 2 >>, parts |-> << 16, blocks, 32 >>]
  BY <1>1 DEF Forms!Serialize
<1>4. /\ it \in NineDigits /\ it \in 1 .. MaxArgon2Iterations
      /\ mem \in NineDigits /\ mem \in 1 .. MaxArgon2MemoryMiB
      /\ par \in NineDigits /\ par \in 1 .. MaxArgon2Parallelism
      /\ PinParams = [iterations |-> it, memoryMiB |-> mem, parallelism |-> par]
  BY PinAssumption
<1>5. wrapped = [params |-> PinParams, salt |-> 16, encString |-> string]
  BY DEF Forms!WrapWithPin, Forms!kSaltLen, enc
<1> HIDE DEF wrapped, string, it, mem, par
<1>6. /\ wrapped.params = PinParams /\ wrapped.salt = 16 /\ wrapped.encString = string
      /\ wrapped.params.iterations = it /\ wrapped.params.memoryMiB = mem
      /\ wrapped.params.parallelism = par
  BY <1>5 DEF it, mem, par
<1>7. text = << Forms!kTag, Forms!Decimal(it), Forms!Decimal(mem), Forms!Decimal(par),
                16, string >>
  BY <1>6, Zenon DEF Forms!SerializePin
<1>8. Refused \notin Nat /\ enc # Refused
  <2>1. enc \in [type : Nat, iv : Nat, ciphertext : Nat, mac : Nat] BY <1>1, <1>2
  <2> QED BY <2>1, PinAssumption
<1>9. Forms!ParseEncString(string) = enc
  <2>1. string.type = << 2 >> /\ string.parts = << 16, blocks, 32 >> BY <1>3
  <2>2. Forms!Number(<< 2 >>) = 2
    <3> DEFINE d == << 2 >>
    <3>1. 1 \in Nat /\ d \in [1 .. 1 -> Nat] /\ d[1] = 2 OBVIOUS
    <3> HIDE DEF d
    <3>2. PICK number \in [0 .. 1 -> Nat] :
            /\ number[0] = 0
            /\ \A k \in 1 .. 1 : number[k] = 10 * number[k - 1] + d[k]
            /\ Forms!Number(d) = number[1]
      BY <3>1, NumberRuns
    <3>3. number[1] = 10 * number[0] + d[1]
      <4>1. 1 \in 1 .. 1 /\ 1 - 1 = 0 OBVIOUS
      <4> QED BY <3>2, <4>1
    <3>4. Forms!Number(d) = 2 BY <3>1, <3>2, <3>3
    <3> QED BY <3>4 DEF d
  <2>3. ~(string.type = << >> \/ ~Forms!Numeric(string.type) \/ Len(string.type) > 2)
    <3>1. Forms!Numeric(<< 2 >>)
      <4>1. NoDigit # 2
        <5>1. NoDigit \notin 0 .. 9 BY PinAssumption
        <5>2. 2 \in 0 .. 9 OBVIOUS
        <5> QED BY <5>1, <5>2, Zenon
      <4> QED BY <4>1 DEF Forms!Numeric
    <3>2. << 2 >> # << >> /\ ~(Len(<< 2 >>) > 2) OBVIOUS
    <3> QED BY <2>1, <3>1, <3>2
  <2>4. Forms!ParseEncString(string) = Forms!ParseType2(<< 16, blocks, 32 >>)
    BY <2>1, <2>2, <2>3 DEF Forms!ParseEncString
  <2>5. Forms!ParseType2(<< 16, blocks, 32 >>) = enc
    <3> DEFINE parts == << 16, blocks, 32 >>
    <3>1. Len(parts) = 3 /\ parts[1] = 16 /\ parts[2] = blocks /\ parts[3] = 32
      OBVIOUS
    <3>2. \A k \in DOMAIN parts : parts[k] \in Nat BY <1>2
    <3> HIDE DEF parts
    <3>3. \A k \in DOMAIN parts : parts[k] # Refused BY <1>8, <3>2, Zenon
    <3>4. Forms!ParseType2(parts)
            = [type |-> 2, iv |-> parts[1], ciphertext |-> parts[2], mac |-> parts[3]]
      BY <1>2, <3>1, <3>3 DEF Forms!ParseType2
    <3> QED BY <1>1, <3>1, <3>4 DEF parts
  <2> QED BY <2>4, <2>5
<1>10. Forms!ParsePin(text) = wrapped
  <2> DEFINE numbers == [k \in 1 .. 3 |-> Forms!ParseUint(text[k + 1])]
  <2>1. /\ Len(text) = 6 /\ text[1] = Forms!kTag /\ text[5] = 16 /\ text[6] = string
        /\ text[2] = Forms!Decimal(it) /\ text[3] = Forms!Decimal(mem)
        /\ text[4] = Forms!Decimal(par)
    <3> HIDE DEF text
    <3> QED BY <1>7
  <2> HIDE DEF text
  <2>2. numbers[1] = it /\ numbers[2] = mem /\ numbers[3] = par
    <3>1. numbers[1] = Forms!ParseUint(text[2]) OBVIOUS
    <3>2. numbers[2] = Forms!ParseUint(text[3]) OBVIOUS
    <3>3. numbers[3] = Forms!ParseUint(text[4]) OBVIOUS
    <3> HIDE DEF numbers
    <3> QED BY <1>4, <2>1, <3>1, <3>2, <3>3, DecimalParsed, Zenon
  <2> HIDE DEF numbers
  <2>3. ~(\E k \in 1 .. 3 : numbers[k] = Refused)
    <3>1. it \in Nat /\ mem \in Nat /\ par \in Nat BY <1>4, TopIsAbove
    <3>2. \A k \in 1 .. 3 : k = 1 \/ k = 2 \/ k = 3 OBVIOUS
    <3> QED BY <1>8, <2>2, <3>1, <3>2, Zenon
  <2>4. Forms!ParseEncString(text[6]) # Refused BY <1>8, <1>9, <2>1, Zenon
  <2>5. text[5] = Forms!kSaltLen BY <2>1 DEF Forms!kSaltLen
  <2>6. Forms!ParsePin(text)
          = [params |-> [iterations |-> numbers[1], memoryMiB |-> numbers[2],
                         parallelism |-> numbers[3]],
             salt |-> text[5], encString |-> text[6]]
    BY <2>1, <2>3, <2>4, <2>5, SMT DEF Forms!ParsePin, numbers
  <2> QED BY <1>4, <1>5, <2>1, <2>2, <2>6, Zenon
<1>11. Forms!UnwrapWithPin(wrapped).enc = enc
  <2> DEFINE kek == Forms!Argon2id(it, mem, par)
  <2>1. kek # Refused
    <3>1. /\ it \in Nat /\ it # 0 /\ ~(it > MaxArgon2Iterations)
          /\ mem \in Nat /\ mem # 0 /\ ~(mem > MaxArgon2MemoryMiB)
          /\ par \in Nat /\ par # 0 /\ ~(par > MaxArgon2Parallelism)
      BY <1>4, BoundsAssumption
    <3>2. kek = [iterations |-> it, memoryKiB |-> Forms!Unsigned(mem * 1024),
                 parallelism |-> par]
      BY <3>1 DEF Forms!Argon2id
    <3>3. Forms!Unsigned(mem * 1024) \in Nat
      BY <3>1, TopIsAbove DEF Forms!Unsigned
    <3> HIDE DEF kek
    <3>4. kek \in [iterations : Nat, memoryKiB : Nat, parallelism : Nat]
      BY <3>1, <3>2, <3>3
    <3> QED BY <3>4, PinAssumption
  <2>2. enc.type = 2 BY <1>1
  <2> HIDE DEF kek
  <2>3. Forms!UnwrapWithPin(wrapped) = [kek |-> kek, enc |-> enc]
    BY <1>6, <1>8, <1>9, <2>1, <2>2, SMT DEF Forms!UnwrapWithPin, kek
  <2> QED BY <2>3
<1> QED BY <1>10, <1>11, Zenon DEF Forms!PinFileKept, wrapped, enc, text

-----------------------------------------------------------------------------
(* base32.  The pieces of a five, by its bits.                               *)
LEMMA QuintetParts ==
  ASSUME NEW x \in 0 .. 31
  PROVE  /\ x \div 16 = BitOf(x, 5, 0)
         /\ x % 16 = 8 * BitOf(x, 5, 1) + 4 * BitOf(x, 5, 2)
                    + 2 * BitOf(x, 5, 3) + BitOf(x, 5, 4)
         /\ x \div 8 = 2 * BitOf(x, 5, 0) + BitOf(x, 5, 1)
         /\ x % 8 = 4 * BitOf(x, 5, 2) + 2 * BitOf(x, 5, 3) + BitOf(x, 5, 4)
         /\ x \div 4 = 4 * BitOf(x, 5, 0) + 2 * BitOf(x, 5, 1) + BitOf(x, 5, 2)
         /\ x % 4 = 2 * BitOf(x, 5, 3) + BitOf(x, 5, 4)
         /\ x \div 2 = 8 * BitOf(x, 5, 0) + 4 * BitOf(x, 5, 1)
                        + 2 * BitOf(x, 5, 2) + BitOf(x, 5, 3)
         /\ x % 2 = BitOf(x, 5, 4)
<1>1. x = 16 * BitOf(x, 5, 0) + 8 * BitOf(x, 5, 1) + 4 * BitOf(x, 5, 2)
          + 2 * BitOf(x, 5, 3) + BitOf(x, 5, 4)
  BY QuintetBits
<1>2. ASSUME NEW j \in 0 .. 4 PROVE BitOf(x, 5, j) \in 0 .. 1
  <2>1. 5 \in Width /\ j \in 0 .. 5 - 1 /\ x \in Nat BY DEF Width
  <2> QED BY <2>1, BitIsBinary
<1>3. /\ BitOf(x, 5, 0) \in 0 .. 1 /\ BitOf(x, 5, 1) \in 0 .. 1
      /\ BitOf(x, 5, 2) \in 0 .. 1
      /\ BitOf(x, 5, 3) \in 0 .. 1 /\ BitOf(x, 5, 4) \in 0 .. 1
  BY <1>2
<1>4. /\ x \div 16 = BitOf(x, 5, 0)
      /\ x % 16 = 8 * BitOf(x, 5, 1) + 4 * BitOf(x, 5, 2)
                  + 2 * BitOf(x, 5, 3) + BitOf(x, 5, 4)
  <2> DEFINE u == BitOf(x, 5, 0)
             v == 8 * BitOf(x, 5, 1) + 4 * BitOf(x, 5, 2)
                  + 2 * BitOf(x, 5, 3) + BitOf(x, 5, 4)
  <2>1. u \in Nat BY <1>3
  <2>2. v \in 0 .. 15 BY <1>3
  <2>3. x = 16 * u + v BY <1>1, <1>3
  <2> HIDE DEF u, v
  <2>4. x \div 16 = u /\ x % 16 = v BY <2>1, <2>2, <2>3
  <2> QED BY <2>4, Zenon DEF u, v
<1>5. /\ x \div 8 = 2 * BitOf(x, 5, 0) + BitOf(x, 5, 1)
      /\ x % 8 = 4 * BitOf(x, 5, 2) + 2 * BitOf(x, 5, 3) + BitOf(x, 5, 4)
  <2> DEFINE u == 2 * BitOf(x, 5, 0) + BitOf(x, 5, 1)
             v == 4 * BitOf(x, 5, 2) + 2 * BitOf(x, 5, 3) + BitOf(x, 5, 4)
  <2>1. u \in Nat BY <1>3
  <2>2. v \in 0 .. 7 BY <1>3
  <2>3. x = 8 * u + v BY <1>1, <1>3
  <2> HIDE DEF u, v
  <2>4. x \div 8 = u /\ x % 8 = v BY <2>1, <2>2, <2>3
  <2> QED BY <2>4, Zenon DEF u, v
<1>6. /\ x \div 4 = 4 * BitOf(x, 5, 0) + 2 * BitOf(x, 5, 1) + BitOf(x, 5, 2)
      /\ x % 4 = 2 * BitOf(x, 5, 3) + BitOf(x, 5, 4)
  <2> DEFINE u == 4 * BitOf(x, 5, 0) + 2 * BitOf(x, 5, 1) + BitOf(x, 5, 2)
             v == 2 * BitOf(x, 5, 3) + BitOf(x, 5, 4)
  <2>1. u \in Nat BY <1>3
  <2>2. v \in 0 .. 3 BY <1>3
  <2>3. x = 4 * u + v BY <1>1, <1>3
  <2> HIDE DEF u, v
  <2>4. x \div 4 = u /\ x % 4 = v BY <2>1, <2>2, <2>3
  <2> QED BY <2>4, Zenon DEF u, v
<1>7. /\ x \div 2 = 8 * BitOf(x, 5, 0) + 4 * BitOf(x, 5, 1)
                   + 2 * BitOf(x, 5, 2) + BitOf(x, 5, 3)
      /\ x % 2 = BitOf(x, 5, 4)
  <2> DEFINE u == 8 * BitOf(x, 5, 0) + 4 * BitOf(x, 5, 1)
                  + 2 * BitOf(x, 5, 2) + BitOf(x, 5, 3)
             v == BitOf(x, 5, 4)
  <2>1. u \in Nat BY <1>3
  <2>2. v \in 0 .. 1 BY <1>3
  <2>3. x = 2 * u + v BY <1>1, <1>3
  <2> HIDE DEF u, v
  <2>4. x \div 2 = u /\ x % 2 = v BY <2>1, <2>2, <2>3
  <2> QED BY <2>4, Zenon DEF u, v
<1> QED BY <1>4, <1>5, <1>6, <1>7, Zenon

(* The byte that three fives end in, without the last bits of them.           *)
FiveByte(x, y, z, e) ==
  CASE e = 0 -> (y % 8) * 32 + z
    [] e = 1 -> (y % 16) * 16 + (z \div 2)
    [] e = 2 -> y * 8 + (z \div 4)
    [] e = 3 -> (x % 2) * 128 + y * 4 + (z \div 8)
    [] e = 4 -> (x % 4) * 64 + y * 2 + (z \div 16)

EndsInFives(b, x, y, z) == \E q \in Int : b = 4096 * q + (1024 * x + 32 * y + z)
ByteAt(b, e) == (b \div 2 ^ e) % 256

LEMMA BufferByte ==
  ASSUME NEW x \in 0 .. 31, NEW y \in 0 .. 31, NEW z \in 0 .. 31,
         NEW b \in Nat, EndsInFives(b, x, y, z), NEW e \in 0 .. 4
  PROVE  ByteAt(b, e) = FiveByte(x, y, z, e)
<1>1. PICK q \in Int : b = 4096 * q + (1024 * x + 32 * y + z) BY DEF EndsInFives
<1>2. CASE e = 0
  <2> DEFINE y1 == y \div 8
             y2 == y % 8
             z1 == z \div 1
             z2 == z % 1
             r == y2 * 32 + z1
             k == 16 * q + 4 * x + y1
  <2>1. y = 8 * y1 + y2 /\ y1 \in Nat /\ y2 \in 0 .. 7 OBVIOUS
  <2>2. z = 1 * z1 + z2 /\ z1 \in 0 .. 31 /\ z2 \in 0 .. 0 OBVIOUS
  <2> HIDE DEF y1, y2, z1, z2
  <2>3. r \in 0 .. 255 BY <2>1, <2>2
  <2>4. k \in Int BY <2>1, <2>2
  <2>5. b = 1 * (256 * k + r) + z2 BY <1>1, <2>1, <2>2
  <2>6. FiveByte(x, y, z, 0) = r
    <3>1. FiveByte(x, y, z, 0) = (y % 8) * 32 + z BY DEF FiveByte
    <3> QED BY <3>1 DEF y1, y2, z1, z2
  <2>7. 2 ^ e = 1 BY <1>2, PowersOfTwo
  <2> DEFINE u == 256 * k + r
  <2> HIDE DEF r, k
  <2>8. u \in Int /\ b = 1 * u + z2 BY <2>3, <2>4, <2>5
  <2>9. u % 256 = r BY <2>3, <2>4, Remainder
  <2> HIDE DEF u
  <2>10. b \div 1 = u BY <2>2, <2>8
  <2> QED BY <1>2, <2>6, <2>7, <2>9, <2>10 DEF ByteAt
<1>3. CASE e = 1
  <2> DEFINE y1 == y \div 16
             y2 == y % 16
             z1 == z \div 2
             z2 == z % 2
             r == y2 * 16 + z1
             k == 8 * q + 2 * x + y1
  <2>1. y = 16 * y1 + y2 /\ y1 \in Nat /\ y2 \in 0 .. 15 OBVIOUS
  <2>2. z = 2 * z1 + z2 /\ z1 \in 0 .. 15 /\ z2 \in 0 .. 1 OBVIOUS
  <2> HIDE DEF y1, y2, z1, z2
  <2>3. r \in 0 .. 255 BY <2>1, <2>2
  <2>4. k \in Int BY <2>1, <2>2
  <2>5. b = 2 * (256 * k + r) + z2 BY <1>1, <2>1, <2>2
  <2>6. FiveByte(x, y, z, 1) = r
    <3>1. FiveByte(x, y, z, 1) = (y % 16) * 16 + (z \div 2) BY DEF FiveByte
    <3> QED BY <3>1, Zenon DEF y1, y2, z1, z2
  <2>7. 2 ^ e = 2 BY <1>3, PowersOfTwo
  <2> DEFINE u == 256 * k + r
  <2> HIDE DEF r, k
  <2>8. u \in Int /\ b = 2 * u + z2 BY <2>3, <2>4, <2>5
  <2>9. u % 256 = r BY <2>3, <2>4, Remainder
  <2> HIDE DEF u
  <2>10. b \div 2 = u BY <2>2, <2>8
  <2> QED BY <1>3, <2>6, <2>7, <2>9, <2>10 DEF ByteAt
<1>4. CASE e = 2
  <2> DEFINE z1 == z \div 4
             z2 == z % 4
             r == y * 8 + z1
             k == 4 * q + x
  <2>1. z = 4 * z1 + z2 /\ z1 \in 0 .. 7 /\ z2 \in 0 .. 3 OBVIOUS
  <2> HIDE DEF z1, z2
  <2>2. r \in 0 .. 255 BY <2>1
  <2>3. k \in Int BY <2>1
  <2>4. b = 4 * (256 * k + r) + z2 BY <1>1, <2>1
  <2>5. FiveByte(x, y, z, 2) = r
    <3>1. FiveByte(x, y, z, 2) = y * 8 + (z \div 4) BY DEF FiveByte
    <3> QED BY <3>1, Zenon DEF z1, z2
  <2>6. 2 ^ e = 4 BY <1>4, PowersOfTwo
  <2> DEFINE u == 256 * k + r
  <2> HIDE DEF r, k
  <2>7. u \in Int /\ b = 4 * u + z2 BY <2>2, <2>3, <2>4
  <2>8. u % 256 = r BY <2>2, <2>3, Remainder
  <2> HIDE DEF u
  <2>9. b \div 4 = u BY <2>1, <2>7
  <2> QED BY <1>4, <2>5, <2>6, <2>8, <2>9 DEF ByteAt
<1>5. CASE e = 3
  <2> DEFINE x1 == x \div 2
             x2 == x % 2
             z1 == z \div 8
             z2 == z % 8
             r == x2 * 128 + y * 4 + z1
             k == 2 * q + x1
  <2>1. x = 2 * x1 + x2 /\ x1 \in Nat /\ x2 \in 0 .. 1 OBVIOUS
  <2>2. z = 8 * z1 + z2 /\ z1 \in 0 .. 3 /\ z2 \in 0 .. 7 OBVIOUS
  <2> HIDE DEF x1, x2, z1, z2
  <2>3. r \in 0 .. 255 BY <2>1, <2>2
  <2>4. k \in Int BY <2>1, <2>2
  <2>5. b = 8 * (256 * k + r) + z2 BY <1>1, <2>1, <2>2
  <2>6. FiveByte(x, y, z, 3) = r
    <3>1. FiveByte(x, y, z, 3) = (x % 2) * 128 + y * 4 + (z \div 8) BY DEF FiveByte
    <3> QED BY <3>1, Zenon DEF x1, x2, z1, z2
  <2>7. 2 ^ e = 8 BY <1>5, PowersOfTwo
  <2> DEFINE u == 256 * k + r
  <2> HIDE DEF r, k
  <2>8. u \in Int /\ b = 8 * u + z2 BY <2>3, <2>4, <2>5
  <2>9. u % 256 = r BY <2>3, <2>4, Remainder
  <2> HIDE DEF u
  <2>10. b \div 8 = u BY <2>2, <2>8
  <2> QED BY <1>5, <2>6, <2>7, <2>9, <2>10 DEF ByteAt
<1>6. CASE e = 4
  <2> DEFINE x1 == x \div 4
             x2 == x % 4
             z1 == z \div 16
             z2 == z % 16
             r == x2 * 64 + y * 2 + z1
             k == 1 * q + x1
  <2>1. x = 4 * x1 + x2 /\ x1 \in Nat /\ x2 \in 0 .. 3 OBVIOUS
  <2>2. z = 16 * z1 + z2 /\ z1 \in 0 .. 1 /\ z2 \in 0 .. 15 OBVIOUS
  <2> HIDE DEF x1, x2, z1, z2
  <2>3. r \in 0 .. 255 BY <2>1, <2>2
  <2>4. k \in Int BY <2>1, <2>2
  <2>5. b = 16 * (256 * k + r) + z2 BY <1>1, <2>1, <2>2
  <2>6. FiveByte(x, y, z, 4) = r
    <3>1. FiveByte(x, y, z, 4) = (x % 4) * 64 + y * 2 + (z \div 16) BY DEF FiveByte
    <3> QED BY <3>1, Zenon DEF x1, x2, z1, z2
  <2>7. 2 ^ e = 16 BY <1>6, PowersOfTwo
  <2> DEFINE u == 256 * k + r
  <2> HIDE DEF r, k
  <2>8. u \in Int /\ b = 16 * u + z2 BY <2>3, <2>4, <2>5
  <2>9. u % 256 = r BY <2>3, <2>4, Remainder
  <2> HIDE DEF u
  <2>10. b \div 16 = u BY <2>2, <2>8
  <2> QED BY <1>6, <2>6, <2>7, <2>9, <2>10 DEF ByteAt
<1> QED BY <1>2, <1>3, <1>4, <1>5, <1>6

(* A five of a row, none before its first.                                   *)
Quintet(values, k) == IF k \in DOMAIN values THEN values[k] ELSE 0

LEMMA QuintetIsFive ==
  ASSUME NEW n \in Nat, NEW values \in [1 .. n -> 0 .. 31], NEW k \in Int
  PROVE  Quintet(values, k) \in 0 .. 31
  BY DEF Quintet

LEMMA QuintetBit ==
  ASSUME NEW n \in Nat, NEW values \in [1 .. n -> 0 .. 31], NEW k \in 1 .. n,
         NEW j \in 0 .. 4
  PROVE  Codes!Bit(values, 5, 5 * (k - 1) + j) = BitOf(Quintet(values, k), 5, j)
<1>1. values \in [1 .. n -> Nat] /\ 5 \in Width /\ j \in 0 .. 5 - 1
  <2>1. \A i \in 1 .. n : values[i] \in 0 .. 31 OBVIOUS
  <2>2. \A y \in 0 .. 31 : y \in Nat OBVIOUS
  <2>3. values \in [1 .. n -> Nat] BY <2>1, <2>2
  <2> QED BY <2>3 DEF Width
<1>2. k - 1 \in 0 .. n - 1 /\ (k - 1) + 1 = k OBVIOUS
<1>3. Codes!Bit(values, 5, 5 * (k - 1) + j) = BitOf(values[(k - 1) + 1], 5, j)
  BY <1>1, <1>2, BitInside
<1>4. Quintet(values, k) = values[k] BY DEF Quintet
<1> QED BY <1>2, <1>3, <1>4, Zenon

LEMMA OctetSplit ==
  ASSUME NEW b \in [1 .. 8 -> 0 .. 1]
  PROVE  LET sum == 128 * b[1] + 64 * b[2] + 32 * b[3] + 16 * b[4]
                      + 8 * b[5] + 4 * b[6] + 2 * b[7] + b[8] IN
         /\ sum = (4 * b[1] + 2 * b[2] + b[3]) * 32
                    + (16 * b[4] + 8 * b[5] + 4 * b[6] + 2 * b[7] + b[8])
         /\ sum = (8 * b[1] + 4 * b[2] + 2 * b[3] + b[4]) * 16
                    + (8 * b[5] + 4 * b[6] + 2 * b[7] + b[8])
         /\ sum = (16 * b[1] + 8 * b[2] + 4 * b[3] + 2 * b[4] + b[5]) * 8
                    + (4 * b[6] + 2 * b[7] + b[8])
         /\ sum = b[1] * 128
                    + (16 * b[2] + 8 * b[3] + 4 * b[4] + 2 * b[5] + b[6]) * 4
                    + (2 * b[7] + b[8])
         /\ sum = (2 * b[1] + b[2]) * 64
                    + (16 * b[3] + 8 * b[4] + 4 * b[5] + 2 * b[6] + b[7]) * 2
                    + b[8]
<1>1. /\ b[1] \in 0 .. 1 /\ b[2] \in 0 .. 1 /\ b[3] \in 0 .. 1 /\ b[4] \in 0 .. 1
      /\ b[5] \in 0 .. 1 /\ b[6] \in 0 .. 1 /\ b[7] \in 0 .. 1 /\ b[8] \in 0 .. 1
  OBVIOUS
<1>2. 128 * b[1] + 64 * b[2] + 32 * b[3] + 16 * b[4]
        + 8 * b[5] + 4 * b[6] + 2 * b[7] + b[8]
        = (4 * b[1] + 2 * b[2] + b[3]) * 32
            + (16 * b[4] + 8 * b[5] + 4 * b[6] + 2 * b[7] + b[8])
  BY <1>1
<1>3. 128 * b[1] + 64 * b[2] + 32 * b[3] + 16 * b[4]
        + 8 * b[5] + 4 * b[6] + 2 * b[7] + b[8]
        = (8 * b[1] + 4 * b[2] + 2 * b[3] + b[4]) * 16
            + (8 * b[5] + 4 * b[6] + 2 * b[7] + b[8])
  BY <1>1
<1>4. 128 * b[1] + 64 * b[2] + 32 * b[3] + 16 * b[4]
        + 8 * b[5] + 4 * b[6] + 2 * b[7] + b[8]
        = (16 * b[1] + 8 * b[2] + 4 * b[3] + 2 * b[4] + b[5]) * 8
            + (4 * b[6] + 2 * b[7] + b[8])
  BY <1>1
<1>5. 128 * b[1] + 64 * b[2] + 32 * b[3] + 16 * b[4]
        + 8 * b[5] + 4 * b[6] + 2 * b[7] + b[8]
        = b[1] * 128
            + (16 * b[2] + 8 * b[3] + 4 * b[4] + 2 * b[5] + b[6]) * 4
            + (2 * b[7] + b[8])
  BY <1>1
<1>6. 128 * b[1] + 64 * b[2] + 32 * b[3] + 16 * b[4]
        + 8 * b[5] + 4 * b[6] + 2 * b[7] + b[8]
        = (2 * b[1] + b[2]) * 64
            + (16 * b[3] + 8 * b[4] + 4 * b[5] + 2 * b[6] + b[7]) * 2
            + b[8]
  BY <1>1
<1> QED BY <1>2, <1>3, <1>4, <1>5, <1>6

LEMMA FiveByteOfRow ==
  ASSUME NEW n \in Nat, NEW values \in [1 .. n -> 0 .. 31], NEW k \in 1 .. n,
         NEW g \in Nat, NEW e \in 0 .. 4, 5 * k = 8 * (g + 1) + e
  PROVE  Codes!Joined(2, BitRow(values, 5, 8, g))
           = FiveByte(Quintet(values, k - 2), Quintet(values, k - 1),
                      Quintet(values, k), e)
<1> DEFINE b == BitRow(values, 5, 8, g)
           x == Quintet(values, k - 2)
           y == Quintet(values, k - 1)
           z == Quintet(values, k)
<1> SUFFICES Codes!Joined(2, b) = FiveByte(x, y, z, e) OBVIOUS
<1>1. x \in 0 .. 31 /\ y \in 0 .. 31 /\ z \in 0 .. 31
  <2>1. k - 2 \in Int /\ k - 1 \in Int /\ k \in Int OBVIOUS
  <2> QED BY <2>1, QuintetIsFive
<1>2. ASSUME NEW i \in 1 .. n, NEW j \in 0 .. 4, NEW t \in 1 .. 8,
             8 * g + (t - 1) = 5 * (i - 1) + j
      PROVE  b[t] = BitOf(Quintet(values, i), 5, j)
  <2>1. b[t] = Codes!Bit(values, 5, 8 * g + (t - 1)) BY DEF BitRow
  <2>2. Codes!Bit(values, 5, 5 * (i - 1) + j) = BitOf(Quintet(values, i), 5, j)
    BY QuintetBit
  <2> QED BY <1>2, <2>1, <2>2, Zenon
<1>3. b \in [1 .. 8 -> 0 .. 1]
  <2>1. \A v \in 0 .. 31 : v \in Nat OBVIOUS
  <2>2. values \in [1 .. n -> Nat] BY <2>1
  <2>3. 5 \in Width /\ \A t \in 1 .. 8 : 8 * g + (t - 1) \in Nat BY DEF Width
  <2>4. \A t \in 1 .. 8 : Codes!Bit(values, 5, 8 * g + (t - 1)) \in 0 .. 1
    BY <2>2, <2>3, RowIsBinary
  <2> QED BY <2>4 DEF BitRow
<1>4. k \in 1 .. n /\ k - 1 \in 1 .. n /\ (e >= 3 => k - 2 \in 1 .. n) OBVIOUS
<1> HIDE DEF b
<1>5. Codes!Joined(2, b) = 128 * b[1] + 64 * b[2] + 32 * b[3] + 16 * b[4]
                             + 8 * b[5] + 4 * b[6] + 2 * b[7] + b[8]
  BY <1>3, EightBits
<1>6. CASE e = 0
  <2>1. b[1] = BitOf(y, 5, 2)
    <3>1. 8 * g + (1 - 1) = 5 * ((k - 1) - 1) + 2 /\ 1 \in 1 .. 8 /\ 2 \in 0 .. 4 BY <1>6
    <3>2. k - 1 \in 1 .. n BY <1>4
    <3> QED BY <1>2, <3>1, <3>2, Zenon
  <2>2. b[2] = BitOf(y, 5, 3)
    <3>1. 8 * g + (2 - 1) = 5 * ((k - 1) - 1) + 3 /\ 2 \in 1 .. 8 /\ 3 \in 0 .. 4 BY <1>6
    <3>2. k - 1 \in 1 .. n BY <1>4
    <3> QED BY <1>2, <3>1, <3>2, Zenon
  <2>3. b[3] = BitOf(y, 5, 4)
    <3>1. 8 * g + (3 - 1) = 5 * ((k - 1) - 1) + 4 /\ 3 \in 1 .. 8 /\ 4 \in 0 .. 4 BY <1>6
    <3>2. k - 1 \in 1 .. n BY <1>4
    <3> QED BY <1>2, <3>1, <3>2, Zenon
  <2>4. b[4] = BitOf(z, 5, 0)
    <3>1. 8 * g + (4 - 1) = 5 * ((k) - 1) + 0 /\ 4 \in 1 .. 8 /\ 0 \in 0 .. 4 BY <1>6
    <3>2. k \in 1 .. n BY <1>4
    <3> QED BY <1>2, <3>1, <3>2, Zenon
  <2>5. b[5] = BitOf(z, 5, 1)
    <3>1. 8 * g + (5 - 1) = 5 * ((k) - 1) + 1 /\ 5 \in 1 .. 8 /\ 1 \in 0 .. 4 BY <1>6
    <3>2. k \in 1 .. n BY <1>4
    <3> QED BY <1>2, <3>1, <3>2, Zenon
  <2>6. b[6] = BitOf(z, 5, 2)
    <3>1. 8 * g + (6 - 1) = 5 * ((k) - 1) + 2 /\ 6 \in 1 .. 8 /\ 2 \in 0 .. 4 BY <1>6
    <3>2. k \in 1 .. n BY <1>4
    <3> QED BY <1>2, <3>1, <3>2, Zenon
  <2>7. b[7] = BitOf(z, 5, 3)
    <3>1. 8 * g + (7 - 1) = 5 * ((k) - 1) + 3 /\ 7 \in 1 .. 8 /\ 3 \in 0 .. 4 BY <1>6
    <3>2. k \in 1 .. n BY <1>4
    <3> QED BY <1>2, <3>1, <3>2, Zenon
  <2>8. b[8] = BitOf(z, 5, 4)
    <3>1. 8 * g + (8 - 1) = 5 * ((k) - 1) + 4 /\ 8 \in 1 .. 8 /\ 4 \in 0 .. 4 BY <1>6
    <3>2. k \in 1 .. n BY <1>4
    <3> QED BY <1>2, <3>1, <3>2, Zenon
  <2> HIDE DEF x, y, z
  <2>9. y % 8 = 4 * b[1] + 2 * b[2] + b[3]
    BY <1>1, <2>1, <2>2, <2>3, QuintetParts, QuintetBits, Zenon
  <2>10. z = 16 * b[4] + 8 * b[5] + 4 * b[6] + 2 * b[7] + b[8]
    BY <1>1, <2>4, <2>5, <2>6, <2>7, <2>8, QuintetParts, QuintetBits, Zenon
  <2>11. Codes!Joined(2, b) = (y % 8) * 32 + z
    BY <1>3, <1>5, <2>9, <2>10, OctetSplit, Zenon
  <2> QED BY <1>6, <2>11 DEF FiveByte
<1>7. CASE e = 1
  <2>1. b[1] = BitOf(y, 5, 1)
    <3>1. 8 * g + (1 - 1) = 5 * ((k - 1) - 1) + 1 /\ 1 \in 1 .. 8 /\ 1 \in 0 .. 4 BY <1>7
    <3>2. k - 1 \in 1 .. n BY <1>4
    <3> QED BY <1>2, <3>1, <3>2, Zenon
  <2>2. b[2] = BitOf(y, 5, 2)
    <3>1. 8 * g + (2 - 1) = 5 * ((k - 1) - 1) + 2 /\ 2 \in 1 .. 8 /\ 2 \in 0 .. 4 BY <1>7
    <3>2. k - 1 \in 1 .. n BY <1>4
    <3> QED BY <1>2, <3>1, <3>2, Zenon
  <2>3. b[3] = BitOf(y, 5, 3)
    <3>1. 8 * g + (3 - 1) = 5 * ((k - 1) - 1) + 3 /\ 3 \in 1 .. 8 /\ 3 \in 0 .. 4 BY <1>7
    <3>2. k - 1 \in 1 .. n BY <1>4
    <3> QED BY <1>2, <3>1, <3>2, Zenon
  <2>4. b[4] = BitOf(y, 5, 4)
    <3>1. 8 * g + (4 - 1) = 5 * ((k - 1) - 1) + 4 /\ 4 \in 1 .. 8 /\ 4 \in 0 .. 4 BY <1>7
    <3>2. k - 1 \in 1 .. n BY <1>4
    <3> QED BY <1>2, <3>1, <3>2, Zenon
  <2>5. b[5] = BitOf(z, 5, 0)
    <3>1. 8 * g + (5 - 1) = 5 * ((k) - 1) + 0 /\ 5 \in 1 .. 8 /\ 0 \in 0 .. 4 BY <1>7
    <3>2. k \in 1 .. n BY <1>4
    <3> QED BY <1>2, <3>1, <3>2, Zenon
  <2>6. b[6] = BitOf(z, 5, 1)
    <3>1. 8 * g + (6 - 1) = 5 * ((k) - 1) + 1 /\ 6 \in 1 .. 8 /\ 1 \in 0 .. 4 BY <1>7
    <3>2. k \in 1 .. n BY <1>4
    <3> QED BY <1>2, <3>1, <3>2, Zenon
  <2>7. b[7] = BitOf(z, 5, 2)
    <3>1. 8 * g + (7 - 1) = 5 * ((k) - 1) + 2 /\ 7 \in 1 .. 8 /\ 2 \in 0 .. 4 BY <1>7
    <3>2. k \in 1 .. n BY <1>4
    <3> QED BY <1>2, <3>1, <3>2, Zenon
  <2>8. b[8] = BitOf(z, 5, 3)
    <3>1. 8 * g + (8 - 1) = 5 * ((k) - 1) + 3 /\ 8 \in 1 .. 8 /\ 3 \in 0 .. 4 BY <1>7
    <3>2. k \in 1 .. n BY <1>4
    <3> QED BY <1>2, <3>1, <3>2, Zenon
  <2> HIDE DEF x, y, z
  <2>9. y % 16 = 8 * b[1] + 4 * b[2] + 2 * b[3] + b[4]
    BY <1>1, <2>1, <2>2, <2>3, <2>4, QuintetParts, QuintetBits, Zenon
  <2>10. z \div 2 = 8 * b[5] + 4 * b[6] + 2 * b[7] + b[8]
    BY <1>1, <2>5, <2>6, <2>7, <2>8, QuintetParts, QuintetBits, Zenon
  <2>11. Codes!Joined(2, b) = (y % 16) * 16 + (z \div 2)
    BY <1>3, <1>5, <2>9, <2>10, OctetSplit, Zenon
  <2> QED BY <1>7, <2>11 DEF FiveByte
<1>8. CASE e = 2
  <2>1. b[1] = BitOf(y, 5, 0)
    <3>1. 8 * g + (1 - 1) = 5 * ((k - 1) - 1) + 0 /\ 1 \in 1 .. 8 /\ 0 \in 0 .. 4 BY <1>8
    <3>2. k - 1 \in 1 .. n BY <1>4
    <3> QED BY <1>2, <3>1, <3>2, Zenon
  <2>2. b[2] = BitOf(y, 5, 1)
    <3>1. 8 * g + (2 - 1) = 5 * ((k - 1) - 1) + 1 /\ 2 \in 1 .. 8 /\ 1 \in 0 .. 4 BY <1>8
    <3>2. k - 1 \in 1 .. n BY <1>4
    <3> QED BY <1>2, <3>1, <3>2, Zenon
  <2>3. b[3] = BitOf(y, 5, 2)
    <3>1. 8 * g + (3 - 1) = 5 * ((k - 1) - 1) + 2 /\ 3 \in 1 .. 8 /\ 2 \in 0 .. 4 BY <1>8
    <3>2. k - 1 \in 1 .. n BY <1>4
    <3> QED BY <1>2, <3>1, <3>2, Zenon
  <2>4. b[4] = BitOf(y, 5, 3)
    <3>1. 8 * g + (4 - 1) = 5 * ((k - 1) - 1) + 3 /\ 4 \in 1 .. 8 /\ 3 \in 0 .. 4 BY <1>8
    <3>2. k - 1 \in 1 .. n BY <1>4
    <3> QED BY <1>2, <3>1, <3>2, Zenon
  <2>5. b[5] = BitOf(y, 5, 4)
    <3>1. 8 * g + (5 - 1) = 5 * ((k - 1) - 1) + 4 /\ 5 \in 1 .. 8 /\ 4 \in 0 .. 4 BY <1>8
    <3>2. k - 1 \in 1 .. n BY <1>4
    <3> QED BY <1>2, <3>1, <3>2, Zenon
  <2>6. b[6] = BitOf(z, 5, 0)
    <3>1. 8 * g + (6 - 1) = 5 * ((k) - 1) + 0 /\ 6 \in 1 .. 8 /\ 0 \in 0 .. 4 BY <1>8
    <3>2. k \in 1 .. n BY <1>4
    <3> QED BY <1>2, <3>1, <3>2, Zenon
  <2>7. b[7] = BitOf(z, 5, 1)
    <3>1. 8 * g + (7 - 1) = 5 * ((k) - 1) + 1 /\ 7 \in 1 .. 8 /\ 1 \in 0 .. 4 BY <1>8
    <3>2. k \in 1 .. n BY <1>4
    <3> QED BY <1>2, <3>1, <3>2, Zenon
  <2>8. b[8] = BitOf(z, 5, 2)
    <3>1. 8 * g + (8 - 1) = 5 * ((k) - 1) + 2 /\ 8 \in 1 .. 8 /\ 2 \in 0 .. 4 BY <1>8
    <3>2. k \in 1 .. n BY <1>4
    <3> QED BY <1>2, <3>1, <3>2, Zenon
  <2> HIDE DEF x, y, z
  <2>9. y = 16 * b[1] + 8 * b[2] + 4 * b[3] + 2 * b[4] + b[5]
    BY <1>1, <2>1, <2>2, <2>3, <2>4, <2>5, QuintetParts, QuintetBits, Zenon
  <2>10. z \div 4 = 4 * b[6] + 2 * b[7] + b[8]
    BY <1>1, <2>6, <2>7, <2>8, QuintetParts, QuintetBits, Zenon
  <2>11. Codes!Joined(2, b) = y * 8 + (z \div 4)
    BY <1>3, <1>5, <2>9, <2>10, OctetSplit, Zenon
  <2> QED BY <1>8, <2>11 DEF FiveByte
<1>9. CASE e = 3
  <2>1. b[1] = BitOf(x, 5, 4)
    <3>1. 8 * g + (1 - 1) = 5 * ((k - 2) - 1) + 4 /\ 1 \in 1 .. 8 /\ 4 \in 0 .. 4 BY <1>9
    <3>2. k - 2 \in 1 .. n BY <1>4, <1>9
    <3> QED BY <1>2, <3>1, <3>2, Zenon
  <2>2. b[2] = BitOf(y, 5, 0)
    <3>1. 8 * g + (2 - 1) = 5 * ((k - 1) - 1) + 0 /\ 2 \in 1 .. 8 /\ 0 \in 0 .. 4 BY <1>9
    <3>2. k - 1 \in 1 .. n BY <1>4
    <3> QED BY <1>2, <3>1, <3>2, Zenon
  <2>3. b[3] = BitOf(y, 5, 1)
    <3>1. 8 * g + (3 - 1) = 5 * ((k - 1) - 1) + 1 /\ 3 \in 1 .. 8 /\ 1 \in 0 .. 4 BY <1>9
    <3>2. k - 1 \in 1 .. n BY <1>4
    <3> QED BY <1>2, <3>1, <3>2, Zenon
  <2>4. b[4] = BitOf(y, 5, 2)
    <3>1. 8 * g + (4 - 1) = 5 * ((k - 1) - 1) + 2 /\ 4 \in 1 .. 8 /\ 2 \in 0 .. 4 BY <1>9
    <3>2. k - 1 \in 1 .. n BY <1>4
    <3> QED BY <1>2, <3>1, <3>2, Zenon
  <2>5. b[5] = BitOf(y, 5, 3)
    <3>1. 8 * g + (5 - 1) = 5 * ((k - 1) - 1) + 3 /\ 5 \in 1 .. 8 /\ 3 \in 0 .. 4 BY <1>9
    <3>2. k - 1 \in 1 .. n BY <1>4
    <3> QED BY <1>2, <3>1, <3>2, Zenon
  <2>6. b[6] = BitOf(y, 5, 4)
    <3>1. 8 * g + (6 - 1) = 5 * ((k - 1) - 1) + 4 /\ 6 \in 1 .. 8 /\ 4 \in 0 .. 4 BY <1>9
    <3>2. k - 1 \in 1 .. n BY <1>4
    <3> QED BY <1>2, <3>1, <3>2, Zenon
  <2>7. b[7] = BitOf(z, 5, 0)
    <3>1. 8 * g + (7 - 1) = 5 * ((k) - 1) + 0 /\ 7 \in 1 .. 8 /\ 0 \in 0 .. 4 BY <1>9
    <3>2. k \in 1 .. n BY <1>4
    <3> QED BY <1>2, <3>1, <3>2, Zenon
  <2>8. b[8] = BitOf(z, 5, 1)
    <3>1. 8 * g + (8 - 1) = 5 * ((k) - 1) + 1 /\ 8 \in 1 .. 8 /\ 1 \in 0 .. 4 BY <1>9
    <3>2. k \in 1 .. n BY <1>4
    <3> QED BY <1>2, <3>1, <3>2, Zenon
  <2> HIDE DEF x, y, z
  <2>9. x % 2 = b[1]
    BY <1>1, <2>1, QuintetParts, QuintetBits, Zenon
  <2>10. y = 16 * b[2] + 8 * b[3] + 4 * b[4] + 2 * b[5] + b[6]
    BY <1>1, <2>2, <2>3, <2>4, <2>5, <2>6, QuintetParts, QuintetBits, Zenon
  <2>11. z \div 8 = 2 * b[7] + b[8]
    BY <1>1, <2>7, <2>8, QuintetParts, QuintetBits, Zenon
  <2>12. Codes!Joined(2, b) = (x % 2) * 128 + y * 4 + (z \div 8)
    BY <1>3, <1>5, <2>9, <2>10, <2>11, OctetSplit, Zenon
  <2> QED BY <1>9, <2>12 DEF FiveByte
<1>10. CASE e = 4
  <2>1. b[1] = BitOf(x, 5, 3)
    <3>1. 8 * g + (1 - 1) = 5 * ((k - 2) - 1) + 3 /\ 1 \in 1 .. 8 /\ 3 \in 0 .. 4 BY <1>10
    <3>2. k - 2 \in 1 .. n BY <1>4, <1>10
    <3> QED BY <1>2, <3>1, <3>2, Zenon
  <2>2. b[2] = BitOf(x, 5, 4)
    <3>1. 8 * g + (2 - 1) = 5 * ((k - 2) - 1) + 4 /\ 2 \in 1 .. 8 /\ 4 \in 0 .. 4 BY <1>10
    <3>2. k - 2 \in 1 .. n BY <1>4, <1>10
    <3> QED BY <1>2, <3>1, <3>2, Zenon
  <2>3. b[3] = BitOf(y, 5, 0)
    <3>1. 8 * g + (3 - 1) = 5 * ((k - 1) - 1) + 0 /\ 3 \in 1 .. 8 /\ 0 \in 0 .. 4 BY <1>10
    <3>2. k - 1 \in 1 .. n BY <1>4
    <3> QED BY <1>2, <3>1, <3>2, Zenon
  <2>4. b[4] = BitOf(y, 5, 1)
    <3>1. 8 * g + (4 - 1) = 5 * ((k - 1) - 1) + 1 /\ 4 \in 1 .. 8 /\ 1 \in 0 .. 4 BY <1>10
    <3>2. k - 1 \in 1 .. n BY <1>4
    <3> QED BY <1>2, <3>1, <3>2, Zenon
  <2>5. b[5] = BitOf(y, 5, 2)
    <3>1. 8 * g + (5 - 1) = 5 * ((k - 1) - 1) + 2 /\ 5 \in 1 .. 8 /\ 2 \in 0 .. 4 BY <1>10
    <3>2. k - 1 \in 1 .. n BY <1>4
    <3> QED BY <1>2, <3>1, <3>2, Zenon
  <2>6. b[6] = BitOf(y, 5, 3)
    <3>1. 8 * g + (6 - 1) = 5 * ((k - 1) - 1) + 3 /\ 6 \in 1 .. 8 /\ 3 \in 0 .. 4 BY <1>10
    <3>2. k - 1 \in 1 .. n BY <1>4
    <3> QED BY <1>2, <3>1, <3>2, Zenon
  <2>7. b[7] = BitOf(y, 5, 4)
    <3>1. 8 * g + (7 - 1) = 5 * ((k - 1) - 1) + 4 /\ 7 \in 1 .. 8 /\ 4 \in 0 .. 4 BY <1>10
    <3>2. k - 1 \in 1 .. n BY <1>4
    <3> QED BY <1>2, <3>1, <3>2, Zenon
  <2>8. b[8] = BitOf(z, 5, 0)
    <3>1. 8 * g + (8 - 1) = 5 * ((k) - 1) + 0 /\ 8 \in 1 .. 8 /\ 0 \in 0 .. 4 BY <1>10
    <3>2. k \in 1 .. n BY <1>4
    <3> QED BY <1>2, <3>1, <3>2, Zenon
  <2> HIDE DEF x, y, z
  <2>9. x % 4 = 2 * b[1] + b[2]
    BY <1>1, <2>1, <2>2, QuintetParts, QuintetBits, Zenon
  <2>10. y = 16 * b[3] + 8 * b[4] + 4 * b[5] + 2 * b[6] + b[7]
    BY <1>1, <2>3, <2>4, <2>5, <2>6, <2>7, QuintetParts, QuintetBits, Zenon
  <2>11. z \div 16 = b[8]
    BY <1>1, <2>8, QuintetParts, QuintetBits, Zenon
  <2>12. Codes!Joined(2, b) = (x % 4) * 64 + y * 2 + (z \div 16)
    BY <1>3, <1>5, <2>9, <2>10, <2>11, OctetSplit, Zenon
  <2> QED BY <1>10, <2>12 DEF FiveByte
<1> QED BY <1>6, <1>7, <1>8, <1>9, <1>10

(* Each character of the alphabet is of one letter, in either case.           *)
Letters == [v \in 0 .. 31 |-> IF v < 26 THEN {65 + v, 97 + v} ELSE {24 + v}]

LEMMA LetterRead ==
  ASSUME NEW c \in Nat, NEW v \in 0 .. 31, c \in Letters[v]
  PROVE  Codes!Base32Value(c) = v
<1>1. CASE v < 26
  <2>1. c = 65 + v \/ c = 97 + v BY <1>1 DEF Letters
  <2> QED BY <1>1, <2>1 DEF Codes!Base32Value
<1>2. CASE ~(v < 26)
  <2>1. c = 24 + v BY <1>2 DEF Letters
  <2> QED BY <1>2, <2>1 DEF Codes!Base32Value
<1> QED BY <1>1, <1>2

LEMMA LetterSought ==
  ASSUME NEW c \in Nat, Codes!Base32Value(c) # Codes!Invalid
  PROVE  Codes!Base32Value(c) \in 0 .. 31 /\ c \in Letters[Codes!Base32Value(c)]
<1>1. CASE c \in 65 .. 90
  <2>1. Codes!Base32Value(c) = c - 65 BY <1>1 DEF Codes!Base32Value
  <2>2. c \in Letters[c - 65] BY <1>1 DEF Letters
  <2> QED BY <1>1, <2>1, <2>2
<1>2. CASE c \in 97 .. 122
  <2>1. Codes!Base32Value(c) = c - 97 BY <1>2 DEF Codes!Base32Value
  <2>2. c \in Letters[c - 97] BY <1>2 DEF Letters
  <2> QED BY <1>2, <2>1, <2>2
<1>3. CASE c \in 50 .. 55
  <2>1. Codes!Base32Value(c) = (c - 50) + 26 BY <1>3 DEF Codes!Base32Value
  <2>2. c \in Letters[(c - 50) + 26] BY <1>3 DEF Letters
  <2> QED BY <1>3, <2>1, <2>2
<1>4. CASE ~(c \in 65 .. 90 \/ c \in 97 .. 122 \/ c \in 50 .. 55)
  <2>1. Codes!Base32Value(c) = Codes!Invalid BY <1>4 DEF Codes!Base32Value
  <2> QED BY <2>1
<1> QED BY <1>1, <1>2, <1>3, <1>4

(* What the loop holds between two characters, and what a character does.     *)
Held == [buffer : Nat, bits : 0 .. 7, out : Seq(Nat)]
Shifted(s, v) == (s.buffer * 32 + v) % Word

LEMMA ShiftedIsNat ==
  ASSUME NEW s \in Held, NEW v \in 0 .. 31
  PROVE  Shifted(s, v) \in Nat
<1> DEFINE x == s.buffer * 32 + v
<1>1. x \in Nat BY DEF Held
<1>2. Word \in Nat \ {0} BY TextAssumption
<1> HIDE DEF x
<1>3. x % Word \in Nat BY <1>1, <1>2
<1> QED BY <1>3 DEF Shifted, x

LEMMA ByteIsNat ==
  ASSUME NEW b \in Nat, NEW e \in 0 .. 4
  PROVE  (b \div 2 ^ e) % 256 \in Nat
<1> DEFINE p == 2 ^ e
<1>1. p \in Nat \ {0}
  <2>1. CASE e = 0 BY <2>1, PowersOfTwo
  <2>2. CASE e = 1 BY <2>2, PowersOfTwo
  <2>3. CASE e = 2 BY <2>3, PowersOfTwo
  <2>4. CASE e = 3 BY <2>4, PowersOfTwo
  <2>5. CASE e = 4 BY <2>5, PowersOfTwo
  <2> QED BY <2>1, <2>2, <2>3, <2>4, <2>5
<1> HIDE DEF p
<1> DEFINE d == b \div p
<1>2. d \in Nat BY <1>1
<1> HIDE DEF d
<1>3. d % 256 \in Nat BY <1>2
<1> QED BY <1>3 DEF d, p

LEMMA CharTaken ==
  ASSUME NEW s \in Held, NEW c, Codes!Base32Value(c) \in 0 .. 31
  PROVE  LET b == Shifted(s, Codes!Base32Value(c)) IN
         /\ s.bits >= 3 =>
              Codes!TakeChar(s, c)
                = [buffer |-> b, bits |-> s.bits - 3,
                   out |-> Append(s.out, (b \div 2 ^ (s.bits - 3)) % 256)]
         /\ ~(s.bits >= 3) =>
              Codes!TakeChar(s, c) = [buffer |-> b, bits |-> s.bits + 5, out |-> s.out]
         /\ Codes!TakeChar(s, c) \in Held
<1> DEFINE v == Codes!Base32Value(c)
           b == Shifted(s, v)
           t == Codes!TakeChar(s, c)
<1>1. s.buffer \in Nat /\ s.bits \in 0 .. 7 /\ s.out \in Seq(Nat) BY DEF Held
<1>2. b \in Nat BY ShiftedIsNat
<1>3. CASE s.bits >= 3
  <2> DEFINE e == s.bits - 3
             byte == (b \div 2 ^ e) % 256
  <2>1. s.bits + 5 >= 8 /\ (s.bits + 5) - 8 = e /\ e \in 0 .. 4 BY <1>1, <1>3
  <2>2. t = [buffer |-> b, bits |-> e, out |-> Append(s.out, byte)]
    <3>1. s.bits + 5 - 8 = e BY <2>1
    <3> HIDE DEF e
    <3> QED BY <2>1, <3>1 DEF Codes!TakeChar, Shifted
  <2> HIDE DEF e
  <2>3. byte \in Nat BY <1>2, <2>1, ByteIsNat
  <2> HIDE DEF byte, b, t
  <2>4. Append(s.out, byte) \in Seq(Nat) BY <1>1, <2>3
  <2>5. e \in 0 .. 7 BY <2>1
  <2>6. t \in Held BY <1>2, <2>2, <2>4, <2>5 DEF Held
  <2> QED BY <1>3, <2>2, <2>6 DEF e, byte, t, b
<1>4. CASE ~(s.bits >= 3)
  <2>1. ~(s.bits + 5 >= 8) /\ s.bits + 5 \in 0 .. 7 BY <1>1, <1>4
  <2>2. t = [buffer |-> b, bits |-> s.bits + 5, out |-> s.out]
    BY <2>1 DEF Codes!TakeChar, Shifted
  <2> HIDE DEF b, t
  <2>3. t \in Held BY <1>1, <1>2, <2>1, <2>2 DEF Held
  <2> QED BY <1>4, <2>2, <2>3 DEF t, b
<1> QED BY <1>3, <1>4

(* The last twelve bits of the buffer are the last of the row; the bytes that *)
(* are out are its first.                                                    *)
EndsAt(buffer, values, k) ==
  EndsInFives(buffer, Quintet(values, k - 2), Quintet(values, k - 1), Quintet(values, k))
RowHeld(s, values, k) ==
  /\ s \in Held
  /\ 5 * k = 8 * Len(s.out) + s.bits
  /\ EndsAt(s.buffer, values, k)
  /\ \A g \in 1 .. Len(s.out) : s.out[g] = Codes!Joined(2, BitRow(values, 5, 8, g - 1))

LEMMA TailShifts ==
  ASSUME NEW n \in Nat, NEW values \in [1 .. n -> 0 .. 31], NEW k \in 0 .. n - 1,
         NEW s \in Held, EndsAt(s.buffer, values, k)
  PROVE  EndsAt(Shifted(s, Quintet(values, k + 1)), values, k + 1)
<1> DEFINE x == Quintet(values, k - 2)
           y == Quintet(values, k - 1)
           z == Quintet(values, k)
           v == Quintet(values, k + 1)
           b == s.buffer
           w == Word \div 4096
           u == b * 32 + v
           d == u \div Word
<1>1. x \in Int /\ y \in Int /\ z \in Int /\ v \in Nat /\ b \in Nat
  <2>1. k - 2 \in Int /\ k - 1 \in Int /\ k \in Int /\ k + 1 \in Int OBVIOUS
  <2>2. \A i \in 0 .. 31 : i \in Int /\ i \in Nat OBVIOUS
  <2>3. b \in Nat BY DEF Held
  <2> QED BY <2>1, <2>2, <2>3, QuintetIsFive
<1>2. PICK q \in Int : b = 4096 * q + (1024 * x + 32 * y + z)
  BY Zenon DEF EndsAt, EndsInFives
<1>3. EndsInFives(u % Word, y, z, v) => EndsAt(u % Word, values, k + 1)
  <2>1. k + 1 - 2 = k - 1 /\ k + 1 - 1 = k OBVIOUS
  <2> HIDE DEF u
  <2> QED BY <2>1 DEF EndsAt
<1> HIDE DEF x, y, z, v, b
<1>4. Word \in Nat \ {0} /\ Word = 4096 * w /\ w \in Int BY TextAssumption
<1>5. u = 4096 * (32 * q + 8 * x) + (1024 * y + 32 * z + v) /\ u \in Nat BY <1>1, <1>2
<1> HIDE DEF w, u
<1>6. u % Word = u - Word * d /\ d \in Int
  <2>1. d \in Int BY <1>4, <1>5
  <2>2. u % Word \in 0 .. Word - 1 /\ u = Word * d + (u % Word)
    <3>1. u \in Nat /\ Word \in Nat \ {0} BY <1>4, <1>5
    <3> HIDE DEF d
    <3> QED BY <3>1, Division DEF d
  <2>3. Word * d \in Int /\ u % Word \in Int BY <1>4, <2>1, <2>2
  <2> DEFINE m == Word * d
             r == u % Word
  <2>4. m \in Int /\ r \in Int /\ u = m + r BY <2>2, <2>3
  <2> HIDE DEF m, r
  <2>5. u \in Int BY <1>5
  <2>6. r = u - m BY <2>4, <2>5
  <2> QED BY <2>1, <2>6, Zenon DEF m, r
<1> HIDE DEF d
<1>7. u % Word = 4096 * (32 * q + 8 * x - w * d) + (1024 * y + 32 * z + v)
  <2> DEFINE m == w * d
  <2>1. m \in Int BY <1>4, <1>6
  <2>2. Word * d = 4096 * m BY <1>4, <1>6
  <2> HIDE DEF m
  <2>3. u % Word = 4096 * (32 * q + 8 * x - m) + (1024 * y + 32 * z + v)
    BY <1>1, <1>5, <1>6, <2>1, <2>2
  <2> QED BY <2>3 DEF m
<1>8. 32 * q + 8 * x - w * d \in Int
  <2>1. w * d \in Int BY <1>4, <1>6
  <2> QED BY <1>1, <2>1
<1>9. EndsAt(u % Word, values, k + 1)
  <2>1. EndsInFives(u % Word, y, z, v) 
    <3> DEFINE p == 32 * q + 8 * x - w * d
    <3>1. p \in Int /\ u % Word = 4096 * p + (1024 * y + 32 * z + v) BY <1>7, <1>8
    <3> DEFINE m == u % Word
    <3> HIDE DEF p, m
    <3>2. m = 4096 * p + (1024 * y + 32 * z + v) BY <3>1 DEF m
    <3>3. EndsInFives(m, y, z, v) BY <3>1, <3>2 DEF EndsInFives
    <3> QED BY <3>3 DEF m
  <2> QED BY <1>3, <2>1, Zenon
<1>10. Shifted(s, Quintet(values, k + 1)) = u % Word BY Zenon DEF Shifted, u, b, v
<1> QED BY <1>9, <1>10, Zenon

LEMMA RowMoves ==
  ASSUME NEW n \in Nat, NEW values \in [1 .. n -> 0 .. 31], NEW k \in 0 .. n - 1,
         NEW c, Codes!Base32Value(c) = values[k + 1], NEW s, RowHeld(s, values, k)
  PROVE  RowHeld(Codes!TakeChar(s, c), values, k + 1)
<1> DEFINE v == Codes!Base32Value(c)
           b == Shifted(s, v)
           t == Codes!TakeChar(s, c)
           row(g) == Codes!Joined(2, BitRow(values, 5, 8, g - 1))
           h == Len(s.out)
<1>1. /\ s \in Held /\ s.bits \in 0 .. 7 /\ s.out \in Seq(Nat) /\ h \in Nat
      /\ 5 * k = 8 * h + s.bits /\ \A g \in 1 .. h : s.out[g] = row(g)
  BY DEF RowHeld, Held
<1>2. k + 1 \in 1 .. n /\ v \in 0 .. 31 /\ v = Quintet(values, k + 1)
  <2>1. k + 1 \in 1 .. n OBVIOUS
  <2>2. values[k + 1] \in 0 .. 31 BY <2>1
  <2>3. Quintet(values, k + 1) = values[k + 1] BY <2>1 DEF Quintet
  <2> QED BY <2>1, <2>2, <2>3
<1>3. b \in Nat /\ EndsAt(b, values, k + 1)
  BY <1>1, <1>2, ShiftedIsNat, TailShifts DEF RowHeld
<1>4. CASE s.bits >= 3
  <2> DEFINE e == s.bits - 3
             byte == (b \div 2 ^ e) % 256
  <2>1. e \in 0 .. 4 /\ 5 * (k + 1) = 8 * (h + 1) + e
    <3> DEFINE r == s.bits
    <3>1. r \in 0 .. 7 /\ h \in Nat /\ 5 * k = 8 * h + r /\ r >= 3 BY <1>1, <1>4
    <3> HIDE DEF r, h
    <3>2. r - 3 \in 0 .. 4 /\ 5 * (k + 1) = 8 * (h + 1) + (r - 3) BY <3>1
    <3> QED BY <3>2 DEF r
  <2>2. t = [buffer |-> b, bits |-> e, out |-> Append(s.out, byte)] /\ t \in Held
    BY <1>1, <1>2, <1>4, CharTaken
  <2> HIDE DEF e
  <2>3. byte = row(h + 1)
    <3> DEFINE x == Quintet(values, (k + 1) - 2)
               y == Quintet(values, (k + 1) - 1)
               z == Quintet(values, k + 1)
    <3>1. x \in 0 .. 31 /\ y \in 0 .. 31 /\ z \in 0 .. 31
      <4>1. (k + 1) - 2 \in Int /\ (k + 1) - 1 \in Int /\ k + 1 \in Int OBVIOUS
      <4> QED BY <4>1, QuintetIsFive
    <3>2. EndsInFives(b, x, y, z) BY <1>3, Zenon DEF EndsAt
    <3>3. Codes!Joined(2, BitRow(values, 5, 8, h)) = FiveByte(x, y, z, e)
      <4> DEFINE i == k + 1
      <4>1. i \in 1 .. n /\ h \in Nat /\ e \in 0 .. 4 /\ 5 * i = 8 * (h + 1) + e
        BY <1>1, <1>2, <2>1
      <4> HIDE DEF i, h
      <4>2. Codes!Joined(2, BitRow(values, 5, 8, h))
              = FiveByte(Quintet(values, i - 2), Quintet(values, i - 1),
                         Quintet(values, i), e)
        BY <4>1, FiveByteOfRow
      <4> QED BY <4>2, Zenon DEF i
    <3> HIDE DEF x, y, z, b
    <3>4. byte = FiveByte(x, y, z, e)
      <4>1. b \in Nat /\ e \in 0 .. 4 BY <1>3, <2>1
      <4>2. ByteAt(b, e) = FiveByte(x, y, z, e) BY <3>1, <3>2, <4>1, BufferByte
      <4> QED BY <4>2, Zenon DEF ByteAt
    <3>5. (h + 1) - 1 = h BY <1>1
    <3> QED BY <3>3, <3>4, <3>5, Zenon
  <2> HIDE DEF byte, b, t, row
  <2>4. t.buffer = b /\ t.bits = e /\ t.out = Append(s.out, byte) BY <2>2
  <2>5. byte \in Nat BY <1>3, <2>1, ByteIsNat DEF byte
  <2>6. /\ Len(t.out) = h + 1
        /\ \A g \in 1 .. h : t.out[g] = s.out[g] /\ t.out[h + 1] = byte
    BY <1>1, <2>4, <2>5, AppendProperties
  <2>7. t.out[h + 1] = byte BY <1>1, <2>4, <2>5, AppendProperties
  <2>8. \A g \in 1 .. Len(t.out) : t.out[g] = row(g)
    <3> TAKE g \in 1 .. Len(t.out)
    <3>1. g \in 1 .. h \/ g = h + 1 BY <1>1, <2>6
    <3> QED BY <1>1, <2>3, <2>6, <2>7, <3>1, Zenon
  <2>9. 5 * (k + 1) = 8 * Len(t.out) + t.bits BY <2>1, <2>4, <2>6, Zenon
  <2> HIDE DEF h
  <2> QED BY <1>3, <2>2, <2>4, <2>8, <2>9, Zenon DEF RowHeld, t, row
<1>5. CASE ~(s.bits >= 3)
  <2>1. t = [buffer |-> b, bits |-> s.bits + 5, out |-> s.out] /\ t \in Held
    BY <1>1, <1>2, <1>5, CharTaken
  <2>2. 5 * (k + 1) = 8 * h + (s.bits + 5)
    <3> DEFINE r == s.bits
    <3>1. r \in 0 .. 7 /\ h \in Nat /\ 5 * k = 8 * h + r BY <1>1
    <3> HIDE DEF r, h
    <3>2. 5 * (k + 1) = 8 * h + (r + 5) BY <3>1
    <3> QED BY <3>2 DEF r
  <2> HIDE DEF b, t, row
  <2>3. t.buffer = b /\ t.bits = s.bits + 5 /\ t.out = s.out BY <2>1
  <2> QED BY <1>1, <1>3, <2>1, <2>2, <2>3, Zenon DEF RowHeld, t, row
<1> QED BY <1>4, <1>5

(* The rounds of the loop over the characters.                               *)
Decodes(after, taken, n) ==
  after = [k \in 0 .. n |-> IF k = 0 THEN [buffer |-> 0, bits |-> 0, out |-> << >>]
                            ELSE Codes!TakeChar(after[k - 1], taken[k])]

LEMMA DecodeRuns ==
  ASSUME NEW n \in Nat, NEW taken,
         \A k \in 1 .. n : Codes!Base32Value(taken[k]) \in 0 .. 31
  PROVE  \E after : Decodes(after, taken, n)
<1> DEFINE start == [buffer |-> 0, bits |-> 0, out |-> << >>]
           step == [p \in Held \X (1 .. n) |-> Codes!TakeChar(p[1], taken[p[2]])]
<1>1. start \in Held BY DEF Held
<1>2. \A p \in Held \X (1 .. n) : Codes!TakeChar(p[1], taken[p[2]]) \in Held
  <2> TAKE p \in Held \X (1 .. n)
  <2>1. p[1] \in Held /\ p[2] \in 1 .. n OBVIOUS
  <2> QED BY <2>1, CharTaken
<1>3. step \in [Held \X (1 .. n) -> Held] BY <1>2
<1>4. \A s \in Held, k \in 1 .. n : step[<< s, k >>] = Codes!TakeChar(s, taken[k]) OBVIOUS
<1> HIDE DEF step, start
<1>5. PICK f \in [0 .. n -> Held] :
        f[0] = start /\ \A k \in 1 .. n : f[k] = step[<< f[k - 1], k >>]
  <2>1. Loop(n, Held, start, step) BY <1>1, <1>3, LoopRuns
  <2> QED BY <2>1 DEF Loop
<1>6. \A k \in 1 .. n : f[k] = Codes!TakeChar(f[k - 1], taken[k])
  <2> TAKE k \in 1 .. n
  <2>1. k - 1 \in 0 .. n OBVIOUS
  <2>2. f[k - 1] \in Held BY <1>5, <2>1
  <2> QED BY <1>4, <1>5, <2>2
<1>7. \A k \in 0 .. n : f[k] = IF k = 0 THEN start
                               ELSE Codes!TakeChar(f[k - 1], taken[k])
  <2> TAKE k \in 0 .. n
  <2>1. k = 0 \/ k \in 1 .. n OBVIOUS
  <2>2. \A i \in 1 .. n : i # 0 OBVIOUS
  <2> QED BY <1>5, <1>6, <2>1, <2>2, Zenon
<1>8. f = [k \in 0 .. n |-> IF k = 0 THEN start ELSE Codes!TakeChar(f[k - 1], taken[k])]
  BY <1>7
<1>9. Decodes(f, taken, n) BY <1>8, Zenon DEF Decodes, start
<1> QED BY <1>9

LEMMA DecodedRow ==
  ASSUME NEW n \in Nat, NEW taken, NEW values \in [1 .. n -> 0 .. 31],
         \A k \in 1 .. n : Codes!Base32Value(taken[k]) = values[k],
         NEW after, Decodes(after, taken, n)
  PROVE  after[n].out = Codes!Regrouped(values, 5, 8, (5 * n) \div 8)
<1> DEFINE start == [buffer |-> 0, bits |-> 0, out |-> << >>]
           P == {k \in 0 .. n : RowHeld(after[k], values, k)}
<1>1. after[0] = start
  <2>1. 0 \in 0 .. n OBVIOUS
  <2> QED BY <2>1 DEF Decodes
<1>2. \A k \in 1 .. n : after[k] = Codes!TakeChar(after[k - 1], taken[k])
  <2> TAKE k \in 1 .. n
  <2>1. k \in 0 .. n /\ k # 0 OBVIOUS
  <2> QED BY <2>1 DEF Decodes
<1>3. 0 \in P
  <2>1. start \in Held /\ start.buffer = 0 /\ start.bits = 0 /\ start.out = << >>
    BY DEF Held
  <2>2. EndsAt(0, values, 0)
    <3>1. /\ Quintet(values, 0 - 2) = 0 /\ Quintet(values, 0 - 1) = 0
          /\ Quintet(values, 0) = 0
      BY DEF Quintet
    <3>2. EndsInFives(0, 0, 0, 0)
      <4>1. 0 = 4096 * 0 + (1024 * 0 + 32 * 0 + 0) /\ 0 \in Int OBVIOUS
      <4> QED BY <4>1 DEF EndsInFives
    <3> QED BY <3>1, <3>2, Zenon DEF EndsAt
  <2> HIDE DEF start
  <2>3. Len(start.out) = 0 BY <2>1
  <2>4. 5 * 0 = 8 * Len(start.out) + start.bits BY <2>1, <2>3
  <2>5. \A g \in 1 .. Len(start.out) :
          start.out[g] = Codes!Joined(2, BitRow(values, 5, 8, g - 1))
    BY <2>3
  <2>6. RowHeld(start, values, 0) BY <2>1, <2>2, <2>4, <2>5, Zenon DEF RowHeld
  <2> QED BY <1>1, <2>6
<1> HIDE DEF start
<1>4. ASSUME NEW k \in 0 .. n - 1, k \in P PROVE k + 1 \in P
  <2>1. k + 1 \in 1 .. n /\ k + 1 - 1 = k /\ k + 1 \in 0 .. n OBVIOUS
  <2>2. after[k + 1] = Codes!TakeChar(after[k], taken[k + 1]) BY <1>2, <2>1
  <2>3. Codes!Base32Value(taken[k + 1]) = values[k + 1] BY <2>1
  <2>4. RowHeld(after[k], values, k) BY <1>4
  <2>5. RowHeld(Codes!TakeChar(after[k], taken[k + 1]), values, k + 1)
    BY <2>3, <2>4, RowMoves
  <2> QED BY <2>1, <2>2, <2>5
<1> HIDE DEF P
<1>5. \A k \in 0 .. n : k \in P BY <1>3, <1>4, CountingTo
<1>6. RowHeld(after[n], values, n) BY <1>5 DEF P
<1> DEFINE out == after[n].out
           h == Len(out)
           m == (5 * n) \div 8
<1>7. out \in Seq(Nat) /\ h \in Nat BY <1>6 DEF RowHeld, Held
<1>8. h = m
  <2> DEFINE r == after[n].bits
  <2>1. r \in 0 .. 7 /\ 5 * n = 8 * h + r BY <1>6 DEF RowHeld, Held
  <2>2. h \in Nat BY <1>7
  <2> HIDE DEF r, h
  <2> QED BY <2>1, <2>2
<1>9. \A g \in 1 .. h : out[g] = Codes!Joined(2, BitRow(values, 5, 8, g - 1))
  BY <1>6, Zenon DEF RowHeld
<1>10. out = [g \in 1 .. h |-> out[g]]
  <2> HIDE DEF out
  <2> QED BY <1>7
<1> HIDE DEF out, h, m
<1>11. \A g \in 1 .. h : out[g] = Codes!Regrouped(values, 5, 8, h)[g]
  <2> TAKE g \in 1 .. h
  <2> QED BY <1>7, <1>9, RegroupedRow
<1>12. Codes!Regrouped(values, 5, 8, h)
         = [g \in 1 .. h |-> Codes!Regrouped(values, 5, 8, h)[g]]
  BY DEF Codes!Regrouped
<1>13. out = Codes!Regrouped(values, 5, 8, h) BY <1>10, <1>11, <1>12
<1> QED BY <1>8, <1>13, Zenon DEF out, m

(* Of any characters base32Decode returns the whole bytes of the row of bits   *)
(* they stand for, or refuses them: no bit still wanted leaves its           *)
(* buffer, however long the text.                                            *)
THEOREM Base32Exact ==
  ASSUME NEW text \in Seq(Nat)
  PROVE  Codes!Base32Reads(text)
<1> DEFINE T == {text[k] : k \in {j \in DOMAIN text : ~Codes!Base32Skipped(text[j])}}
           taken == Codes!Base32Chars(text)
           n == Len(taken)
           value(c) == CHOOSE v \in 0 .. 31 : c \in Letters[v]
           values == [k \in DOMAIN taken |-> value(taken[k])]
           bad == \E k \in DOMAIN text :
                    ~Codes!Base32Skipped(text[k])
                    /\ Codes!Base32Value(text[k]) = Codes!Invalid
           readable == \A k \in DOMAIN taken : \E v \in 0 .. 31 : taken[k] \in Letters[v]
<1>1. taken \in Seq(Nat) /\ Keeps(taken, text, T)
  <2>1. taken = Filtered(text, T)
    BY DEF Codes!Base32Chars, Codes!Filtered, Filtered
  <2> HIDE DEF T, taken
  <2> QED BY <2>1, FilteredKeeps
<1>2. n \in Nat /\ DOMAIN taken = 1 .. n /\ DOMAIN text = 1 .. Len(text)
  <2> HIDE DEF taken
  <2> QED BY <1>1, LenProperties
<1>3. Codes!Base32Reads(text)
        <=> Codes!Base32Decode(text)
              = IF ~readable THEN Refused
                ELSE Codes!Regrouped(values, 5, 8, (5 * n) \div 8)
  BY DEF Codes!Base32Reads, Letters
<1> HIDE DEF taken
<1>4. ASSUME NEW k \in 1 .. n PROVE taken[k] \in Nat /\ taken[k] \in T
  BY <1>1, <1>2, ElementOfSeq DEF Keeps
<1>5. bad <=> ~readable
  <2>1. ASSUME NEW k \in DOMAIN text, ~Codes!Base32Skipped(text[k]),
               Codes!Base32Value(text[k]) = Codes!Invalid
        PROVE  ~readable
    <3>1. text[k] \in T BY <2>1
    <3>2. PICK i \in 1 .. n : taken[i] = text[k]
      <4> HIDE DEF T, n
      <4>1. \E i \in 1 .. Len(taken) : taken[i] = text[k] BY <1>1, <1>2, <3>1 DEF Keeps
      <4> QED BY <4>1 DEF n
    <3>3. ASSUME NEW v \in 0 .. 31, taken[i] \in Letters[v] PROVE FALSE
      <4>1. Codes!Base32Value(taken[i]) = v BY <1>4, <3>3, LetterRead
      <4>2. \A x \in 0 .. 31 : x # Codes!Invalid BY DEF Codes!Invalid
      <4> QED BY <2>1, <3>2, <4>1, <4>2, Zenon
    <3> QED BY <1>2, <3>3
  <2>2. ASSUME ~bad, NEW k \in DOMAIN taken
        PROVE  \E v \in 0 .. 31 : taken[k] \in Letters[v]
    <3>1. k \in 1 .. n /\ taken[k] \in Nat /\ taken[k] \in T BY <1>2, <1>4
    <3>2. PICK j \in DOMAIN text : ~Codes!Base32Skipped(text[j]) /\ taken[k] = text[j]
      BY <3>1
    <3>3. Codes!Base32Value(taken[k]) # Codes!Invalid BY <2>2, <3>2, Zenon
    <3>4. /\ Codes!Base32Value(taken[k]) \in 0 .. 31
          /\ taken[k] \in Letters[Codes!Base32Value(taken[k])]
      BY <3>1, <3>3, LetterSought
    <3> QED BY <3>4, Zenon
  <2> QED BY <2>1, <2>2, Zenon
<1>6. CASE bad
  <2>1. Codes!Base32Decode(text) = Refused BY <1>6, Zenon DEF Codes!Base32Decode
  <2> QED BY <1>3, <1>5, <1>6, <2>1, Zenon
<1>7. CASE ~bad
  <2> DEFINE after == CHOOSE g : Decodes(g, taken, n)
  <2>1. Codes!Base32Decode(text) = after[n].out
    BY <1>7, SMT DEF Codes!Base32Decode, Decodes, taken
  <2>2. ASSUME NEW k \in 1 .. n
        PROVE  /\ value(taken[k]) \in 0 .. 31
               /\ Codes!Base32Value(taken[k]) = value(taken[k])
    <3>1. \E v \in 0 .. 31 : taken[k] \in Letters[v] BY <1>2, <1>5, <1>7, Zenon
    <3>2. value(taken[k]) \in 0 .. 31 /\ taken[k] \in Letters[value(taken[k])]
      BY <3>1, Zenon
    <3>3. taken[k] \in Nat BY <1>4
    <3> HIDE DEF value
    <3> QED BY <3>2, <3>3, LetterRead
  <2> HIDE DEF value, n
  <2>3. values \in [1 .. n -> 0 .. 31] /\ \A k \in 1 .. n : values[k] = value(taken[k])
    BY <1>2, <2>2
  <2> HIDE DEF values
  <2>4. \A k \in 1 .. n : Codes!Base32Value(taken[k]) = values[k] BY <2>2, <2>3
  <2>5. \A k \in 1 .. n : Codes!Base32Value(taken[k]) \in 0 .. 31 BY <2>2
  <2>6. Decodes(after, taken, n)
    <3>1. \E g : Decodes(g, taken, n) BY <1>2, <2>5, DecodeRuns
    <3> QED BY <3>1, Zenon
  <2> HIDE DEF after
  <2>7. after[n].out = Codes!Regrouped(values, 5, 8, (5 * n) \div 8)
    BY <1>2, <2>3, <2>4, <2>6, DecodedRow
  <2> QED BY <1>3, <1>5, <1>7, <2>1, <2>7, Zenon
<1> QED BY <1>6, <1>7

-----------------------------------------------------------------------------
(* A behaviour has one input, of the kind it says.                           *)
InputInv == input = Password \/ \E kind \in Kinds : input \in Inputs[kind]

LEMMA InputStays == FunctionsSpec => []InputInv
<1>1. FunctionsInit => InputInv BY DEF FunctionsInit, InputInv
<1>2. InputInv /\ [FunctionsNext]_<< vars, input >> => InputInv'
  BY DEF FunctionsNext, InputInv
<1> QED BY <1>1, <1>2, PTL DEF FunctionsSpec

LEMMA InputOfKind ==
  ASSUME InputInv, input.kind # "password"
  PROVE  input \in Inputs[input.kind]
<1>1. input # Password BY DEF Password
<1>2. PICK kind \in Kinds : input \in Inputs[kind] BY <1>1 DEF InputInv
<1>3. input.kind = kind BY <1>2, KindAssumption
<1> QED BY <1>2, <1>3

(* Every index is drawn by as many words as any other, and every order of     *)
(* the characters picked comes from one row of choices (randomIndex,         *)
(* generatePassword).                                                        *)
THEOREM RandomlyFair == FunctionsSpec => []RandomnessFair
<1>1. InputInv => RandomnessFair
  <2> SUFFICES ASSUME InputInv PROVE RandomnessFair OBVIOUS
  <2>1. ASSUME input.kind = "index" PROVE UniformIndex(input.of, input.bound)
    <3>1. input \in Inputs["index"] BY <2>1, InputOfKind
    <3>2. input.of \in Nat \ {0} /\ input.bound \in 1 .. input.of
      BY <3>1, RandomAssumption
    <3> QED BY <3>2, IndexUniform
  <2>2. ASSUME input.kind = "order" PROVE FairShuffle(input.of)
    <3>1. input \in Inputs["order"] BY <2>2, InputOfKind
    <3>2. input.of \in Nat \ {0} BY <3>1, RandomAssumption
    <3> QED BY <3>2, ShuffleFair
  <2> QED BY <2>1, <2>2 DEF RandomnessFair
<1> QED BY <1>1, InputStays, PTL

(* Whatever integers a prelogin answer has, the derivation gets numbers      *)
(* within the bounds, exactly as answered, or none; and whatever second      *)
(* factors a demand lists, what the page selects is one of them, and a login *)
(* that ends without tokens or page says why (parsePreloginResponse,         *)
(* parseTokenError, the bounds of kdf.cpp, TwoFactorPage).                   *)
THEOREM AnswersAlwaysRead == FunctionsSpec => []AnswersRead
<1>1. InputInv => AnswersRead
  <2> SUFFICES ASSUME InputInv PROVE AnswersRead OBVIOUS
  <2>1. ASSUME input.kind = "prelogin" PROVE Forms!DerivationBounded(input.of)
    <3>1. input \in Inputs["prelogin"] BY <2>1, InputOfKind
    <3> QED BY <3>1, DerivationIsBounded
  <2>2. ASSUME input.kind = "token" PROVE Tokens!ChallengeMet(input.status, input.of)
    <3>1. input \in Inputs["token"] BY <2>2, InputOfKind
    <3> QED BY <3>1, ChallengeIsMet
  <2> QED BY <2>1, <2>2 DEF AnswersRead
<1> QED BY <1>1, InputStays, PTL

(* Whatever bytes and texts they are given, base64, base32, the PIN file and  *)
(* the digits of a code say what their formats say (base64Encode,            *)
(* base64Decode, base32Decode, parsePinWrapped, serializePinWrapped, hotp).   *)
THEOREM EncodingsAlwaysExact == FunctionsSpec => []EncodingsExact
<1>1. InputInv => EncodingsExact
  <2> SUFFICES ASSUME InputInv PROVE EncodingsExact OBVIOUS
  <2>1. ASSUME input.kind = "bytes" PROVE Codes!Base64Writes(input.of)
    <3>1. input \in Inputs["bytes"] BY <2>1, InputOfKind
    <3>2. input.of \in Seq(0 .. 255) BY <3>1, TextAssumption
    <3> QED BY <3>2, Base64Exact
  <2>2. ASSUME input.kind = "base64" PROVE Codes!Base64Reads(input.of)
    <3>1. input \in Inputs["base64"] BY <2>2, InputOfKind
    <3>2. input.of \in Seq(Nat) BY <3>1, TextAssumption
    <3> QED BY <3>2, Base64Read
  <2>3. ASSUME input.kind = "base32" PROVE Codes!Base32Reads(input.of)
    <3>1. input \in Inputs["base32"] BY <2>3, InputOfKind
    <3>2. input.of \in Seq(Nat) BY <3>1, TextAssumption
    <3> QED BY <3>2, Base32Exact
  <2>4. ASSUME input.kind = "pinFile" PROVE Forms!PinFileRead(input.of)
    <3>1. input \in Inputs["pinFile"] BY <2>4, InputOfKind
    <3> QED BY <3>1, PinFileExact
  <2>5. ASSUME input.kind = "secret" PROVE Forms!PinFileKept(input.of)
    <3>1. input \in Inputs["secret"] BY <2>5, InputOfKind
    <3>2. input.of \in Nat BY <3>1, PinAssumption
    <3> QED BY <3>2, PinFileKeptExact
  <2>6. ASSUME input.kind = "hotp"
        PROVE  Codes!CodeIsRfc(<< 1 >>, input.of, input.at, input.algorithm)
    <3>1. input \in Inputs["hotp"] BY <2>6, InputOfKind
    <3>2. /\ input.at \in 6 .. 10
          /\ Hmac(input.algorithm, << 1 >>, input.of) \in Seq(0 .. 255)
          /\ Len(Hmac(input.algorithm, << 1 >>, input.of)) >= 20
      BY <3>1, TextAssumption
    <3> QED BY <3>2, HotpExact
  <2> QED BY <2>1, <2>2, <2>3, <2>4, <2>5, <2>6, Zenon DEF EncodingsExact
<1> QED BY <1>1, InputStays, PTL

-----------------------------------------------------------------------------
(* Codes.  The parameters of a URI leave the period a number.                *)
LEMMA PeriodIsNumber ==
  ASSUME NEW i \in Inputs.code, Codes!ParseTotpSecret(i.of) # Refused
  PROVE  Codes!ParseTotpSecret(i.of).period \in Nat \ {0}
<1> DEFINE raw == i.of
<1>1. raw.scheme \in {"steam", "plain", "otpauth"} BY CodeAssumption
<1>2. CASE raw.scheme = "steam" BY <1>2 DEF Codes!ParseTotpSecret
<1>3. CASE raw.scheme = "plain"
  <2>1. Codes!ParseTotpSecret(raw) = [Codes!DefaultSpec EXCEPT !.secret = raw.secret]
    BY <1>3 DEF Codes!ParseTotpSecret
  <2>2. Codes!ParseTotpSecret(raw).period = 30 BY <2>1 DEF Codes!DefaultSpec
  <2> QED BY <2>2
<1>4. CASE raw.scheme = "otpauth"
  <2> DEFINE query == raw.query
             n == Len(query)
             Values == {query[k].value : k \in 1 .. n} \cup {<< >>, 6, "SHA1"}
             V == [secret : Values, period : Nat, digits : Values, algorithm : Values]
             Runs(g) ==
               g = [k \in 0 .. n |->
                      IF k = 0 THEN Codes!DefaultSpec
                      ELSE Codes!WithParameter(g[k - 1], query[k])]
             step == [p \in V \X (1 .. n) |-> Codes!WithParameter(p[1], query[p[2]])]
             spec == CHOOSE g : Runs(g)
  <2>1. n \in Nat /\ \A k \in 1 .. n : query[k].key = "period" => query[k].value \in Int
    BY <1>4, CodeAssumption
  <2>2. IntSize \in Nat \ {0} BY CodeAssumption
  <2>3. Codes!DefaultSpec \in V BY DEF Codes!DefaultSpec
  <2>4. ASSUME NEW v \in V, NEW k \in 1 .. n
        PROVE  Codes!WithParameter(v, query[k]) \in V
    <3>1. query[k].value \in Values OBVIOUS
    <3>2. query[k].key = "period" => Codes!Unsigned(query[k].value) \in Nat
      BY <2>1, <2>2 DEF Codes!Unsigned
    <3> DEFINE p == query[k]
    <3> HIDE DEF Values, p
    <3>3. CASE p.key = "secret"
      <4>1. Codes!WithParameter(v, p) = [v EXCEPT !.secret = p.value]
        BY <3>3 DEF Codes!WithParameter
      <4> QED BY <3>1, <4>1 DEF p
    <3>4. CASE p.key = "period"
      <4>1. Codes!WithParameter(v, p) = [v EXCEPT !.period = Codes!Unsigned(p.value)]
        BY <3>4 DEF Codes!WithParameter
      <4> QED BY <3>2, <3>4, <4>1 DEF p
    <3>5. CASE p.key = "digits"
      <4>1. Codes!WithParameter(v, p) = [v EXCEPT !.digits = p.value]
        BY <3>5 DEF Codes!WithParameter
      <4> QED BY <3>1, <4>1 DEF p
    <3>6. CASE p.key = "algorithm"
      <4>1. Codes!WithParameter(v, p) = [v EXCEPT !.algorithm = p.value]
        BY <3>6 DEF Codes!WithParameter
      <4> QED BY <3>1, <4>1 DEF p
    <3>7. CASE p.key \notin {"secret", "period", "digits", "algorithm"}
      <4>1. Codes!WithParameter(v, p) = v BY <3>7 DEF Codes!WithParameter
      <4> QED BY <4>1 DEF p
    <3> QED BY <3>3, <3>4, <3>5, <3>6, <3>7 DEF p
  <2> HIDE DEF V
  <2>5. step \in [V \X (1 .. n) -> V] BY <2>4
  <2>6. \A v \in V, k \in 1 .. n :
          step[<< v, k >>] = Codes!WithParameter(v, query[k])
    OBVIOUS
  <2> HIDE DEF step
  <2>7. PICK f \in [0 .. n -> V] :
          /\ f[0] = Codes!DefaultSpec
          /\ \A k \in 1 .. n : f[k] = step[<< f[k - 1], k >>]
    <3>1. Loop(n, V, Codes!DefaultSpec, step) BY <2>1, <2>3, <2>5, LoopRuns
    <3> QED BY <3>1 DEF Loop
  <2>8. Runs(f)
    <3>1. \A k \in 0 .. n :
            f[k] = IF k = 0 THEN Codes!DefaultSpec
                   ELSE Codes!WithParameter(f[k - 1], query[k])
      <4> TAKE k \in 0 .. n
      <4>1. CASE k = 0 BY <2>7, <4>1
      <4>2. CASE k # 0
        <5>1. k \in 1 .. n /\ k - 1 \in 0 .. n BY <2>1, <4>2
        <5>2. f[k - 1] \in V BY <5>1
        <5> QED BY <2>6, <2>7, <4>2, <5>1, <5>2
      <4> QED BY <4>1, <4>2
    <3> QED BY <3>1
  <2>9. Runs(spec) BY <2>8
  <2>10. Codes!ParseTotpSecret(raw) = spec[n] /\ Codes!ValidSpec(spec[n])
    <3>1. Codes!ParseTotpSecret(raw)
            = IF (\E k \in DOMAIN raw.query : Codes!Unknown(raw.query[k]))
                 \/ ~Codes!ValidSpec(spec[n])
              THEN Refused ELSE spec[n]
      BY <1>4 DEF Codes!ParseTotpSecret
    <3> HIDE DEF spec
    <3> QED BY <3>1
  <2> HIDE DEF spec
  <2>11. spec[n] \in V
    <3> DEFINE P == {k \in 0 .. n : spec[k] \in V}
    <3>1. 0 \in P
      <4>1. spec[0] = Codes!DefaultSpec BY <2>1, <2>9
      <4> QED BY <2>1, <2>3, <4>1
    <3>2. \A k \in 0 .. n - 1 : k \in P => k + 1 \in P
      <4> SUFFICES ASSUME NEW k \in 0 .. n - 1, spec[k] \in V
                   PROVE  k + 1 \in 0 .. n /\ spec[k + 1] \in V
        OBVIOUS
      <4>1. k + 1 \in 1 .. n /\ k + 1 \in 0 .. n /\ k + 1 # 0 /\ (k + 1) - 1 = k
        BY <2>1
      <4>2. spec[k + 1] = Codes!WithParameter(spec[k], query[k + 1])
        BY <2>9, <4>1
      <4> QED BY <2>4, <4>1, <4>2
    <3> HIDE DEF P
    <3>3. \A k \in 0 .. n : k \in P BY <2>1, <3>1, <3>2, CountingTo
    <3>4. n \in P BY <2>1, <3>3
    <3> QED BY <3>4 DEF P
  <2>12. spec[n].period # 0 BY <2>10 DEF Codes!ValidSpec
  <2>13. spec[n].period \in Nat BY <2>11 DEF V
  <2> QED BY <2>10, <2>12, <2>13
<1> QED BY <1>1, <1>2, <1>3, <1>4

(* The second after, in a period: the next of it, or the first of the next.   *)
LEMMA NextSecond ==
  ASSUME NEW t \in Nat, NEW p \in Nat \ {0}
  PROVE  /\ t % p \in 0 .. p - 1 /\ t \div p \in Nat
         /\ t % p = p - 1 => (t + 1) % p = 0 /\ (t + 1) \div p = (t \div p) + 1
         /\ t % p # p - 1 => (t + 1) % p = (t % p) + 1 /\ (t + 1) \div p = t \div p
<1> DEFINE q == t \div p
           r == t % p
<1>1. t = p * q + r /\ r \in 0 .. p - 1 /\ q \in Nat BY Division
<1>2. \A k \in Nat, s \in 0 .. p - 1 : (p * k + s) % p = s /\ (p * k + s) \div p = k
  OBVIOUS
<1> HIDE DEF q, r
<1>3. CASE r = p - 1
  <2>1. p * (q + 1) = p * q + p BY <1>1
  <2>2. p * q \in Nat BY <1>1
  <2>3. t + 1 = p * (q + 1) + 0 BY <1>1, <1>3, <2>1, <2>2
  <2>4. q + 1 \in Nat /\ 0 \in 0 .. p - 1 BY <1>1
  <2>5. (t + 1) % p = 0 /\ (t + 1) \div p = q + 1 BY <1>2, <2>3, <2>4
  <2> QED BY <1>1, <1>3, <2>5 DEF q, r
<1>4. CASE r # p - 1
  <2>1. r + 1 \in 0 .. p - 1 /\ p * q \in Nat BY <1>1, <1>4
  <2>2. t + 1 = p * q + (r + 1) BY <1>1, <2>1
  <2>3. (t + 1) % p = r + 1 /\ (t + 1) \div p = q BY <1>1, <1>2, <2>1, <2>2
  <2> QED BY <1>1, <1>4, <2>3 DEF q, r
<1> QED BY <1>3, <1>4

(* The casts of the countdown change nothing in a period an int holds.       *)
LEMMA SecondsAreLeft ==
  ASSUME NEW t \in Nat, NEW p \in Nat \ {0}, 2 * p < IntSize
  PROVE  Codes!SecondsRemaining(t, p) = p - (t % p)
<1> DEFINE s == p - (t % p)
<1>1. t % p \in 0 .. p - 1 BY NextSecond
<1>2. IntSize \in Nat \ {0} BY CodeAssumption
<1>3. s \in 1 .. p BY <1>1
<1> HIDE DEF s
<1>4. s % IntSize = s /\ ~(2 * s >= IntSize) BY <1>2, <1>3
<1>5. Codes!Signed(Codes!Unsigned(s)) = s
  BY <1>4 DEF Codes!Signed, Codes!Unsigned
<1> QED BY <1>5 DEF Codes!SecondsRemaining, s

LEMMA CodeCountsDown ==
  ASSUME NEW i \in Inputs.code
  PROVE  Codes!Countdown(i.of, i.at)
<1> DEFINE raw  == i.of
           t    == i.at
           spec == Codes!ParseTotpSecret(raw)
           p    == spec.period
           key  == Codes!Base32Decode(spec.secret)
           now  == Codes!TotpCode(raw, t)
           next == Codes!TotpCode(raw, t + 1)
           code(q) == Codes!Hotp(key, q, spec.digits, spec.algorithm)
<1> SUFFICES ASSUME spec # Refused, 2 * p < IntSize, now # Refused
             PROVE  /\ now.seconds \in 1 .. p
                    /\ IF now.seconds = 1
                       THEN next.seconds = p /\ next.code = code((t \div p) + 1)
                       ELSE next.seconds = now.seconds - 1 /\ next.code = now.code
  BY DEF Codes!Countdown
<1>1. t \in Nat /\ t + 1 \in Nat BY CodeAssumption
<1>2. p \in Nat \ {0} BY PeriodIsNumber
<1>3. ~(key = Refused \/ Codes!TotpThrows(key, spec)) BY DEF Codes!TotpCode
<1>4. now = [code |-> code(t \div p), seconds |-> Codes!SecondsRemaining(t, p)]
  BY <1>3 DEF Codes!TotpCode, Codes!Totp
<1>5. next = [code |-> code((t + 1) \div p),
              seconds |-> Codes!SecondsRemaining(t + 1, p)]
  BY <1>3 DEF Codes!TotpCode, Codes!Totp
<1> HIDE DEF now, next, code, p
<1>6. now.code = code(t \div p) /\ now.seconds = p - (t % p)
  BY <1>1, <1>2, <1>4, SecondsAreLeft
<1>7. next.code = code((t + 1) \div p) /\ next.seconds = p - ((t + 1) % p)
  BY <1>1, <1>2, <1>5, SecondsAreLeft
<1>8. /\ t % p \in 0 .. p - 1
      /\ t % p = p - 1 => (t + 1) % p = 0 /\ (t + 1) \div p = (t \div p) + 1
      /\ t % p # p - 1 => (t + 1) % p = (t % p) + 1 /\ (t + 1) \div p = t \div p
  BY <1>1, <1>2, NextSecond
<1>9. now.seconds \in 1 .. p BY <1>2, <1>6, <1>8
<1>10. CASE now.seconds = 1
  <2>1. t % p = p - 1 BY <1>2, <1>6, <1>8, <1>10
  <2>2. next.seconds = p BY <1>2, <1>7, <1>8, <2>1
  <2>3. next.code = code((t \div p) + 1) BY <1>7, <1>8, <2>1
  <2> QED BY <1>9, <1>10, <2>2, <2>3
<1>11. CASE now.seconds # 1
  <2>1. t % p # p - 1 BY <1>2, <1>6, <1>8, <1>11
  <2>2. next.seconds = now.seconds - 1 BY <1>2, <1>6, <1>7, <1>8, <2>1
  <2>3. next.code = now.code BY <1>6, <1>7, <1>8, <2>1
  <2> QED BY <1>9, <1>11, <2>2, <2>3
<1> QED BY <1>10, <1>11

(* For every secret and every second, in periods an int holds, the seconds    *)
(* left fall by one while the code stays, and start again at the period with *)
(* the next code (parseTotpSecret, secondsRemaining, totp).                  *)
THEOREM CodesAlwaysCountDown == FunctionsSpec => []CodesCountDown
<1>1. InputInv => CodesCountDown
  <2> SUFFICES ASSUME InputInv, input.kind = "code"
               PROVE  Codes!Countdown(input.of, input.at)
    BY DEF CodesCountDown
  <2>1. input \in Inputs["code"] BY InputOfKind
  <2> QED BY <2>1, CodeCountsDown
<1> QED BY <1>1, InputStays, PTL

-----------------------------------------------------------------------------
(* Bodies.  Null stands for values that are neither objects nor texts.       *)
NullIsNoObject == \A D, f : Null # [k \in D |-> f[k]]

LEMMA OverReads ==
  ASSUME NEW f, NEW g
  PROVE  /\ DOMAIN Bodies!Over(f, g) = DOMAIN f \cup DOMAIN g
         /\ \A k \in DOMAIN f : Bodies!Over(f, g)[k] = f[k]
         /\ \A k \in DOMAIN g \ DOMAIN f : Bodies!Over(f, g)[k] = g[k]
BY DEF Bodies!Over

LEMMA WithoutReads ==
  ASSUME NEW f, NEW keys
  PROVE  /\ DOMAIN Bodies!Without(f, keys) = DOMAIN f \ keys
         /\ \A k \in DOMAIN f \ keys : Bodies!Without(f, keys)[k] = f[k]
BY DEF Bodies!Without

(* A field that was encrypted under the key of an item is read from it.      *)
LEMMA FieldReadsBack ==
  ASSUME NullIsNoObject, NEW c, NEW text, NEW key,
         Bodies!CipherKey(c) = key, key # Refused
  PROVE  /\ Bodies!EncryptField(text, key) # Null
         /\ Bodies!Read(c, Bodies!EncryptField(text, key)) = text
         /\ Bodies!Read(c, Bodies!EncOrNull(text, key)) = text
<1> DEFINE enc == Bodies!EncryptField(text, key)
<1>1. enc # Null BY DEF NullIsNoObject, Bodies!EncryptField
<1>2. enc.opensWith = key /\ enc.text = text BY DEF Bodies!EncryptField
<1> HIDE DEF enc
<1>3. Bodies!Read(c, enc) = text BY <1>1, <1>2 DEF Bodies!Read
<1>4. Bodies!EncOrNull(text, key) = enc \/
      (text = Bodies!Empty /\ Bodies!EncOrNull(text, key) = Null)
  BY DEF enc, Bodies!EncOrNull
<1>5. Bodies!Read(c, Null) = Bodies!Empty BY DEF Bodies!Read
<1> QED BY <1>1, <1>3, <1>4, <1>5 DEF enc

LEMMA EditedReads ==
  ASSUME NEW fields, NEW key
  PROVE  LET e == Bodies!Edited(fields, key) IN
         /\ DOMAIN e = {"name", "notes", "favorite", "folderId"}
         /\ e["name"] = Bodies!EncryptField(fields.name, key)
         /\ e["notes"] = Bodies!EncOrNull(fields.notes, key)
         /\ e["favorite"] = fields.favorite
         /\ e["folderId"] = IF fields.folderId = Bodies!Empty THEN Null
                            ELSE fields.folderId
BY DEF Bodies!Edited

(* The URIs of a login, none if it has none.                                 *)
UrisOf(login) ==
  IF Bodies!ValueOf(login, "uris") = Null THEN << >>
  ELSE Bodies!ValueOf(login, "uris")

LEMMA SequencesOfValues ==
  ASSUME NEW s, IsSequence(s)
  PROVE  s \in Seq({s[k] : k \in 1 .. Len(s)})
BY DEF IsSequence

(* The first URI replaced, or put where there was none; the others stay.     *)
LEMMA FirstReplaced ==
  ASSUME NEW S, NEW u \in Seq(S), NEW e, NEW T, T = S \cup {e}
  PROVE  LET w == << e >> \o SubSeq(u, 2, Len(u)) IN
         /\ w \in Seq(T) /\ Len(w) >= 1 /\ w[1] = e
         /\ SubSeq(w, 2, Len(w)) = SubSeq(u, 2, Len(u))
<1> DEFINE rest == SubSeq(u, 2, Len(u))
           w == << e >> \o rest
<1>1. u \in Seq(T) /\ Len(u) \in Nat /\ << e >> \in Seq(T) OBVIOUS
<1>2. CASE Len(u) = 0
  <2>1. rest = << >> BY <1>1, <1>2
  <2>2. SubSeq(u, 2, Len(u)) = << >> BY <1>1, <1>2
  <2>3. w = << e >>
    <3> HIDE DEF rest
    <3> QED BY <1>1, <2>1, ConcatEmptySeq
  <2>4. w \in Seq(T) /\ Len(w) = 1 /\ w[1] = e BY <1>1, <2>3
  <2> HIDE DEF w
  <2>5. SubSeq(w, 2, Len(w)) = << >> BY <2>4
  <2> QED BY <2>2, <2>4, <2>5 DEF w
<1>3. CASE Len(u) # 0
  <2>1. /\ rest \in Seq(T) /\ Len(rest) = Len(u) - 1
        /\ \A k \in 1 .. Len(u) - 1 : rest[k] = u[k + 1]
    <3>1. 2 \in 1 .. Len(u) + 1 /\ Len(u) \in 2 - 1 .. Len(u) BY <1>1, <1>3
    <3>2. Len(u) - 2 + 1 = Len(u) - 1 /\ \A k \in 1 .. Len(u) - 1 : 2 + k - 1 = k + 1
      BY <1>1
    <3> QED BY <1>1, <3>1, <3>2, SubSeqProperties
  <2> HIDE DEF rest
  <2>2. /\ w \in Seq(T) /\ Len(w) = Len(u) /\ w[1] = e
        /\ \A k \in 1 .. Len(rest) : w[k + 1] = rest[k]
    BY <1>1, <1>3, <2>1
  <2> HIDE DEF w
  <2>3. /\ SubSeq(w, 2, Len(w)) \in Seq(T) /\ Len(SubSeq(w, 2, Len(w))) = Len(u) - 1
        /\ \A k \in 1 .. Len(u) - 1 : SubSeq(w, 2, Len(w))[k] = w[k + 1]
    BY <1>1, <1>3, <2>2
  <2>4. \A k \in 1 .. Len(u) - 1 : SubSeq(w, 2, Len(w))[k] = rest[k]
    BY <2>1, <2>2, <2>3
  <2>5. SubSeq(w, 2, Len(w)) = rest BY <2>1, <2>3, <2>4, SeqEqual
  <2>6. Len(w) >= 1 BY <1>1, <1>3, <2>2
  <2> QED BY <2>2, <2>5, <2>6 DEF w, rest
<1> QED BY <1>1, <1>2, <1>3

LEMMA FirstUriReads ==
  ASSUME NEW uris, NEW uri, NEW key
  PROVE  Bodies!ValueOf(Bodies!FirstUri(uris, uri, key), "uri")
           = Bodies!EncryptField(uri, key)
<1> DEFINE new == [uri |-> Bodies!EncryptField(uri, key)]
           old == Bodies!Over(IF uris = << >> THEN << >> ELSE uris[1], [match |-> Null])
<1>1. "uri" \in DOMAIN new /\ new["uri"] = Bodies!EncryptField(uri, key) OBVIOUS
<1>2. Bodies!FirstUri(uris, uri, key) = Bodies!Over(new, old) BY DEF Bodies!FirstUri
<1> HIDE DEF new, old
<1>3. "uri" \in DOMAIN Bodies!Over(new, old)
      /\ Bodies!Over(new, old)["uri"] = Bodies!EncryptField(uri, key)
  BY <1>1, OverReads
<1> QED BY <1>2, <1>3 DEF Bodies!ValueOf

(* What the fields make of the login that was there.                         *)
Typed == {"username", "password", "totp"}
LoginMade(after, built, fields, existing, key) ==
  /\ after = [k \in DOMAIN after |-> after[k]]
  /\ DOMAIN after = DOMAIN built \cup Typed \cup DOMAIN existing
  /\ \A k \in DOMAIN built : after[k] = built[k]
  /\ \A k \in Typed \ DOMAIN built : after[k] = Bodies!EncOrNull(fields[k], key)
  /\ \A k \in DOMAIN existing \ (DOMAIN built \cup Typed) : after[k] = existing[k]

LEMMA LoginReads ==
  ASSUME NEW fields, NEW existing, NEW key
  PROVE  LoginMade(Bodies!BuildLoginObject(fields, existing, key),
                   Bodies!BuildUris(existing, fields.uri, key), fields, existing, key)
<1> DEFINE built == Bodies!BuildUris(existing, fields.uri, key)
           typed == Typed
           creds == [k \in typed |-> Bodies!EncOrNull(fields[k], key)]
           inner == Bodies!Over(creds, existing)
           after == Bodies!BuildLoginObject(fields, existing, key)
<1>1. after = Bodies!Over(built, inner) BY DEF Bodies!BuildLoginObject, Typed
<1>2. DOMAIN creds = typed /\ \A k \in typed : creds[k] = Bodies!EncOrNull(fields[k], key)
  OBVIOUS
<1> HIDE DEF creds, built, typed
<1>3. /\ DOMAIN inner = typed \cup DOMAIN existing
      /\ \A k \in typed : inner[k] = creds[k]
      /\ \A k \in DOMAIN existing \ typed : inner[k] = existing[k]
  BY <1>2, OverReads
<1> HIDE DEF inner
<1>4. /\ DOMAIN after = DOMAIN built \cup DOMAIN inner
      /\ \A k \in DOMAIN built : after[k] = built[k]
      /\ \A k \in DOMAIN inner \ DOMAIN built : after[k] = inner[k]
  <2>1. /\ DOMAIN Bodies!Over(built, inner) = DOMAIN built \cup DOMAIN inner
        /\ \A k \in DOMAIN built : Bodies!Over(built, inner)[k] = built[k]
        /\ \A k \in DOMAIN inner \ DOMAIN built : Bodies!Over(built, inner)[k] = inner[k]
    BY OverReads
  <2> QED BY <1>1, <2>1
<1> HIDE DEF after
<1>5. \A k \in typed \ DOMAIN built : after[k] = Bodies!EncOrNull(fields[k], key)
  BY <1>2, <1>3, <1>4
<1>6. \A k \in DOMAIN existing \ (DOMAIN built \cup typed) : after[k] = existing[k]
  BY <1>3, <1>4
<1>7. after = [k \in DOMAIN after |-> after[k]] BY <1>1 DEF Bodies!Over
<1> QED BY <1>3, <1>4, <1>5, <1>6, <1>7 DEF built, typed, after, LoginMade

LEMMA UrisBuilt ==
  ASSUME NEW existing, NEW uri, NEW key, IsSequence(UrisOf(existing))
  PROVE  LET u == UrisOf(existing)
             built == Bodies!BuildUris(existing, uri, key)
             first == Bodies!FirstUri(u, uri, key)
         IN /\ uri # Bodies!Empty =>
                 DOMAIN built = {"uris"} /\ built["uris"] = << first >> \o SubSeq(u, 2, Len(u))
            /\ uri = Bodies!Empty /\ Len(u) <= 1 =>
                 DOMAIN built = {"uris"} /\ built["uris"] = Null
            /\ uri = Bodies!Empty /\ Len(u) > 1 => DOMAIN built = {}
<1> DEFINE u == UrisOf(existing)
<1>1. Len(u) \in Nat BY DEF IsSequence
<1>2. Bodies!BuildUris(existing, uri, key)
        = CASE uri # Bodies!Empty ->
                 [uris |-> << Bodies!FirstUri(u, uri, key) >> \o SubSeq(u, 2, Len(u))]
            [] uri = Bodies!Empty /\ Len(u) <= 1 -> [uris |-> Null]
            [] OTHER -> << >>
  BY DEF Bodies!BuildUris, UrisOf
<1> HIDE DEF u
<1>3. CASE uri # Bodies!Empty BY <1>2, <1>3 DEF u
<1>4. CASE uri = Bodies!Empty /\ Len(u) <= 1 BY <1>2, <1>4 DEF u
<1>5. CASE uri = Bodies!Empty /\ Len(u) > 1
  <2>1. ~(Len(u) <= 1) BY <1>1, <1>5
  <2>2. Bodies!BuildUris(existing, uri, key) = << >> BY <1>2, <1>5, <2>1
  <2> QED BY <1>5, <2>1, <2>2 DEF u
<1> QED BY <1>1, <1>3, <1>4, <1>5 DEF u

LEMMA BuiltIsUris ==
  ASSUME NEW existing, NEW uri, NEW key, IsSequence(UrisOf(existing))
  PROVE  DOMAIN Bodies!BuildUris(existing, uri, key) \subseteq {"uris"}
<1>1. Len(UrisOf(existing)) \in Nat BY DEF IsSequence
<1> DEFINE built == Bodies!BuildUris(existing, uri, key)
<1>2. CASE uri # Bodies!Empty
  <2>1. DOMAIN built = {"uris"} BY <1>2, UrisBuilt
  <2> QED BY <2>1
<1>3. CASE uri = Bodies!Empty /\ Len(UrisOf(existing)) <= 1
  <2>1. DOMAIN built = {"uris"} BY <1>3, UrisBuilt
  <2> QED BY <2>1
<1>4. CASE uri = Bodies!Empty /\ Len(UrisOf(existing)) > 1
  <2>1. DOMAIN built = {} BY <1>4, UrisBuilt
  <2> QED BY <2>1
<1> QED BY <1>1, <1>2, <1>3, <1>4

LEMMA SequencesAreObjects ==
  ASSUME NullIsNoObject, NEW S, NEW s \in Seq(S)
  PROVE  s # Null
<1>1. s = [k \in 1 .. Len(s) |-> s[k]] OBVIOUS
<1> QED BY <1>1 DEF NullIsNoObject

(* The login of an item that was saved, as the next sync reads it.           *)
LEMMA LoginReadsBack ==
  ASSUME NullIsNoObject, NEW fields, NEW existing, NEW key, NEW c, NEW obj,
         IsSequence(UrisOf(existing)),
         Bodies!CipherKey(c) = key, key # Refused,
         Bodies!ValueOf(obj, "type") = Bodies!Login,
         Bodies!ValueOf(obj, "login") = Bodies!BuildLoginObject(fields, existing, key)
  PROVE  LET r == Bodies!ReadLogin(obj) IN
         /\ \A k \in Typed : Bodies!Read(c, r[k]) = fields[k]
         /\ fields.uri # Bodies!Empty =>
              r.uris # << >> /\ Bodies!Read(c, r.uris[1]) = fields.uri
<1> DEFINE after == Bodies!BuildLoginObject(fields, existing, key)
           built == Bodies!BuildUris(existing, fields.uri, key)
           typed == Typed
           r == Bodies!ReadLogin(obj)
<1>1. /\ after = [k \in DOMAIN after |-> after[k]]
      /\ DOMAIN after = DOMAIN built \cup typed \cup DOMAIN existing
      /\ \A k \in DOMAIN built : after[k] = built[k]
      /\ \A k \in typed \ DOMAIN built : after[k] = Bodies!EncOrNull(fields[k], key)
  <2>1. LoginMade(after, built, fields, existing, key) BY LoginReads
  <2> HIDE DEF after, built
  <2> QED BY <2>1 DEF LoginMade
<1>2. DOMAIN built \subseteq {"uris"} BY BuiltIsUris
<1> HIDE DEF after, built
<1>3. after # Null BY <1>1 DEF NullIsNoObject
<1>4. \A k \in typed : Bodies!ValueOf(after, k) = Bodies!EncOrNull(fields[k], key)
  <2> TAKE k \in typed
  <2>1. k \in DOMAIN after /\ after[k] = Bodies!EncOrNull(fields[k], key)
    BY <1>1, <1>2 DEF Typed
  <2> QED BY <2>1 DEF Bodies!ValueOf
<1>5. r = [username |-> Bodies!ValueOf(after, "username"),
           password |-> Bodies!ValueOf(after, "password"),
           totp |-> Bodies!ValueOf(after, "totp"), uris |-> Bodies!ReadUris(after)]
  BY <1>3 DEF Bodies!ReadLogin, after
<1> HIDE DEF r
<1>6. \A k \in typed : r[k] = Bodies!EncOrNull(fields[k], key)
  BY <1>4, <1>5 DEF Typed
<1>7. \A k \in typed : Bodies!Read(c, r[k]) = fields[k]
  <2> TAKE k \in typed
  <2>1. Bodies!Read(c, Bodies!EncOrNull(fields[k], key)) = fields[k] BY FieldReadsBack
  <2> QED BY <1>6, <2>1
<1>8. ASSUME fields.uri # Bodies!Empty
      PROVE  r.uris # << >> /\ Bodies!Read(c, r.uris[1]) = fields.uri
  <2> DEFINE u == UrisOf(existing)
             first == Bodies!FirstUri(u, fields.uri, key)
             w == << first >> \o SubSeq(u, 2, Len(u))
             S == {u[k] : k \in 1 .. Len(u)}
             T == S \cup {first}
             read == [k \in DOMAIN w |-> Bodies!ValueOf(w[k], "uri")]
             R == {read[k] : k \in DOMAIN read}
             enc == Bodies!EncryptField(fields.uri, key)
  <2>1. u \in Seq(S) BY SequencesOfValues
  <2>2. DOMAIN built = {"uris"} /\ built["uris"] = w BY <1>8, UrisBuilt DEF built
  <2>3. Bodies!ValueOf(first, "uri") = enc BY FirstUriReads
  <2>4. Bodies!Read(c, enc) = fields.uri /\ enc # Null BY FieldReadsBack
  <2> HIDE DEF u, first, enc
  <2>5. w \in Seq(T) /\ Len(w) >= 1 /\ w[1] = first BY <2>1, FirstReplaced
  <2> HIDE DEF w
  <2>6. Bodies!ValueOf(after, "uris") = w BY <1>1, <2>2 DEF Bodies!ValueOf
  <2>7. w # Null BY <2>5, SequencesAreObjects
  <2>8. Bodies!ReadUris(after) = Bodies!Filtered(read, R \ {Null})
    BY <2>6, <2>7 DEF Bodies!ReadUris
  <2>9. Bodies!Filtered(read, R \ {Null}) = Filtered(read, R \ {Null})
    BY DEF Filtered, Bodies!Filtered
  <2>10. Len(w) \in Nat /\ DOMAIN w = 1 .. Len(w) /\ 1 \in DOMAIN w BY <2>5
  <2>11. read \in Seq(R) /\ read # << >> /\ read[1] \in R
    <3>1. read \in [1 .. Len(w) -> R] BY <2>10
    <3>2. Len(read) = Len(w) /\ DOMAIN read = 1 .. Len(w) BY <2>10
    <3> HIDE DEF read, R
    <3>3. read \in Seq(R) BY <2>10, <3>1
    <3> QED BY <2>10, <3>1, <3>2, <3>3
  <2>12. read[1] = enc BY <2>3, <2>5, <2>10
  <2> HIDE DEF read, R
  <2>13. Keeps(Filtered(read, R \ {Null}), read, R \ {Null}) BY <2>11, FilteredKeeps
  <2>14. read[1] \in R \ {Null} BY <2>4, <2>11, <2>12
  <2>15. Filtered(read, R \ {Null}) # << >> /\ Filtered(read, R \ {Null})[1] = enc
    BY <2>11, <2>12, <2>13, <2>14 DEF Keeps
  <2>16. r.uris = Filtered(read, R \ {Null}) BY <1>5, <2>8, <2>9
  <2> QED BY <2>4, <2>15, <2>16
<1> QED BY <1>7, <1>8 DEF r

LEMMA CipherReads ==
  ASSUME NEW obj
  PROVE  LET c == Bodies!ParseCipher(obj) IN
         /\ c.id = Bodies!ValueOf(obj, "id") /\ c.type = Bodies!ValueOf(obj, "type")
         /\ c.raw = obj /\ c.folderId = Bodies!IdOf(obj, "folderId")
         /\ c.organizationId = Bodies!IdOf(obj, "organizationId")
         /\ c.favorite = (Bodies!ValueOf(obj, "favorite") = TRUE)
         /\ c.revisionDate = Bodies!IdOf(obj, "revisionDate")
         /\ c.key = Bodies!ValueOf(obj, "key") /\ c.name = Bodies!ValueOf(obj, "name")
         /\ c.notes = Bodies!ValueOf(obj, "notes") /\ c.login = Bodies!ReadLogin(obj)
BY DEF Bodies!ParseCipher

LEMMA SameKey ==
  ASSUME NEW a, NEW b, a.organizationId = b.organizationId, a.key = b.key
  PROVE  Bodies!CipherKey(a) = Bodies!CipherKey(b)
BY DEF Bodies!CipherKey

(* An item that holds the fields under its own key is read back as typed.    *)
EditedKeys == {"name", "notes", "favorite", "folderId"}
LEMMA HeldIsReadBack ==
  ASSUME NullIsNoObject, NEW obj, NEW fields, NEW key, NEW existing,
         Bodies!IdOf(obj, "id") # Bodies!Empty, Bodies!ValueOf(obj, "type") \in 1 .. 4,
         Bodies!CipherKey(Bodies!ParseCipher(obj)) = key, key # Refused,
         fields.favorite \in BOOLEAN, fields.folderId # Null,
         \A k \in EditedKeys : Bodies!ValueOf(obj, k) = Bodies!Edited(fields, key)[k],
         Bodies!ValueOf(obj, "type") = Bodies!Login =>
           /\ IsSequence(UrisOf(existing))
           /\ Bodies!ValueOf(obj, "login") = Bodies!BuildLoginObject(fields, existing, key)
  PROVE  Bodies!ReadsBack(obj, fields)
<1> DEFINE c == Bodies!ParseCipher(obj)
           e == Bodies!Edited(fields, key)
<1>1. /\ c.type = Bodies!ValueOf(obj, "type") /\ c.folderId = Bodies!IdOf(obj, "folderId")
      /\ c.favorite = (Bodies!ValueOf(obj, "favorite") = TRUE)
      /\ c.name = Bodies!ValueOf(obj, "name") /\ c.notes = Bodies!ValueOf(obj, "notes")
      /\ c.login = Bodies!ReadLogin(obj)
  BY CipherReads
<1>2. /\ e["name"] = Bodies!EncryptField(fields.name, key)
      /\ e["notes"] = Bodies!EncOrNull(fields.notes, key)
      /\ e["favorite"] = fields.favorite
      /\ e["folderId"] = IF fields.folderId = Bodies!Empty THEN Null ELSE fields.folderId
  BY EditedReads
<1>3. Bodies!CipherKey(c) = key OBVIOUS
<1> HIDE DEF c, e
<1>4. /\ Bodies!ValueOf(obj, "name") = e["name"]
      /\ Bodies!ValueOf(obj, "notes") = e["notes"]
      /\ Bodies!ValueOf(obj, "favorite") = e["favorite"]
      /\ Bodies!ValueOf(obj, "folderId") = e["folderId"]
  BY DEF e, EditedKeys
<1>5. Bodies!EncryptField(fields.name, key) # Null
      /\ Bodies!Read(c, Bodies!EncryptField(fields.name, key)) = fields.name
  BY <1>3, FieldReadsBack
<1>6. Bodies!Read(c, Bodies!EncOrNull(fields.notes, key)) = fields.notes
  BY <1>3, FieldReadsBack
<1>7. Bodies!Parses(obj) BY <1>2, <1>4, <1>5 DEF Bodies!Parses
<1>8. Bodies!Read(c, c.name) = fields.name /\ Bodies!Read(c, c.notes) = fields.notes
  BY <1>1, <1>2, <1>4, <1>5, <1>6
<1>9. c.favorite = fields.favorite BY <1>1, <1>2, <1>4
<1>10. c.folderId = fields.folderId BY <1>1, <1>2, <1>4 DEF Bodies!IdOf
<1>11. ASSUME c.type = Bodies!Login
       PROVE  /\ \A k \in Typed : Bodies!Read(c, c.login[k]) = fields[k]
              /\ fields.uri # Bodies!Empty =>
                   c.login.uris # << >> /\ Bodies!Read(c, c.login.uris[1]) = fields.uri
  BY <1>1, <1>3, <1>11, LoginReadsBack
<1> QED BY <1>7, <1>8, <1>9, <1>10, <1>11 DEF Bodies!ReadsBack, c, Typed

LEMMA PascalOf ==
  /\ Bodies!Pascal["id"] = "Id" /\ Bodies!Pascal["type"] = "Type"
  /\ Bodies!Pascal["name"] = "Name" /\ Bodies!Pascal["notes"] = "Notes"
  /\ Bodies!Pascal["favorite"] = "Favorite" /\ Bodies!Pascal["folderId"] = "FolderId"
  /\ Bodies!Pascal["key"] = "Key" /\ Bodies!Pascal["organizationId"] = "OrganizationId"
  /\ Bodies!Pascal["revisionDate"] = "RevisionDate" /\ Bodies!Pascal["login"] = "Login"
  /\ Bodies!Pascal["username"] = "Username" /\ Bodies!Pascal["password"] = "Password"
  /\ Bodies!Pascal["totp"] = "Totp" /\ Bodies!Pascal["uris"] = "Uris"
BY DEF Bodies!Pascal

LEMMA ListedReads ==
  ASSUME NEW body, NEW id, NEW revision
  PROVE  LET listed == Bodies!Listed(body, id, revision) IN
         /\ Bodies!ValueOf(listed, "id") = id
         /\ \A k \in EditedKeys \cup {"type", "organizationId", "key", "login"} :
              Bodies!ValueOf(listed, k) = Bodies!ValueOf(body, k)
<1> DEFINE new == [id |-> id, revisionDate |-> revision, object |-> "cipher"]
           rest == Bodies!Without(body, {"lastKnownRevisionDate"})
           listed == Bodies!Listed(body, id, revision)
<1>1. DOMAIN new = {"id", "revisionDate", "object"} /\ new["id"] = id OBVIOUS
<1>2. listed = Bodies!Over(new, rest) BY DEF Bodies!Listed
<1>3. /\ DOMAIN rest = DOMAIN body \ {"lastKnownRevisionDate"}
      /\ \A k \in DOMAIN body \ {"lastKnownRevisionDate"} : rest[k] = body[k]
  BY WithoutReads
<1> HIDE DEF new, rest, listed
<1>4. /\ DOMAIN listed = DOMAIN new \cup DOMAIN rest
      /\ \A k \in DOMAIN new : listed[k] = new[k]
      /\ \A k \in DOMAIN rest \ DOMAIN new : listed[k] = rest[k]
  <2>1. /\ DOMAIN Bodies!Over(new, rest) = DOMAIN new \cup DOMAIN rest
        /\ \A k \in DOMAIN new : Bodies!Over(new, rest)[k] = new[k]
        /\ \A k \in DOMAIN rest \ DOMAIN new : Bodies!Over(new, rest)[k] = rest[k]
    BY OverReads
  <2> QED BY <1>2, <2>1
<1>5. \A k : k \notin {"id", "revisionDate", "object", "lastKnownRevisionDate"} =>
        /\ k \in DOMAIN listed <=> k \in DOMAIN body
        /\ k \in DOMAIN body => listed[k] = body[k]
  BY <1>1, <1>3, <1>4
<1>6. Bodies!ValueOf(listed, "id") = id BY <1>1, <1>4 DEF Bodies!ValueOf
<1>7. ASSUME NEW k \in EditedKeys \cup {"type", "organizationId", "key", "login"}
      PROVE  Bodies!ValueOf(listed, k) = Bodies!ValueOf(body, k)
  <2>1. /\ k \notin {"id", "revisionDate", "object", "lastKnownRevisionDate"}
        /\ Bodies!Pascal[k]
             \notin {"id", "revisionDate", "object", "lastKnownRevisionDate"}
    BY PascalOf DEF EditedKeys
  <2> QED BY <1>5, <2>1 DEF Bodies!ValueOf
<1> QED BY <1>6, <1>7 DEF listed

(* The body of an update: the fields, the login made of them, the revision,   *)
(* and whatever else the item had.                                           *)
BodyMade(body, obj, e, login, isLogin, revision) ==
  /\ \A k \in EditedKeys : k \in DOMAIN body /\ body[k] = e[k]
  /\ isLogin => "login" \in DOMAIN body /\ body["login"] = login
  /\ \A k \in DOMAIN obj \ Bodies!ResponseOnly :
       k \notin Bodies!Spellings(Bodies!EditorKeys) => k \in DOMAIN body /\ body[k] = obj[k]
  /\ DOMAIN body \subseteq (DOMAIN obj \ Bodies!ResponseOnly) \cup EditedKeys
                             \cup {"login", "lastKnownRevisionDate"}
  /\ revision # Bodies!Empty => body["lastKnownRevisionDate"] = revision

LEMMA EditorSpellings ==
  Bodies!Spellings(Bodies!EditorKeys)
    = {"name", "notes", "favorite", "folderId", "login",
       "Name", "Notes", "Favorite", "FolderId", "Login"}
<1>1. {Bodies!Pascal[k] : k \in Bodies!EditorKeys}
        = {Bodies!Pascal["name"], Bodies!Pascal["notes"], Bodies!Pascal["favorite"],
           Bodies!Pascal["folderId"], Bodies!Pascal["login"]}
  BY DEF Bodies!EditorKeys
<1>2. Bodies!Spellings(Bodies!EditorKeys)
        = Bodies!EditorKeys \cup {Bodies!Pascal[k] : k \in Bodies!EditorKeys}
  BY DEF Bodies!Spellings
<1>3. {Bodies!Pascal[k] : k \in Bodies!EditorKeys}
        = {"Name", "Notes", "Favorite", "FolderId", "Login"}
  BY <1>1, PascalOf
<1> QED BY <1>2, <1>3 DEF Bodies!EditorKeys

LEMMA BodyIsMade ==
  ASSUME NEW obj, NEW e, NEW login, NEW isLogin \in BOOLEAN, NEW revision,
         DOMAIN e = EditedKeys, "lastKnownRevisionDate" \notin DOMAIN obj
  PROVE  LET base == Bodies!Over(e, Bodies!Without(obj, Bodies!ResponseOnly))
             lastKnown == IF revision = Bodies!Empty THEN << >>
                          ELSE [lastKnownRevisionDate |-> revision]
         IN BodyMade(Bodies!Over(lastKnown,
                                 IF isLogin
                                 THEN Bodies!Over([login |-> login],
                                                  Bodies!Without(base, {"Login"}))
                                 ELSE base),
                     obj, e, login, isLogin, revision)
<1> DEFINE rest == Bodies!Without(obj, Bodies!ResponseOnly)
           base == Bodies!Over(e, rest)
           less == Bodies!Without(base, {"Login"})
           new  == [login |-> login]
           full == Bodies!Over(new, less)
           inner == IF isLogin THEN full ELSE base
           lastKnown == IF revision = Bodies!Empty THEN << >>
                        ELSE [lastKnownRevisionDate |-> revision]
           body == Bodies!Over(lastKnown, inner)
<1>1. /\ DOMAIN rest = DOMAIN obj \ Bodies!ResponseOnly
      /\ \A k \in DOMAIN obj \ Bodies!ResponseOnly : rest[k] = obj[k]
  BY WithoutReads
<1>2. DOMAIN new = {"login"} /\ new["login"] = login OBVIOUS
<1>3. /\ revision = Bodies!Empty => DOMAIN lastKnown = {}
      /\ revision # Bodies!Empty =>
           /\ DOMAIN lastKnown = {"lastKnownRevisionDate"}
           /\ lastKnown["lastKnownRevisionDate"] = revision
  OBVIOUS
<1> HIDE DEF rest, new, lastKnown
<1>4. /\ DOMAIN base = DOMAIN e \cup DOMAIN rest
      /\ \A k \in DOMAIN e : base[k] = e[k]
      /\ \A k \in DOMAIN rest \ DOMAIN e : base[k] = rest[k]
  BY OverReads
<1> HIDE DEF base
<1>5. /\ DOMAIN less = DOMAIN base \ {"Login"}
      /\ \A k \in DOMAIN base \ {"Login"} : less[k] = base[k]
  BY WithoutReads
<1> HIDE DEF less
<1>6. /\ DOMAIN full = DOMAIN new \cup DOMAIN less
      /\ \A k \in DOMAIN new : full[k] = new[k]
      /\ \A k \in DOMAIN less \ DOMAIN new : full[k] = less[k]
  BY OverReads
<1> HIDE DEF full
<1>7. /\ DOMAIN inner \subseteq DOMAIN base \cup {"login"}
      /\ \A k \in DOMAIN base \ {"login", "Login"} : k \in DOMAIN inner /\ inner[k] = base[k]
      /\ isLogin => "login" \in DOMAIN inner /\ inner["login"] = login
  <2>1. CASE isLogin
    <3>1. inner = full BY <2>1
    <3> HIDE DEF inner
    <3> QED BY <1>2, <1>5, <1>6, <3>1
  <2>2. CASE ~isLogin
    <3>1. inner = base BY <2>2
    <3> HIDE DEF inner
    <3> QED BY <2>2, <3>1
  <2> QED BY <2>1, <2>2
<1> HIDE DEF inner
<1>8. /\ DOMAIN body = DOMAIN lastKnown \cup DOMAIN inner
      /\ \A k \in DOMAIN lastKnown : body[k] = lastKnown[k]
      /\ \A k \in DOMAIN inner \ DOMAIN lastKnown : body[k] = inner[k]
  BY OverReads
<1> HIDE DEF body
<1>9. /\ DOMAIN body \subseteq DOMAIN base \cup {"login", "lastKnownRevisionDate"}
      /\ \A k \in DOMAIN base \ {"login", "Login", "lastKnownRevisionDate"} :
           k \in DOMAIN body /\ body[k] = base[k]
      /\ isLogin => "login" \in DOMAIN body /\ body["login"] = login
      /\ revision # Bodies!Empty => body["lastKnownRevisionDate"] = revision
  BY <1>3, <1>7, <1>8
<1>10. \A k \in EditedKeys : k \in DOMAIN body /\ body[k] = e[k]
  <2> TAKE k \in EditedKeys
  <2>1. k \notin {"login", "Login", "lastKnownRevisionDate"} BY DEF EditedKeys
  <2>2. k \in DOMAIN base /\ base[k] = e[k] BY <1>4
  <2> QED BY <1>9, <2>1, <2>2
<1>11. ASSUME NEW k \in DOMAIN obj \ Bodies!ResponseOnly,
              k \notin Bodies!Spellings(Bodies!EditorKeys)
       PROVE  k \in DOMAIN body /\ body[k] = obj[k]
  <2>1. k \notin {"login", "Login", "lastKnownRevisionDate"} /\ k \notin EditedKeys
    BY <1>11, EditorSpellings DEF EditedKeys
  <2>2. k \in DOMAIN base /\ base[k] = obj[k] BY <1>1, <1>4, <2>1
  <2> QED BY <1>9, <2>1, <2>2
<1>12. DOMAIN body \subseteq (DOMAIN obj \ Bodies!ResponseOnly) \cup EditedKeys
                               \cup {"login", "lastKnownRevisionDate"}
  BY <1>1, <1>4, <1>9
<1>13. BodyMade(body, obj, e, login, isLogin, revision)
  BY <1>9, <1>10, <1>11, <1>12 DEF BodyMade
<1> QED BY <1>13 DEF body, inner, full, less, base, new, rest, lastKnown

LEMMA LoginSpellings ==
  Typed \cup {"uris", "Uris"} \subseteq Bodies!Spellings(Bodies!LoginKeys)
<1>1. "uris" \in Bodies!LoginKeys /\ Typed \subseteq Bodies!LoginKeys
  BY DEF Bodies!LoginKeys, Typed
<1>2. Bodies!LoginKeys \subseteq Bodies!Spellings(Bodies!LoginKeys)
      /\ Bodies!Pascal["uris"] \in Bodies!Spellings(Bodies!LoginKeys)
  BY <1>1 DEF Bodies!Spellings
<1> QED BY <1>1, <1>2, PascalOf

(* What the editor does not show of a login stays.                           *)
LEMMA LoginKeepsRest ==
  ASSUME NullIsNoObject, NEW fields, NEW before, NEW key, IsSequence(UrisOf(before))
  PROVE  LET after == Bodies!BuildLoginObject(fields, before, key)
             u == UrisOf(before)
             v == UrisOf(after)
         IN /\ Bodies!Kept(before, after, Bodies!LoginKeys)
            /\ fields.uri # Bodies!Empty \/ Len(u) > 1 =>
                 SubSeq(v, 2, Len(v)) = SubSeq(u, 2, Len(u))
            /\ fields.uri = Bodies!Empty => v = IF Len(u) > 1 THEN u ELSE << >>
<1> DEFINE after == Bodies!BuildLoginObject(fields, before, key)
           built == Bodies!BuildUris(before, fields.uri, key)
           u == UrisOf(before)
           v == UrisOf(after)
<1>1. /\ DOMAIN after = DOMAIN built \cup Typed \cup DOMAIN before
      /\ \A k \in DOMAIN built : after[k] = built[k]
      /\ \A k \in DOMAIN before \ (DOMAIN built \cup Typed) : after[k] = before[k]
  <2>1. LoginMade(after, built, fields, before, key) BY LoginReads
  <2> HIDE DEF after, built
  <2> QED BY <2>1 DEF LoginMade
<1>2. DOMAIN built \subseteq {"uris"} BY BuiltIsUris
<1>3. "uris" \notin Typed /\ "Uris" \notin Typed BY DEF Typed
<1> DEFINE first == Bodies!FirstUri(u, fields.uri, key)
           w == << first >> \o SubSeq(u, 2, Len(u))
           S == {u[k] : k \in 1 .. Len(u)}
<1>4. u \in Seq(S) /\ Len(u) \in Nat BY SequencesOfValues DEF IsSequence
<1>5. ASSUME fields.uri # Bodies!Empty PROVE v = w
  <2>1. DOMAIN built = {"uris"} /\ built["uris"] = w BY <1>5, UrisBuilt
  <2>2. w \in Seq(S \cup {first}) BY <1>4, FirstReplaced
  <2> HIDE DEF after, built, w
  <2>3. Bodies!ValueOf(after, "uris") = w BY <1>1, <2>1 DEF Bodies!ValueOf
  <2>4. w # Null BY <2>2, SequencesAreObjects
  <2> QED BY <2>3, <2>4 DEF UrisOf
<1>6. SubSeq(w, 2, Len(w)) = SubSeq(u, 2, Len(u)) BY <1>4, FirstReplaced
<1>7. ASSUME fields.uri = Bodies!Empty, Len(u) <= 1 PROVE v = << >>
  <2>1. DOMAIN built = {"uris"} /\ built["uris"] = Null BY <1>7, UrisBuilt
  <2> HIDE DEF after, built
  <2>2. Bodies!ValueOf(after, "uris") = Null BY <1>1, <2>1 DEF Bodies!ValueOf
  <2> QED BY <2>2 DEF UrisOf
<1>8. ASSUME fields.uri = Bodies!Empty, Len(u) > 1 PROVE v = u
  <2>1. DOMAIN built = {} BY <1>8, UrisBuilt
  <2> HIDE DEF after, built
  <2>2. \A k \in {"uris", "Uris"} :
          /\ k \in DOMAIN after <=> k \in DOMAIN before
          /\ k \in DOMAIN before => after[k] = before[k]
    BY <1>1, <1>3, <2>1
  <2>3. Bodies!ValueOf(after, "uris") = Bodies!ValueOf(before, "uris")
    BY <2>2, PascalOf DEF Bodies!ValueOf
  <2> QED BY <2>3 DEF UrisOf
<1>9. Bodies!Kept(before, after, Bodies!LoginKeys)
  <2> HIDE DEF after, built
  <2>1. ASSUME NEW k \in DOMAIN before \ Bodies!Spellings(Bodies!LoginKeys)
        PROVE  k \in DOMAIN after /\ after[k] = before[k]
    <3>1. k \notin Typed /\ k # "uris" BY LoginSpellings
    <3> QED BY <1>1, <1>2, <3>1
  <2> QED BY <2>1 DEF Bodies!Kept
<1> HIDE DEF after, u, v, w
<1>10. ASSUME fields.uri # Bodies!Empty \/ Len(u) > 1
       PROVE  SubSeq(v, 2, Len(v)) = SubSeq(u, 2, Len(u))
  BY <1>5, <1>6, <1>8, <1>10
<1>11. ASSUME fields.uri = Bodies!Empty PROVE v = IF Len(u) > 1 THEN u ELSE << >>
  <2>1. Len(u) > 1 \/ Len(u) <= 1 BY <1>4
  <2> QED BY <1>7, <1>8, <1>11, <2>1, <1>4
<1> QED BY <1>9, <1>10, <1>11 DEF after, u, v

LEMMA EditIsReadBack ==
  ASSUME NullIsNoObject, NEW i \in Inputs.update
  PROVE  Bodies!EditReadsBack(i.of, i.fields)
<1> DEFINE obj == i.of
           fields == i.fields
           c == Bodies!ParseCipher(obj)
           key == Bodies!CipherKey(c)
           e == Bodies!Edited(fields, key)
           rest == Bodies!Without(obj, Bodies!ResponseOnly)
           base == Bodies!Over(e, rest)
           before == Bodies!ValueOf(obj, "login")
           existing == IF before = Null THEN << >> ELSE before
           login == Bodies!BuildLoginObject(fields, existing, key)
           revision == Bodies!IdOf(obj, "revisionDate")
           isLogin == c.type = Bodies!Login
           body == Bodies!BuildUpdateBody(c, fields)
           listed == Bodies!Listed(body, c.id, "later")
           uris(o) == IF Bodies!ValueOf(o, "uris") = Null THEN << >>
                      ELSE Bodies!ValueOf(o, "uris")
<1> SUFFICES ASSUME Bodies!Parses(obj), body # Refused
             PROVE  /\ Bodies!ReadsBack(listed, fields)
                    /\ Bodies!Kept(rest, body, Bodies!EditorKeys)
                    /\ DOMAIN body \cap Bodies!ResponseOnly = {}
                    /\ c.revisionDate # Bodies!Empty =>
                         body["lastKnownRevisionDate"] = c.revisionDate
                    /\ isLogin /\ before # Null =>
                         LET after == Bodies!ValueOf(body, "login")
                         IN /\ Bodies!Kept(before, after, Bodies!LoginKeys)
                            /\ fields.uri # Bodies!Empty \/ Len(uris(before)) > 1 =>
                                 SubSeq(uris(after), 2, Len(uris(after)))
                                   = SubSeq(uris(before), 2, Len(uris(before)))
                            /\ fields.uri = Bodies!Empty =>
                                 uris(after) = IF Len(uris(before)) > 1 THEN uris(before)
                                               ELSE << >>
  BY DEF Bodies!EditReadsBack
<1>1. /\ c.id = Bodies!ValueOf(obj, "id") /\ c.type = Bodies!ValueOf(obj, "type")
      /\ c.raw = obj /\ c.organizationId = Bodies!IdOf(obj, "organizationId")
      /\ c.revisionDate = revision /\ c.key = Bodies!ValueOf(obj, "key")
  BY CipherReads
<1>2. "lastKnownRevisionDate" \notin DOMAIN obj
      /\ fields.favorite \in BOOLEAN /\ fields.folderId # Null
  BY BodyAssumption
<1> HIDE DEF c
<1>3. fields.name # Bodies!Empty /\ key # Refused BY DEF Bodies!BuildUpdateBody
<1>4. DOMAIN e = EditedKeys BY EditedReads DEF EditedKeys
<1>5. Bodies!ValueOf(base, "login") = before
  <2>1. /\ DOMAIN rest = DOMAIN obj \ Bodies!ResponseOnly
        /\ \A k \in DOMAIN obj \ Bodies!ResponseOnly : rest[k] = obj[k]
    BY WithoutReads
  <2> HIDE DEF rest, e
  <2>2. /\ DOMAIN base = DOMAIN e \cup DOMAIN rest
        /\ \A k \in DOMAIN rest \ DOMAIN e : base[k] = rest[k]
    BY OverReads
  <2> HIDE DEF base
  <2>3. \A k \in {"login", "Login"} : k \notin EditedKeys /\ k \notin Bodies!ResponseOnly
    BY DEF EditedKeys, Bodies!ResponseOnly
  <2>4. \A k \in {"login", "Login"} :
          /\ k \in DOMAIN base <=> k \in DOMAIN obj
          /\ k \in DOMAIN obj => base[k] = obj[k]
    BY <1>4, <2>1, <2>2, <2>3
  <2> QED BY <2>4, PascalOf DEF Bodies!ValueOf
<1>6. BodyMade(body, obj, e, login, isLogin, revision)
  <2> DEFINE lastKnown == IF revision = Bodies!Empty THEN << >>
                          ELSE [lastKnownRevisionDate |-> revision]
             made == Bodies!Over(lastKnown,
                                 IF isLogin
                                 THEN Bodies!Over([login |-> login],
                                                  Bodies!Without(base, {"Login"}))
                                 ELSE base)
  <2>1. isLogin \in BOOLEAN OBVIOUS
  <2> HIDE DEF e, login, revision, isLogin
  <2>2. BodyMade(made, obj, e, login, isLogin, revision) BY <1>2, <1>4, <2>1, BodyIsMade
  <2> HIDE DEF base, rest
  <2>3. body = made
    BY <1>1, <1>3, <1>5 DEF Bodies!BuildUpdateBody, e, login, revision, isLogin, base, rest
  <2> HIDE DEF made, body
  <2> QED BY <2>2, <2>3
<1> HIDE DEF body
<1>7. DOMAIN body \cap Bodies!ResponseOnly = {}
  <2>1. EditedKeys \cup {"login", "lastKnownRevisionDate"}
          \subseteq DOMAIN e \cup {"login", "lastKnownRevisionDate"}
        /\ (EditedKeys \cup {"login", "lastKnownRevisionDate"}) \cap Bodies!ResponseOnly = {}
    BY <1>4 DEF EditedKeys, Bodies!ResponseOnly
  <2> HIDE DEF e, login, revision, isLogin
  <2> QED BY <1>6, <2>1 DEF BodyMade
<1>8. Bodies!Kept(rest, body, Bodies!EditorKeys)
  <2>1. /\ DOMAIN rest = DOMAIN obj \ Bodies!ResponseOnly
        /\ \A k \in DOMAIN obj \ Bodies!ResponseOnly : rest[k] = obj[k]
    BY WithoutReads
  <2> HIDE DEF rest, e, login, revision, isLogin
  <2> QED BY <1>6, <2>1 DEF BodyMade, Bodies!Kept
<1>9. \A k \in {"type", "organizationId", "key"} :
        Bodies!ValueOf(body, k) = Bodies!ValueOf(obj, k)
  <2>1. \A k \in {"type", "organizationId", "key", "Type", "OrganizationId", "Key"} :
          /\ k \notin Bodies!Spellings(Bodies!EditorKeys)
          /\ k \notin Bodies!ResponseOnly
          /\ k \notin EditedKeys \cup {"login", "lastKnownRevisionDate"}
    BY EditorSpellings DEF EditedKeys, Bodies!ResponseOnly
  <2> HIDE DEF e, login, revision, isLogin
  <2>2. \A k \in {"type", "organizationId", "key", "Type", "OrganizationId", "Key"} :
          /\ k \in DOMAIN body <=> k \in DOMAIN obj
          /\ k \in DOMAIN obj => body[k] = obj[k]
    BY <1>6, <2>1 DEF BodyMade
  <2> QED BY <2>2, PascalOf DEF Bodies!ValueOf
<1>10. \A k \in EditedKeys : Bodies!ValueOf(body, k) = e[k]
  <2> HIDE DEF e, login, revision, isLogin
  <2> QED BY <1>6 DEF BodyMade, Bodies!ValueOf
<1>11. isLogin => Bodies!ValueOf(body, "login") = login
  <2> HIDE DEF e, login, revision, isLogin
  <2> QED BY <1>6 DEF BodyMade, Bodies!ValueOf
<1>12. isLogin => IsSequence(UrisOf(existing))
  <2>1. ASSUME NEW o, Bodies!ValueOf(o, "uris") = Null PROVE IsSequence(UrisOf(o))
    <3>1. UrisOf(o) = << >> BY <2>1 DEF UrisOf
    <3>2. IsSequence(<< >>) BY DEF IsSequence
    <3> QED BY <3>1, <3>2
  <2>2. Bodies!ValueOf(<< >>, "uris") = Null BY PascalOf DEF Bodies!ValueOf
  <2>3. CASE before = Null
    <3>1. existing = << >> BY <2>3
    <3> QED BY <2>1, <2>2, <3>1
  <2>4. CASE before # Null
    <3>1. existing = before BY <2>4
    <3>2. ASSUME isLogin, Bodies!ValueOf(before, "uris") # Null
          PROVE  IsSequence(Bodies!ValueOf(before, "uris"))
      BY <1>1, <2>4, <3>2, BodyAssumption
    <3> HIDE DEF before, existing
    <3> QED BY <2>1, <3>1, <3>2 DEF UrisOf
  <2> QED BY <2>3, <2>4
<1>13. Bodies!ReadsBack(listed, fields)
  <2> DEFINE d == Bodies!ParseCipher(listed)
  <2>1. /\ Bodies!ValueOf(listed, "id") = c.id
        /\ \A k \in EditedKeys \cup {"type", "organizationId", "key", "login"} :
             Bodies!ValueOf(listed, k) = Bodies!ValueOf(body, k)
    BY ListedReads
  <2>2. d.organizationId = Bodies!IdOf(listed, "organizationId")
        /\ d.key = Bodies!ValueOf(listed, "key")
    BY CipherReads
  <2> HIDE DEF listed
  <2>3. /\ Bodies!ValueOf(listed, "type") = Bodies!ValueOf(obj, "type")
        /\ Bodies!ValueOf(listed, "organizationId") = Bodies!ValueOf(obj, "organizationId")
        /\ Bodies!ValueOf(listed, "key") = Bodies!ValueOf(obj, "key")
    BY <1>9, <2>1
  <2> HIDE DEF d
  <2>4. d.organizationId = c.organizationId /\ d.key = c.key
    BY <1>1, <2>2, <2>3 DEF Bodies!IdOf
  <2>5. Bodies!CipherKey(d) = key BY <2>4, SameKey
  <2>6. Bodies!IdOf(listed, "id") # Bodies!Empty
        /\ Bodies!ValueOf(listed, "type") \in 1 .. 4
    BY <1>1, <2>1, <2>3 DEF Bodies!Parses, Bodies!IdOf
  <2>7. \A k \in EditedKeys : Bodies!ValueOf(listed, k) = Bodies!Edited(fields, key)[k]
    BY <1>10, <2>1
  <2>8. Bodies!ValueOf(listed, "type") = Bodies!Login =>
          /\ IsSequence(UrisOf(existing))
          /\ Bodies!ValueOf(listed, "login") = Bodies!BuildLoginObject(fields, existing, key)
    BY <1>1, <1>11, <1>12, <2>1, <2>3
  <2> HIDE DEF existing, key, fields
  <2> QED BY <1>2, <1>3, <2>5, <2>6, <2>7, <2>8, HeldIsReadBack DEF d
<1>14. ASSUME isLogin, before # Null
       PROVE  LET after == Bodies!ValueOf(body, "login")
              IN /\ Bodies!Kept(before, after, Bodies!LoginKeys)
                 /\ fields.uri # Bodies!Empty \/ Len(uris(before)) > 1 =>
                      SubSeq(uris(after), 2, Len(uris(after)))
                        = SubSeq(uris(before), 2, Len(uris(before)))
                 /\ fields.uri = Bodies!Empty =>
                      uris(after) = IF Len(uris(before)) > 1 THEN uris(before)
                                    ELSE << >>
  <2> DEFINE after == Bodies!BuildLoginObject(fields, before, key)
             u == UrisOf(before)
             v == UrisOf(after)
  <2>1. existing = before BY <1>14
  <2>2. IsSequence(UrisOf(before)) BY <1>12, <1>14, <2>1
  <2>3. Bodies!ValueOf(body, "login") = after BY <1>11, <1>14, <2>1
  <2> HIDE DEF before, fields, key
  <2>4. /\ Bodies!Kept(before, after, Bodies!LoginKeys)
        /\ fields.uri # Bodies!Empty \/ Len(u) > 1 =>
             SubSeq(v, 2, Len(v)) = SubSeq(u, 2, Len(u))
        /\ fields.uri = Bodies!Empty => v = IF Len(u) > 1 THEN u ELSE << >>
    BY <2>2, LoginKeepsRest
  <2>5. u = uris(before) /\ v = uris(after) BY DEF UrisOf
  <2> HIDE DEF u, v, uris, after
  <2> QED BY <2>3, <2>4, <2>5
<1>15. c.revisionDate # Bodies!Empty => body["lastKnownRevisionDate"] = c.revisionDate
  BY <1>1, <1>6 DEF BodyMade
<1> HIDE DEF listed, fields, rest, isLogin, before, uris
<1> QED BY <1>7, <1>8, <1>13, <1>14, <1>15

LEMMA CreateIsReadBack ==
  ASSUME NullIsNoObject, NEW i \in Inputs.create
  PROVE  Bodies!CreateReadsBack(i.of, i.fields)
<1> DEFINE type == i.of
           fields == i.fields
           e == Bodies!Edited(fields, UserKey)
           login == Bodies!BuildLoginObject(fields, << >>, UserKey)
           meta == [type |-> type, organizationId |-> Null]
           tail == IF type = Bodies!Login THEN [login |-> login]
                   ELSE [secureNote |-> [type |-> 0]]
           inner == Bodies!Over(meta, tail)
           made == Bodies!Over(e, inner)
           body == Bodies!BuildCreateBody(type, fields)
           listed == Bodies!Listed(body, "new", "later")
           d == Bodies!ParseCipher(listed)
<1> SUFFICES ASSUME body # Refused PROVE Bodies!ReadsBack(listed, fields)
  BY DEF Bodies!CreateReadsBack
<1>1. type \in {Bodies!Login, Bodies!SecureNote} /\ body = made
  BY DEF Bodies!BuildCreateBody
<1>2. DOMAIN e = EditedKeys BY EditedReads DEF EditedKeys
<1>3. DOMAIN meta = {"type", "organizationId"} /\ meta["type"] = type
      /\ meta["organizationId"] = Null
  OBVIOUS
<1>4. /\ DOMAIN tail \subseteq {"login", "secureNote"}
      /\ type = Bodies!Login => "login" \in DOMAIN tail /\ tail["login"] = login
  OBVIOUS
<1> HIDE DEF e, meta, tail, login, type
<1>5. /\ DOMAIN inner = DOMAIN meta \cup DOMAIN tail
      /\ \A k \in DOMAIN meta : inner[k] = meta[k]
      /\ \A k \in DOMAIN tail \ DOMAIN meta : inner[k] = tail[k]
  BY OverReads
<1> HIDE DEF inner
<1>6. /\ DOMAIN made = DOMAIN e \cup DOMAIN inner
      /\ \A k \in DOMAIN e : made[k] = e[k]
      /\ \A k \in DOMAIN inner \ DOMAIN e : made[k] = inner[k]
  BY OverReads
<1> HIDE DEF made, body
<1>7. /\ DOMAIN body \subseteq EditedKeys \cup {"type", "organizationId", "login", "secureNote"}
      /\ "type" \in DOMAIN body /\ body["type"] = type
      /\ "organizationId" \in DOMAIN body /\ body["organizationId"] = Null
      /\ type = Bodies!Login => "login" \in DOMAIN body /\ body["login"] = login
      /\ \A k \in EditedKeys : k \in DOMAIN body /\ body[k] = e[k]
  BY <1>1, <1>2, <1>3, <1>4, <1>5, <1>6 DEF EditedKeys
<1>8. /\ Bodies!ValueOf(body, "type") = type
      /\ Bodies!ValueOf(body, "organizationId") = Null
      /\ type = Bodies!Login => Bodies!ValueOf(body, "login") = login
      /\ \A k \in EditedKeys : Bodies!ValueOf(body, k) = e[k]
  BY <1>7 DEF Bodies!ValueOf
<1>9. Bodies!ValueOf(body, "key") = Null
  <2>1. "key" \notin DOMAIN body /\ "Key" \notin DOMAIN body BY <1>7 DEF EditedKeys
  <2> QED BY <2>1, PascalOf DEF Bodies!ValueOf
<1>10. /\ Bodies!ValueOf(listed, "id") = "new"
       /\ \A k \in EditedKeys \cup {"type", "organizationId", "key", "login"} :
            Bodies!ValueOf(listed, k) = Bodies!ValueOf(body, k)
  BY ListedReads
<1>11. d.organizationId = Bodies!IdOf(listed, "organizationId")
       /\ d.key = Bodies!ValueOf(listed, "key")
  BY CipherReads
<1> HIDE DEF d, listed
<1>12. d.organizationId = Bodies!Empty /\ d.key = Null
  BY <1>8, <1>9, <1>10, <1>11 DEF Bodies!IdOf
<1>13. Bodies!CipherKey(d) = UserKey BY <1>12 DEF Bodies!CipherKey
<1>14. UserKey # Refused /\ fields.favorite \in BOOLEAN /\ fields.folderId # Null
  BY BodyAssumption
<1>15. IsSequence(UrisOf(<< >>))
  <2>1. Bodies!ValueOf(<< >>, "uris") = Null BY PascalOf DEF Bodies!ValueOf
  <2>2. UrisOf(<< >>) = << >> BY <2>1 DEF UrisOf
  <2>3. IsSequence(<< >>) BY DEF IsSequence
  <2> QED BY <2>2, <2>3
<1>16. Bodies!IdOf(listed, "id") # Bodies!Empty
  <2>1. Null # "new" BY BodyAssumption
  <2> QED BY <1>10, <2>1 DEF Bodies!IdOf, Bodies!Empty
<1>17. Bodies!ValueOf(listed, "type") \in 1 .. 4
  BY <1>1, <1>8, <1>10 DEF Bodies!Login, Bodies!SecureNote
<1>18. \A k \in EditedKeys : Bodies!ValueOf(listed, k) = Bodies!Edited(fields, UserKey)[k]
  BY <1>8, <1>10 DEF e
<1>19. Bodies!ValueOf(listed, "type") = Bodies!Login =>
         Bodies!ValueOf(listed, "login") = Bodies!BuildLoginObject(fields, << >>, UserKey)
  BY <1>8, <1>10 DEF login
<1> HIDE DEF fields
<1> QED BY <1>13, <1>14, <1>15, <1>16, <1>17, <1>18, <1>19, HeldIsReadBack DEF d

(* What the editor saves of any item, in either spelling of the server, is    *)
(* read back as typed by the next sync, and all it does not show of the item *)
(* is what it was (buildCreateBody, buildUpdateBody, buildLoginObject and     *)
(* parseCipher).                                                             *)
THEOREM BodiesAlwaysReadBack ==
  ASSUME NullIsNoObject
  PROVE  FunctionsSpec => []BodiesReadBack
<1>1. InputInv => BodiesReadBack
  <2> SUFFICES ASSUME InputInv PROVE BodiesReadBack OBVIOUS
  <2>1. ASSUME input.kind = "update"
        PROVE  Bodies!EditReadsBack(input.of, input.fields)
    <3>1. input \in Inputs["update"] BY <2>1, InputOfKind
    <3> QED BY <3>1, EditIsReadBack
  <2>2. ASSUME input.kind = "create"
        PROVE  Bodies!CreateReadsBack(input.of, input.fields)
    <3>1. input \in Inputs["create"] BY <2>2, InputOfKind
    <3> QED BY <3>1, CreateIsReadBack
  <2> QED BY <2>1, <2>2 DEF BodiesReadBack
<1> QED BY <1>1, InputStays, PTL
=============================================================================
