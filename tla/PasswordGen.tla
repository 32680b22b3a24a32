------------------------------ MODULE PasswordGen ------------------------------
(***************************************************************************)
(* The password generator (src/crypto/passwordgen.cpp) and the dialog that  *)
(* drives it (qml/pages/GeneratorDialog.qml), with the options AppController*)
(* keeps for the dialog's next use.                                         *)
(*                                                                          *)
(* One call of generatePassword picks the characters one after the other,   *)
(* then shuffles them in place; it is one step for the rest of the program, *)
(* and several here, each with the choices a random index leaves.  That an  *)
(* index is uniform is UniformIndex, that the swaps reach every order by    *)
(* one way only is FairShuffle: both are about operators of their own.      *)
(*                                                                          *)
(* A call that is refused yields "", here << >>.                            *)
(***************************************************************************)
EXTENDS Integers, Sequences, FiniteSets

CONSTANTS
  Alphabet,    \* the characters of each class
  Ambiguous,   \* Il1O0o
  Minimum,     \* PasswordOptions::minDigits and minSymbols
  Lengths,     \* positions of the length slider
  DefaultLength,
  MaxLength    \* 256

Classes == {"lowercase", "uppercase", "digits", "symbols"}
Counted == {"digits", "symbols"}

ASSUME AlphabetAssumption ==
  /\ DOMAIN Alphabet = Classes
  /\ \A c, d \in Classes : c # d => Alphabet[c] \cap Alphabet[d] = {}
ASSUME LengthAssumption ==
  Minimum \in [Counted -> Int] /\ Lengths \subseteq Int /\ MaxLength \in Nat

Options == [length : Lengths, on : SUBSET Classes, avoid : BOOLEAN]
Characters == UNION {Alphabet[c] : c \in Classes}

VARIABLES
  stored,  \* kSettingGenLength and its companions
  shown,   \* the controls of the dialog
  phase,   \* the dialog is closed, shows a password, or waits for the call
  chars,   \* the characters picked so far; in the end the password
  at       \* the place the shuffle has come down to

vars == <<stored, shown, phase, chars, at>>

-----------------------------------------------------------------------------
(* randomIndex, over the 2^32 values (Words) of random32.  UINT32_MAX % bound *)
(* is the remainder of Words - 1.                                            *)
RemUncorrected(Words, bound) == (Words - 1) % bound  \* mutant of Rem
Rem(Words, bound) == (((Words - 1) % bound) + 1) % bound

(* Drawn again until it is below the last whole bucket; 0u - rem wraps.      *)
Kept(Words, bound, r) ==
  Rem(Words, bound) = 0 \/ r < (0 - Rem(Words, bound)) % Words
Draws(Words, bound, index) ==
  {r \in 0 .. Words - 1 : Kept(Words, bound, r) /\ r % bound = index}

-----------------------------------------------------------------------------
(* generatePassword: the characters a class contributes, how many of them    *)
(* are certain, and what is refused.                                         *)
Pool(o, c) ==
  IF c \notin o.on THEN {}
  ELSE IF o.avoid /\ c # "symbols" THEN Alphabet[c] \ Ambiguous
  ELSE Alphabet[c]
AnyPool(o) == UNION {Pool(o, c) : c \in Classes}

Larger(m, n) == IF m > n THEN m ELSE n
Required(o, c) ==
  IF Pool(o, c) = {} THEN 0
  ELSE IF c \in Counted THEN Larger(1, Minimum[c]) ELSE 1

(* The classes take their places in this order.                              *)
UpToUpper(o)   == Required(o, "lowercase") + Required(o, "uppercase")
UpToDigits(o)  == UpToUpper(o) + Required(o, "digits")
UpToSymbols(o) == UpToDigits(o) + Required(o, "symbols")

Accepted(o) ==
  o.length \in 1 .. MaxLength /\ AnyPool(o) # {} /\ o.length >= UpToSymbols(o)

PlaceClass(o, k) ==
  CASE k <= Required(o, "lowercase") -> "lowercase"
    [] Required(o, "lowercase") < k /\ k <= UpToUpper(o) -> "uppercase"
    [] UpToUpper(o) < k /\ k <= UpToDigits(o) -> "digits"
    [] UpToDigits(o) < k -> "symbols"
PlacePool(o, k) ==
  IF k <= UpToSymbols(o) THEN Pool(o, PlaceClass(o, k)) ELSE AnyPool(o)

(* Fisher-Yates: std::swap of place i with one of 1 .. i.                    *)
PartnersBelow(i) == 1 .. (i - 1)  \* mutant of Partners
Partners(i) == 1 .. i
SwappedLosing(s, i, j) == [s EXCEPT ![i] = s[j]]  \* mutant of Swapped
Swapped(s, i, j) == [s EXCEPT ![i] = s[j], ![j] = s[i]]

(* What the loop makes of 1 .. n when place i is swapped with choice[i].     *)
Choices(n) == {f \in [2 .. n -> 1 .. n] : \A i \in 2 .. n : f[i] \in Partners(i)}
Shuffled(n, choice) ==
  LET walk[i \in 1 .. n] ==   \* the order after places n down to i + 1
        IF i = n THEN [k \in 1 .. n |-> k]
        ELSE Swapped(walk[i + 1], i + 1, choice[i + 1])
  IN walk[1]

-----------------------------------------------------------------------------
Default == [length |-> DefaultLength, on |-> Classes, avoid |-> FALSE]
ASSUME DefaultAssumption == DefaultLength \in Lengths /\ Accepted(Default)

Init ==
  /\ stored = Default /\ shown = stored
  /\ phase = "closed" /\ chars = << >> /\ at = 0

(* regenerate: App.generatePassword only if a class is on.                   *)
Regenerate(o) ==
  /\ phase' = IF o.on # {} /\ Accepted(o) THEN "picking" ELSE "shown"
  /\ chars' = << >> /\ at' = 0

OpenDialog ==
  /\ phase = "closed"
  /\ shown' = stored /\ Regenerate(stored)
  /\ UNCHANGED stored

(* One control is moved, or the refresh button pressed.                      *)
ChangeControl ==
  /\ phase = "shown"
  /\ \/ \E n \in Lengths : shown' = [shown EXCEPT !.length = n]
     \/ \E c \in Classes :
          shown' = [shown EXCEPT !.on = IF c \in @ THEN @ \ {c} ELSE @ \cup {c}]
     \/ shown' = [shown EXCEPT !.avoid = ~@]
  /\ Regenerate(shown')
  /\ UNCHANGED stored

PickCharacter ==
  /\ phase = "picking"
  /\ \E x \in PlacePool(shown, Len(chars) + 1) : chars' = Append(chars, x)
  /\ IF Len(chars) + 1 = shown.length
     THEN phase' = "shuffling" /\ at' = shown.length
     ELSE UNCHANGED <<phase, at>>
  /\ UNCHANGED <<stored, shown>>

SwapCharacters ==
  /\ phase = "shuffling"
  /\ IF at > 1
     THEN /\ \E j \in Partners(at) : chars' = Swapped(chars, at, j)
          /\ at' = at - 1 /\ UNCHANGED phase
     ELSE phase' = "shown" /\ at' = 0 /\ UNCHANGED chars
  /\ UNCHANGED <<stored, shown>>

(* canAccept, and setGeneratorOptions once accepted.                         *)
CanAccept == shown.on # {} /\ chars # << >>

Accept ==
  /\ phase = "shown" /\ CanAccept
  /\ stored' = shown /\ phase' = "closed" /\ chars' = << >>
  /\ UNCHANGED <<shown, at>>

Reject ==
  /\ phase = "shown" /\ phase' = "closed" /\ chars' = << >>
  /\ UNCHANGED <<stored, shown, at>>

Next == \/ OpenDialog \/ ChangeControl \/ PickCharacter \/ SwapCharacters
        \/ Accept \/ Reject

Spec == Init /\ [][Next]_vars

-----------------------------------------------------------------------------
(* The members keep their types.                                             *)
TypeOK ==
  /\ stored \in Options /\ shown \in Options
  /\ phase \in {"closed", "picking", "shuffling", "shown"}
  /\ chars \in Seq(Characters) /\ at \in 0 .. MaxLength

(* "At least one of every enabled class" (passwordgen.cpp:98): the password  *)
(* the dialog shows has the length asked for, no character of a class that   *)
(* is off or that is to be avoided, and each class often enough - after a    *)
(* shuffle that was to move characters and not to lose any.                  *)
From(s, S) == {k \in DOMAIN s : s[k] \in S}
PasswordFits ==
  phase = "shown" /\ chars # << >> =>
    /\ Len(chars) = shown.length
    /\ From(chars, AnyPool(shown)) = DOMAIN chars
    /\ \A c \in Classes :
         Cardinality(From(chars, Pool(shown, c))) >= Required(shown, c)

(* A user who asks for a password with the options kept from last time gets  *)
(* one: what is kept was good for a password, and none comes out empty.      *)
StoredWorks == Accepted(stored)

(* Every index is drawn by the same number of 32-bit words (passwordgen.h    *)
(* "rejection sampling"), whatever the bound.                                *)
UniformIndex(Words, bound) ==
  \A i, j \in 0 .. bound - 1 :
    Cardinality(Draws(Words, bound, i)) = Cardinality(Draws(Words, bound, j))

(* Every order of n characters is reached, by one sequence of choices only.  *)
FairShuffle(n) ==
  LET results == {Shuffled(n, f) : f \in Choices(n)} IN
  /\ Cardinality(results) = Cardinality(Choices(n))
  /\ results = {p \in [1 .. n -> 1 .. n] : \A i, j \in 1 .. n : i # j => p[i] # p[j]}
=============================================================================
