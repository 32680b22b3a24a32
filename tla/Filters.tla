-------------------------------- MODULE Filters --------------------------------
(***************************************************************************)
(* A loop that appends what it keeps, of several components: SelectSeq by   *)
(* the set of what is kept, so that it can be reasoned about.               *)
(***************************************************************************)
EXTENDS Integers, Sequences

Filtered(s, T) ==
  LET kept[k \in 0 .. Len(s)] ==
        IF k = 0 THEN << >>
        ELSE IF s[k] \in T THEN Append(kept[k - 1], s[k]) ELSE kept[k - 1]
  IN kept[Len(s)]
=============================================================================
