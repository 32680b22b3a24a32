----------------------------- MODULE MCListModel -----------------------------
(* Constants of the TLC run of module ListModel.                             *)
EXTENDS ListModel

Entry(id, name, favorite, inFolder, hits) ==
  [id |-> id, name |-> name, favorite |-> favorite, folder |-> inFolder,
   hits |-> hits]

(* Four items, two of them of the same name; what a re-sync may have made of *)
(* them: renamed, moved, another favorite, one gone and one new.             *)
Before == << Entry("a", 2, FALSE, "work", {"x"}),
             Entry("b", 1, FALSE, NoFolder, {"x", "y"}),
             Entry("c", 3, TRUE, "work", {"y"}),
             Entry("d", 2, FALSE, NoFolder, {}) >>
After  == << Entry("d", 2, TRUE, "work", {"x"}),
             Entry("e", 2, FALSE, "work", {"x", "y"}),
             Entry("a", 1, FALSE, NoFolder, {"y"}),
             Entry("b", 1, FALSE, "work", {"x"}) >>

(* Every choice of favorites, with and without equal names.                  *)
Variant(favorites, renamed) ==
  [i \in DOMAIN Before |->
     [Before[i] EXCEPT !.favorite = favorites[i],
                       !.name = IF renamed THEN 2 ELSE @]]
Variants == {Variant(f, r) : f \in [DOMAIN Before -> BOOLEAN], r \in BOOLEAN}

MCSources == Variants \cup {<<>>, After}
=============================================================================
