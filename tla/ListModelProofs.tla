--------------------------- MODULE ListModelProofs ---------------------------
(***************************************************************************)
(* For every vault, every set of filters and every sequence of filter       *)
(* changes and refreshes: the walk of applyFilterDiff arrives at the rows   *)
(* of a reset, shows no item twice on the way and takes no row away that    *)
(* stays.                                                                   *)
(***************************************************************************)
EXTENDS ListModel, FiniteSetTheorems, TLAPS

(* The master order of a vault: the one position any list of its items is    *)
(* sorted by.                                                                *)
Member(s, a)     == \E i \in DOMAIN s : s[i] = a
Earlier(s, a, b) == \E i, j \in DOMAIN s :
                      s[i] = a /\ s[j] = b /\ Precedes(s, i, j)
Ordered(s, r) ==
  /\ \A i \in DOMAIN r : Member(s, r[i])
  /\ \A i, j \in DOMAIN r : i < j => Earlier(s, r[i], r[j])

(* What the walk has dealt with is final, and the rest is still in order.    *)
WalkFits ==
  Walking => /\ fresh = Filtered(source, query, folder)
             /\ settled \in 0 .. Len(fresh)
             /\ \A i \in 1 .. settled : rows[i] = fresh[i]

RowsFit ==
  ~Walking => /\ rows = Filtered(source, query, folder)
              /\ hasFavorites = FavoriteFirst(rows)

IInv == TypeOK /\ Ordered(source, rows) /\ WalkFits /\ RowsFit

-----------------------------------------------------------------------------
(* The order is a strict total order of positions.                           *)
LEMMA PrecedesOrder ==
  ASSUME NEW s \in Seq(Item)
  PROVE  /\ \A i \in DOMAIN s : ~Precedes(s, i, i)
         /\ \A i, j \in DOMAIN s : i # j => Precedes(s, i, j) \/ Precedes(s, j, i)
         /\ \A i, j, k \in DOMAIN s :
              Precedes(s, i, j) /\ Precedes(s, j, k) => Precedes(s, i, k)
  <1>1. DOMAIN s \subseteq Nat
    OBVIOUS
  <1>2. \A i \in DOMAIN s : s[i].name \in Nat /\ s[i].favorite \in BOOLEAN
    <2>1. \A i \in DOMAIN s : s[i] \in Item
      OBVIOUS
    <2>2. \A a \in Item : a.name \in Names /\ a.favorite \in BOOLEAN
      BY DEF Item
    <2> QED
      BY <2>1, <2>2, ListAssumption
  <1>3. \A i \in DOMAIN s : ~Precedes(s, i, i)
    BY <1>1 DEF Precedes
  <1>4. \A i, j \in DOMAIN s : i # j => Precedes(s, i, j) \/ Precedes(s, j, i)
    BY <1>1, <1>2 DEF Precedes
  <1>5. \A i, j, k \in DOMAIN s :
          Precedes(s, i, j) /\ Precedes(s, j, k) => Precedes(s, i, k)
    BY <1>1, <1>2 DEF Precedes
  <1> QED
    BY <1>3, <1>4, <1>5

(* Places are numbered from 1 without a gap, in the order.                   *)
LEMMA PlaceOrder ==
  ASSUME NEW s \in Seq(Item), NEW kept \in SUBSET DOMAIN s
  PROVE  /\ IsFiniteSet(kept) /\ Cardinality(kept) \in Nat
         /\ \A i \in kept : Place(s, kept, i) \in 1 .. Cardinality(kept)
         /\ \A i, j \in kept :
              Precedes(s, i, j) => Place(s, kept, i) < Place(s, kept, j)
  <1> DEFINE Before(i) == {j \in kept : Precedes(s, j, i)}
  <1>1. IsFiniteSet(kept) /\ Cardinality(kept) \in Nat
    <2>1. IsFiniteSet(DOMAIN s)
      BY FS_Interval
    <2> QED
      BY <2>1, FS_Subset, FS_CardinalityType
  <1>2. \A i \in kept : /\ IsFiniteSet(Before(i)) /\ Cardinality(Before(i)) \in Nat
                        /\ Place(s, kept, i) = 1 + Cardinality(Before(i))
    <2> TAKE i \in kept
    <2>1. Before(i) \in SUBSET kept
      OBVIOUS
    <2> QED
      BY <1>1, <2>1, FS_Subset, FS_CardinalityType DEF Place
  <1>3. ASSUME NEW i \in kept
        PROVE  Cardinality(Before(i)) < Cardinality(kept)
    <2>1. i \notin Before(i) /\ Before(i) \in SUBSET kept
      BY PrecedesOrder
    <2>2. Cardinality(Before(i)) <= Cardinality(kept)
          /\ (Cardinality(kept) = Cardinality(Before(i)) => kept = Before(i))
      BY <1>1, <2>1, FS_Subset
    <2> HIDE DEF Before
    <2> QED
      BY <1>1, <1>2, <2>1, <2>2
  <1>4. ASSUME NEW i \in kept, NEW j \in kept, Precedes(s, i, j)
        PROVE  Cardinality(Before(i)) < Cardinality(Before(j))
    <2>1. i \notin Before(i) /\ i \in Before(j)
      BY <1>4, PrecedesOrder
    <2>2. Before(i) \in SUBSET Before(j)
      BY <1>4, PrecedesOrder
    <2>3. Cardinality(Before(i)) <= Cardinality(Before(j))
          /\ (Cardinality(Before(j)) = Cardinality(Before(i)) => Before(j) = Before(i))
      BY <1>2, <2>2, FS_Subset
    <2> HIDE DEF Before
    <2> QED
      BY <1>2, <2>1, <2>3
  <1> HIDE DEF Before
  <1> QED
    BY <1>1, <1>2, <1>3, <1>4

LEMMA EveryPlaceTaken ==
  ASSUME NEW s \in Seq(Item), NEW kept \in SUBSET DOMAIN s
  PROVE  \A n \in 1 .. Cardinality(kept) : \E i \in kept : Place(s, kept, i) = n
  <1> DEFINE p == [i \in kept |-> Place(s, kept, i)]
             T == 1 .. Cardinality(kept)
  <1>1. /\ Cardinality(kept) \in Nat
        /\ \A i \in kept : Place(s, kept, i) \in T
        /\ \A i, j \in kept :
              Precedes(s, i, j) => Place(s, kept, i) < Place(s, kept, j)
    BY PlaceOrder
  <1>2. p \in Injection(kept, T)
    <2>1. \A i, j \in kept : i # j => Precedes(s, i, j) \/ Precedes(s, j, i)
      BY PrecedesOrder
    <2>2. \A i, j \in kept : i # j => Place(s, kept, i) # Place(s, kept, j)
      BY <1>1, <2>1
    <2> QED
      BY <1>1, <2>2 DEF Injection, IsInjective
  <1>3. IsFiniteSet(T) /\ Cardinality(T) = Cardinality(kept)
    BY <1>1, FS_Interval
  <1>4. p \in Surjection(kept, T)
    BY <1>2, <1>3, FS_Injection
  <1> QED
    BY <1>4 DEF Surjection

(* filteredItems yields items of the vault, in the master order.             *)
LEMMA FilteredOrdered ==
  ASSUME NEW s \in Seq(Item), NEW q, NEW f
  PROVE  Filtered(s, q, f) \in Seq(Item) /\ Ordered(s, Filtered(s, q, f))
  <1> DEFINE kept == Kept(s, q, f)
             F    == Filtered(s, q, f)
             At(n) == CHOOSE i \in kept : Place(s, kept, i) = n
  <1>1. kept \in SUBSET DOMAIN s
    BY DEF Kept
  <1>2. /\ Cardinality(kept) \in Nat
        /\ \A i, j \in kept :
              Precedes(s, i, j) => Place(s, kept, i) < Place(s, kept, j)
    BY <1>1, PlaceOrder
  <1>3. \A n \in 1 .. Cardinality(kept) :
          At(n) \in kept /\ Place(s, kept, At(n)) = n
    BY <1>1, EveryPlaceTaken
  <1>4. F = [n \in 1 .. Cardinality(kept) |-> s[At(n)]]
    BY DEF Filtered
  <1> HIDE DEF F, At, kept
  <1>5. \A n \in 1 .. Cardinality(kept) : At(n) \in DOMAIN s /\ F[n] = s[At(n)]
    BY <1>1, <1>3, <1>4
  <1>6. F \in Seq(Item) /\ DOMAIN F = 1 .. Cardinality(kept)
    BY <1>2, <1>4, <1>5
  <1>7. ASSUME NEW n \in DOMAIN F, NEW m \in DOMAIN F, n < m
        PROVE  Earlier(s, F[n], F[m])
    <2>1. At(n) \in kept /\ At(m) \in kept /\ At(n) # At(m)
      BY <1>3, <1>6, <1>7
    <2>2. ~Precedes(s, At(m), At(n))
      BY <1>2, <1>3, <1>6, <1>7, <2>1
    <2>3. Precedes(s, At(n), At(m))
      BY <1>1, <2>1, <2>2, PrecedesOrder
    <2> QED
      BY <1>5, <1>6, <2>3 DEF Earlier
  <1> QED
    BY <1>5, <1>6, <1>7 DEF Ordered, Member, F

-----------------------------------------------------------------------------
(* In the master order of a vault no item comes before itself, and none of   *)
(* another content has its id.                                               *)
LEMMA EarlierOrder ==
  ASSUME NEW s \in Seq(Item), DistinctIds(s)
  PROVE  /\ \A a, b : Earlier(s, a, b) => ~Earlier(s, b, a) /\ a.id # b.id
         /\ \A a, b, c : Earlier(s, a, b) /\ Earlier(s, b, c) => Earlier(s, a, c)
         /\ \A a, b : Member(s, a) /\ Member(s, b) /\ a.id = b.id => a = b
  <1>1. \A i, j \in DOMAIN s : s[i].id = s[j].id => i = j
    BY DEF DistinctIds
  <1>2. /\ \A i \in DOMAIN s : ~Precedes(s, i, i)
        /\ \A i, j, k \in DOMAIN s :
             Precedes(s, i, j) /\ Precedes(s, j, k) => Precedes(s, i, k)
    BY PrecedesOrder
  <1>3. \A a, b : Earlier(s, a, b) => ~Earlier(s, b, a) /\ a.id # b.id
    BY <1>1, <1>2 DEF Earlier
  <1>4. \A a, b, c : Earlier(s, a, b) /\ Earlier(s, b, c) => Earlier(s, a, c)
    BY <1>1, <1>2 DEF Earlier
  <1>5. \A a, b : Member(s, a) /\ Member(s, b) /\ a.id = b.id => a = b
    BY <1>1 DEF Member
  <1> QED
    BY <1>3, <1>4, <1>5

LEMMA OrderedDistinct ==
  ASSUME NEW s \in Seq(Item), DistinctIds(s), NEW r \in Seq(Item), Ordered(s, r)
  PROVE  DistinctIds(r)
  <1>1. \A i, j \in DOMAIN r : i < j => r[i].id # r[j].id
    BY EarlierOrder DEF Ordered
  <1>2. DOMAIN r \subseteq Int
    OBVIOUS
  <1> QED
    BY <1>1, <1>2 DEF DistinctIds

(* The row operations, element by element.                                   *)
LEMMA RemoveAtFacts ==
  ASSUME NEW r \in Seq(Item), NEW k \in 1 .. Len(r)
  PROVE  LET t == RemoveAt(r, k) IN
         /\ t \in Seq(Item) /\ Len(t) = Len(r) - 1
         /\ \A i \in DOMAIN t : t[i] = IF i < k THEN r[i] ELSE r[i + 1]
  <1> DEFINE a == SubSeq(r, 1, k - 1)
             b == SubSeq(r, k + 1, Len(r))
  <1>1. a \in Seq(Item) /\ Len(a) = k - 1 /\ \A i \in 1 .. k - 1 : a[i] = r[i]
    OBVIOUS
  <1>2. b \in Seq(Item) /\ Len(b) = Len(r) - k
        /\ \A i \in 1 .. Len(r) - k : b[i] = r[k + i]
    OBVIOUS
  <1>3. RemoveAt(r, k) = a \o b
    BY DEF RemoveAt
  <1> HIDE DEF a, b
  <1> QED
    BY <1>1, <1>2, <1>3

LEMMA InsertAtFacts ==
  ASSUME NEW r \in Seq(Item), NEW k \in 1 .. Len(r) + 1, NEW e \in Item
  PROVE  LET t == InsertAt(r, k, e) IN
         /\ t \in Seq(Item) /\ Len(t) = Len(r) + 1
         /\ \A i \in DOMAIN t :
              t[i] = IF i < k THEN r[i] ELSE IF i = k THEN e ELSE r[i - 1]
  <1> DEFINE a == SubSeq(r, 1, k - 1)
             b == SubSeq(r, k, Len(r))
  <1>1. a \in Seq(Item) /\ Len(a) = k - 1 /\ \A i \in 1 .. k - 1 : a[i] = r[i]
    OBVIOUS
  <1>2. b \in Seq(Item) /\ Len(b) = Len(r) - k + 1
        /\ \A i \in 1 .. Len(r) - k + 1 : b[i] = r[k + i - 1]
    OBVIOUS
  <1>3. InsertAt(r, k, e) = a \o <<e>> \o b
    BY DEF InsertAt
  <1> HIDE DEF a, b
  <1>4. /\ a \o <<e>> \in Seq(Item) /\ Len(a \o <<e>>) = k
        /\ \A i \in 1 .. k : (a \o <<e>>)[i] = IF i < k THEN r[i] ELSE e
    BY <1>1
  <1> QED
    BY <1>2, <1>3, <1>4

LEMMA RemoveAtOrdered ==
  ASSUME NEW s, NEW r \in Seq(Item), NEW k \in 1 .. Len(r), Ordered(s, r)
  PROVE  Ordered(s, RemoveAt(r, k))
  <1> DEFINE t == RemoveAt(r, k)
  <1>1. /\ t \in Seq(Item) /\ Len(t) = Len(r) - 1
        /\ \A i \in DOMAIN t : t[i] = IF i < k THEN r[i] ELSE r[i + 1]
    BY RemoveAtFacts
  <1> HIDE DEF t
  <1>2. \A i \in DOMAIN t : i \in DOMAIN r /\ i + 1 \in DOMAIN r
    BY <1>1
  <1>3. \A i \in DOMAIN t : Member(s, t[i])
    BY <1>1, <1>2 DEF Ordered
  <1>4. ASSUME NEW i \in DOMAIN t, NEW j \in DOMAIN t, i < j
        PROVE  Earlier(s, t[i], t[j])
    BY <1>1, <1>2, <1>4 DEF Ordered
  <1> QED
    BY <1>3, <1>4 DEF Ordered, t

LEMMA InsertAtOrdered ==
  ASSUME NEW s, NEW r \in Seq(Item), NEW k \in 1 .. Len(r) + 1, NEW e \in Item,
         Ordered(s, r), Member(s, e),
         \A i \in 1 .. k - 1 : Earlier(s, r[i], e),
         \A i \in k .. Len(r) : Earlier(s, e, r[i])
  PROVE  Ordered(s, InsertAt(r, k, e))
  <1> DEFINE t == InsertAt(r, k, e)
  <1>1. /\ t \in Seq(Item) /\ Len(t) = Len(r) + 1
        /\ \A i \in DOMAIN t :
             t[i] = IF i < k THEN r[i] ELSE IF i = k THEN e ELSE r[i - 1]
    BY InsertAtFacts
  <1> HIDE DEF t
  <1>2. \A i \in DOMAIN t : /\ i < k => i \in DOMAIN r /\ t[i] = r[i]
                            /\ i = k => t[i] = e
                            /\ i > k => i - 1 \in DOMAIN r /\ i - 1 >= k
                                        /\ t[i] = r[i - 1]
    BY <1>1
  <1>3. DOMAIN t \subseteq Int
    BY <1>1
  <1>4. \A i \in DOMAIN t : Member(s, t[i])
    BY <1>2, <1>3 DEF Ordered
  <1>5. ASSUME NEW i \in DOMAIN t, NEW j \in DOMAIN t, i < j
        PROVE  Earlier(s, t[i], t[j])
    <2>1. CASE j < k
      BY <1>2, <1>3, <1>5, <2>1 DEF Ordered
    <2>2. CASE j = k
      <3>1. i < k /\ i \in DOMAIN r /\ t[i] = r[i] /\ t[j] = e
        BY <1>2, <1>5, <2>2
      <3> QED
        BY <3>1
    <2>3. CASE j > k /\ i < k
      BY <1>2, <1>3, <1>5, <2>3 DEF Ordered
    <2>4. CASE j > k /\ i = k
      <3>1. j - 1 \in DOMAIN r /\ j - 1 >= k /\ t[j] = r[j - 1] /\ t[i] = e
        BY <1>2, <2>4
      <3> QED
        BY <3>1
    <2>5. CASE j > k /\ i > k
      BY <1>2, <1>3, <1>5, <2>5 DEF Ordered
    <2> QED
      BY <1>3, <1>5, <2>1, <2>2, <2>3, <2>4, <2>5
  <1> QED
    BY <1>4, <1>5 DEF Ordered, t

-----------------------------------------------------------------------------
LEMMA InitHolds ==
  ASSUME Init
  PROVE  IInv
  <1>1. <<>> \in Seq(Item) /\ Len(<<>>) = 0 /\ DOMAIN <<>> = {}
    OBVIOUS
  <1>2. Filtered(<<>>, NoQuery, AnyFolder) = <<>>
    <2>1. Kept(<<>>, NoQuery, AnyFolder) = {}
      BY DEF Kept
    <2>2. Cardinality({}) = 0
      BY FS_EmptySet
    <2> DEFINE k == Kept(<<>>, NoQuery, AnyFolder)
               g(n) == <<>>[CHOOSE i \in k : Place(<<>>, k, i) = n]
    <2>3. Filtered(<<>>, NoQuery, AnyFolder) = [n \in 1 .. Cardinality(k) |-> g(n)]
      BY DEF Filtered
    <2>4. Cardinality(k) = 0
      BY <2>1, <2>2
    <2> HIDE DEF g, k
    <2> QED
      BY <2>3, <2>4
  <1>3. /\ source = <<>> /\ rows = <<>> /\ fresh = <<>> /\ settled = -1
        /\ query = NoQuery /\ folder = AnyFolder /\ hasFavorites = FALSE
    BY DEF Init, NoWalk
  <1>4. DistinctIds(<<>>) /\ Ordered(<<>>, <<>>)
    BY <1>1 DEF DistinctIds, Ordered
  <1>5. TypeOK
    <2>1. settled \in -1 .. Len(rows)
      <3>1. Len(rows) = 0
        BY <1>1, <1>3
      <3> QED
        BY <1>3, <3>1
    <2>2. source \in Seq(Item) /\ rows \in Seq(Item) /\ fresh \in Seq(Item)
      BY <1>1, <1>3
    <2>3. DistinctIds(source)
      BY <1>3, <1>4
    <2> QED
      BY <1>3, <2>1, <2>2, <2>3 DEF TypeOK
  <1>6. WalkFits /\ RowsFit
    BY <1>2, <1>3 DEF WalkFits, RowsFit, Walking, FavoriteFirst
  <1> QED
    BY <1>3, <1>4, <1>5, <1>6 DEF IInv

LEMMA RefreshHolds ==
  ASSUME IInv, NEW items \in Sources, Refresh(items)
  PROVE  IInv'
  <1>1. TypeOK /\ settled = -1 /\ items \in Seq(Item) /\ DistinctIds(items)
    BY ListAssumption DEF IInv, Refresh, Walking
  <1>2. rows' \in Seq(Item) /\ Ordered(items, rows')
    BY <1>1, FilteredOrdered DEF Refresh
  <1>3. hasFavorites' \in BOOLEAN
    BY <1>2 DEF Refresh, FavoriteFirst, Item
  <1>4. TypeOK'
    BY <1>1, <1>2, <1>3 DEF Refresh, filters, TypeOK
  <1>5. Ordered(source, rows)' /\ WalkFits' /\ RowsFit'
    BY <1>1, <1>2 DEF Refresh, filters, WalkFits, RowsFit, Walking
  <1> QED
    BY <1>4, <1>5 DEF IInv

(* Either filter: the walk starts with nothing settled.                      *)
LEMMA StartHolds ==
  ASSUME IInv, NEW q \in Queries \cup {NoQuery},
         NEW f \in Folders \cup {NoFolder, AnyFolder},
         query' = q, folder' = f, StartWalk(q, f),
         UNCHANGED <<source, rows, hasFavorites>>
  PROVE  IInv'
  <1>1. TypeOK /\ Ordered(source, rows)
    BY DEF IInv
  <1>2. fresh' \in Seq(Item) /\ settled' = 0
    BY <1>1, FilteredOrdered DEF StartWalk, TypeOK
  <1>3. TypeOK'
    BY <1>1, <1>2 DEF TypeOK
  <1>4. WalkFits' /\ RowsFit'
    BY <1>2 DEF StartWalk, WalkFits, RowsFit, Walking
  <1> QED
    BY <1>1, <1>3, <1>4 DEF IInv

(* What the steps of a walk find.                                            *)
LEMMA InWalk ==
  ASSUME IInv, Walking
  PROVE  /\ TypeOK /\ Ordered(source, rows) /\ Ordered(source, fresh)
         /\ fresh = Filtered(source, query, folder)
         /\ settled \in 0 .. Len(fresh) /\ settled \in 0 .. Len(rows)
         /\ \A i \in 1 .. settled : rows[i] = fresh[i]
         /\ DistinctIds(rows) /\ DistinctIds(fresh)
  <1>1. TypeOK /\ Ordered(source, rows) /\ WalkFits
    BY DEF IInv
  <1>2. /\ fresh = Filtered(source, query, folder)
        /\ settled \in 0 .. Len(fresh) /\ settled \in 0 .. Len(rows)
        /\ \A i \in 1 .. settled : rows[i] = fresh[i]
    BY <1>1 DEF WalkFits, TypeOK
  <1>3. Ordered(source, fresh)
    BY <1>1, <1>2, FilteredOrdered DEF TypeOK
  <1> QED
    BY <1>1, <1>2, <1>3, OrderedDistinct DEF TypeOK

LEMMA RemoveHolds ==
  ASSUME IInv, RemoveStale \/ RemoveTail
  PROVE  IInv'
  <1>1. Walking /\ settled < Len(rows) /\ rows' = RemoveAt(rows, settled + 1)
        /\ UNCHANGED <<source, query, folder, hasFavorites, fresh, settled>>
    BY DEF RemoveStale, RemoveTail, Pending, AtRow, filters
  <1>2. /\ TypeOK /\ Ordered(source, rows)
        /\ fresh = Filtered(source, query, folder)
        /\ settled \in 0 .. Len(fresh) /\ settled \in 0 .. Len(rows)
        /\ \A i \in 1 .. settled : rows[i] = fresh[i]
    BY <1>1, InWalk
  <1>3. rows \in Seq(Item) /\ settled + 1 \in 1 .. Len(rows)
    BY <1>1, <1>2 DEF TypeOK
  <1>4. /\ rows' \in Seq(Item) /\ Len(rows') = Len(rows) - 1
        /\ \A i \in DOMAIN rows' :
             rows'[i] = IF i < settled + 1 THEN rows[i] ELSE rows[i + 1]
    BY <1>1, <1>3, RemoveAtFacts
  <1>5. Ordered(source, rows')
    BY <1>1, <1>2, <1>3, RemoveAtOrdered
  <1>6. TypeOK'
    BY <1>1, <1>2, <1>3, <1>4 DEF TypeOK
  <1>7. WalkFits' /\ RowsFit'
    BY <1>1, <1>2, <1>3, <1>4 DEF WalkFits, RowsFit, Walking
  <1> QED
    BY <1>1, <1>5, <1>6, <1>7 DEF IInv

LEMMA KeepHolds ==
  ASSUME IInv, KeepRow
  PROVE  IInv'
  <1>1. Walking /\ settled < Len(fresh) /\ settled < Len(rows)
        /\ rows[settled + 1].id = fresh[settled + 1].id
        /\ settled' = settled + 1
        /\ UNCHANGED <<source, query, folder, rows, hasFavorites, fresh>>
    BY DEF KeepRow, Pending, InPlace, AtRow, NextItem, filters
  <1>2. /\ TypeOK /\ Ordered(source, rows) /\ Ordered(source, fresh)
        /\ fresh = Filtered(source, query, folder)
        /\ settled \in 0 .. Len(fresh) /\ settled \in 0 .. Len(rows)
        /\ \A i \in 1 .. settled : rows[i] = fresh[i]
    BY <1>1, InWalk
  <1>3. settled + 1 \in DOMAIN rows /\ settled + 1 \in DOMAIN fresh
    BY <1>1, <1>2 DEF TypeOK
  <1>4. rows[settled + 1] = fresh[settled + 1]
    BY <1>1, <1>2, <1>3, EarlierOrder DEF Ordered, TypeOK
  <1>5. TypeOK'
    BY <1>1, <1>2 DEF TypeOK
  <1>6. WalkFits' /\ RowsFit'
    BY <1>1, <1>2, <1>4 DEF WalkFits, RowsFit, Walking
  <1> QED
    BY <1>1, <1>2, <1>5, <1>6 DEF IInv

(* The item to insert is not among the rows: the row in its place stays and  *)
(* comes later, so every further row does.                                   *)
LEMMA InsertHolds ==
  ASSUME IInv, InsertRow
  PROVE  IInv'
  <1> DEFINE k == settled + 1
             e == fresh[k]
  <1>1. /\ Walking /\ settled < Len(fresh)
        /\ settled < Len(rows) => /\ rows[k].id # e.id
                                  /\ \E i \in DOMAIN fresh : fresh[i].id = rows[k].id
        /\ rows' = InsertAt(rows, k, e) /\ settled' = k
        /\ UNCHANGED <<source, query, folder, hasFavorites, fresh>>
    BY DEF InsertRow, Pending, InPlace, AtRow, Stale, NextItem, filters
  <1>2. /\ TypeOK /\ Ordered(source, rows) /\ Ordered(source, fresh)
        /\ fresh = Filtered(source, query, folder)
        /\ settled \in 0 .. Len(fresh) /\ settled \in 0 .. Len(rows)
        /\ \A i \in 1 .. settled : rows[i] = fresh[i]
        /\ DistinctIds(rows) /\ DistinctIds(fresh)
    BY <1>1, InWalk
  <1>3. /\ rows \in Seq(Item) /\ fresh \in Seq(Item) /\ source \in Seq(Item)
        /\ DistinctIds(source)
        /\ k \in DOMAIN fresh /\ k \in 1 .. Len(rows) + 1 /\ e \in Item
    BY <1>1, <1>2 DEF TypeOK
  <1>4. Member(source, e)
    BY <1>2, <1>3 DEF Ordered
  <1>5. \A i \in 1 .. k - 1 : Earlier(source, rows[i], e)
    <2> TAKE i \in 1 .. k - 1
    <2>1. rows[i] = fresh[i] /\ i \in DOMAIN fresh /\ i < k
      BY <1>2, <1>3
    <2> QED
      BY <1>2, <1>3, <2>1 DEF Ordered
  <1>6. \A i \in k .. Len(rows) : Earlier(source, e, rows[i])
    <2> SUFFICES ASSUME k \in DOMAIN rows
                 PROVE  \A i \in k .. Len(rows) : Earlier(source, e, rows[i])
      BY <1>3
    <2>0. settled < Len(rows) /\ rows[k].id # e.id
          /\ \E i \in DOMAIN fresh : fresh[i].id = rows[k].id
      <3>1. settled < Len(rows)
        BY <1>2, <1>3
      <3> QED
        BY <1>1, <3>1
    <2>1. PICK m \in DOMAIN fresh : fresh[m].id = rows[k].id
      BY <2>0
    <2>2. Member(source, fresh[m]) /\ Member(source, rows[k])
      BY <1>2 DEF Ordered
    <2>3. fresh[m] = rows[k]
      BY <1>3, <2>1, <2>2, EarlierOrder
    <2>4. m # k
      BY <2>0, <2>1
    <2>5. m > settled
      <3> SUFFICES ASSUME m \in 1 .. settled PROVE FALSE
        BY <1>2, <1>3
      <3>1. rows[m] = fresh[m] /\ m \in DOMAIN rows /\ m # k
        BY <1>2, <1>3
      <3> QED
        BY <1>2, <2>3, <3>1 DEF DistinctIds
    <2>6. k < m
      BY <1>3, <2>4, <2>5, <1>2
    <2>7. Earlier(source, e, rows[k])
      BY <1>2, <1>3, <2>3, <2>6 DEF Ordered
    <2>8. \A i \in k + 1 .. Len(rows) : Earlier(source, rows[k], rows[i])
      BY <1>2, <1>3 DEF Ordered
    <2> QED
      <3> TAKE i \in k .. Len(rows)
      <3>1. CASE i = k
        BY <2>7, <3>1
      <3>2. CASE i # k
        <4>1. Earlier(source, rows[k], rows[i])
          BY <1>3, <2>8, <3>2
        <4> QED
          BY <1>3, <2>7, <4>1, EarlierOrder
      <3> QED
        BY <3>1, <3>2
  <1> HIDE DEF e
  <1>7. /\ rows' \in Seq(Item) /\ Len(rows') = Len(rows) + 1
        /\ \A i \in DOMAIN rows' :
             rows'[i] = IF i < k THEN rows[i] ELSE IF i = k THEN e ELSE rows[i - 1]
    BY <1>1, <1>3, InsertAtFacts
  <1>8. Ordered(source, rows')
    BY <1>1, <1>2, <1>3, <1>4, <1>5, <1>6, InsertAtOrdered
  <1>9. TypeOK'
    BY <1>1, <1>2, <1>3, <1>7 DEF TypeOK
  <1>10. \A i \in 1 .. k : rows'[i] = fresh[i]
    <2> TAKE i \in 1 .. k
    <2>1. i \in DOMAIN rows'
      BY <1>2, <1>3, <1>7
    <2>2. CASE i < k
      <3>1. rows'[i] = rows[i] /\ i \in 1 .. settled
        BY <1>2, <1>7, <2>1, <2>2
      <3> QED
        BY <1>2, <3>1
    <2>3. CASE i = k
      BY <1>7, <2>1, <2>3 DEF e
    <2> QED
      BY <1>2, <2>2, <2>3
  <1>11. WalkFits' /\ RowsFit'
    BY <1>1, <1>2, <1>3, <1>10 DEF WalkFits, RowsFit, Walking
  <1> QED
    BY <1>1, <1>8, <1>9, <1>11 DEF IInv

LEMMA EndHolds ==
  ASSUME IInv, EndWalk
  PROVE  IInv'
  <1>1. /\ Walking /\ ~(settled < Len(fresh)) /\ ~(settled < Len(rows))
        /\ hasFavorites' = FavoriteFirst(rows) /\ fresh' = <<>> /\ settled' = -1
        /\ UNCHANGED <<source, query, folder, rows>>
    BY DEF EndWalk, Pending, AtRow, NoWalk, filters
  <1>2. /\ TypeOK /\ Ordered(source, rows)
        /\ fresh = Filtered(source, query, folder)
        /\ settled \in 0 .. Len(fresh) /\ settled \in 0 .. Len(rows)
        /\ \A i \in 1 .. settled : rows[i] = fresh[i]
    BY <1>1, InWalk
  <1>3. rows = fresh
    <2>1. rows \in Seq(Item) /\ fresh \in Seq(Item)
      BY <1>2 DEF TypeOK
    <2> QED
      BY <1>1, <1>2, <2>1
  <1>4. hasFavorites' \in BOOLEAN
    BY <1>1, <1>2 DEF FavoriteFirst, TypeOK, Item
  <1>5. TypeOK'
    BY <1>1, <1>2, <1>4 DEF TypeOK
  <1>6. WalkFits' /\ RowsFit'
    BY <1>1, <1>2, <1>3 DEF WalkFits, RowsFit, Walking
  <1> QED
    BY <1>1, <1>2, <1>5, <1>6 DEF IInv

LEMMA NextHolds ==
  ASSUME IInv, [Next]_vars
  PROVE  IInv'
  <1>1. ASSUME NEW q \in Queries \cup {NoQuery}, SetSearchQuery(q)
        PROVE  IInv'
    <2>1. folder \in Folders \cup {NoFolder, AnyFolder}
      BY DEF IInv, TypeOK
    <2> QED
      BY <1>1, <2>1, StartHolds DEF SetSearchQuery
  <1>2. ASSUME NEW f \in Folders \cup {NoFolder, AnyFolder}, SetFolderFilter(f)
        PROVE  IInv'
    <2>1. query \in Queries \cup {NoQuery}
      BY DEF IInv, TypeOK
    <2> QED
      BY <1>2, <2>1, StartHolds DEF SetFolderFilter
  <1>3. CASE Walk
    BY <1>3, RemoveHolds, KeepHolds, InsertHolds, EndHolds DEF Walk
  <1>4. CASE UNCHANGED vars
    BY <1>4 DEF vars, IInv, TypeOK, WalkFits, RowsFit, Walking
  <1> QED
    BY <1>1, <1>2, <1>3, <1>4, RefreshHolds DEF Next

-----------------------------------------------------------------------------
(* The rows are in the master order, a walk has settled a prefix of them, and *)
(* outside of a walk they are what the filters let through.                  *)
THEOREM InvariantHolds == Spec => []IInv
  BY InitHolds, NextHolds, PTL DEF Spec

(* Every filter change ends with the rows a reset would show.                *)
THEOREM WalkArrives == Spec => []RowsAreFiltered
  <1>1. IInv => RowsAreFiltered
    BY DEF IInv, RowsFit, RowsAreFiltered
  <1> QED
    BY <1>1, InvariantHolds, PTL

(* The walk of applyFilterDiff never shows an item twice.                    *)
THEOREM NeverTwice == Spec => []RowsDistinct
  <1>1. IInv => RowsDistinct
    BY OrderedDistinct DEF IInv, TypeOK, RowsDistinct
  <1> QED
    BY <1>1, InvariantHolds, PTL

(* The first row tells whether there is a favorite (updateHasFavorites).     *)
THEOREM FavoritesTold == Spec => []HasFavoritesExact
  <1>1. ASSUME IInv, ~Walking
        PROVE  hasFavorites <=> \E i \in DOMAIN rows : rows[i].favorite
    <2>1. hasFavorites = FavoriteFirst(rows) /\ Ordered(source, rows)
          /\ rows \in Seq(Item) /\ source \in Seq(Item)
      BY <1>1 DEF IInv, RowsFit, TypeOK
    <2>2. ASSUME NEW i \in DOMAIN rows, rows[i].favorite
          PROVE  rows # <<>> /\ rows[1].favorite
      <3>1. rows # <<>> /\ 1 \in DOMAIN rows /\ (i = 1 \/ 1 < i)
        BY <2>1
      <3>2. CASE 1 < i
        <4>1. PICK m \in DOMAIN source, n \in DOMAIN source :
                source[m] = rows[1] /\ source[n] = rows[i] /\ Precedes(source, m, n)
          BY <2>1, <3>1, <3>2 DEF Ordered, Earlier
        <4>2. rows[1].favorite \in BOOLEAN /\ rows[i].favorite \in BOOLEAN
          <5>1. rows[1] \in Item /\ rows[i] \in Item
            BY <2>1, <3>1
          <5> QED
            BY <5>1 DEF Item
        <4> QED
          BY <2>2, <3>1, <4>1, <4>2 DEF Precedes
      <3> QED
        BY <2>2, <3>1, <3>2
    <2>3. rows # <<>> => 1 \in DOMAIN rows
      BY <2>1
    <2> QED
      BY <2>1, <2>2, <2>3 DEF FavoriteFirst
  <1>2. IInv => HasFavoritesExact
    BY <1>1 DEF HasFavoritesExact
  <1> QED
    BY <1>2, InvariantHolds, PTL

(* No row that stays in the filter is taken away on the way (the minimal row *)
(* operations of applyFilterDiff).                                           *)
THEOREM NothingBlinks == Spec => SurvivorsStay
  <1> DEFINE Stay == \A i \in DOMAIN rows :
                       rows[i] \in ToSet(fresh) => rows[i] \in ToSet(rows')
  <1>1. ASSUME IInv, Walking, RemoveStale \/ RemoveTail
        PROVE  Stay
    <2>1. /\ rows \in Seq(Item) /\ fresh \in Seq(Item)
          /\ settled \in 0 .. Len(fresh) /\ settled \in 0 .. Len(rows)
          /\ \A i \in 1 .. settled : rows[i] = fresh[i]
          /\ DistinctIds(rows)
      BY <1>1, InWalk DEF TypeOK
    <2>2. settled + 1 \in 1 .. Len(rows) /\ rows' = RemoveAt(rows, settled + 1)
      BY <1>1, <2>1 DEF RemoveStale, RemoveTail, AtRow
    <2>3. /\ Len(rows') = Len(rows) - 1 /\ rows' \in Seq(Item)
          /\ \A i \in DOMAIN rows' :
               rows'[i] = IF i < settled + 1 THEN rows[i] ELSE rows[i + 1]
      BY <2>1, <2>2, RemoveAtFacts
    <2>4. \A i \in DOMAIN rows : i # settled + 1 => rows[i] \in ToSet(rows')
      <3> TAKE i \in DOMAIN rows
      <3> HAVE i # settled + 1
      <3>1. CASE i < settled + 1
        <4>1. i \in DOMAIN rows' /\ rows'[i] = rows[i]
          BY <2>1, <2>2, <2>3, <3>1
        <4> QED
          BY <4>1 DEF ToSet
      <3>2. CASE i > settled + 1
        <4>1. i - 1 \in DOMAIN rows' /\ rows'[i - 1] = rows[i]
          BY <2>1, <2>2, <2>3, <3>2
        <4> QED
          BY <4>1 DEF ToSet
      <3> QED
        BY <2>1, <3>1, <3>2
    <2>5. rows[settled + 1] \notin ToSet(fresh)
      <3>1. CASE RemoveStale
        BY <3>1 DEF RemoveStale, Stale, ToSet
      <3>2. CASE RemoveTail
        <4>1. settled = Len(fresh)
          BY <1>1, <2>1, <3>2 DEF RemoveTail, Pending
        <4>2. \A i \in DOMAIN fresh : rows[i] = fresh[i] /\ i \in DOMAIN rows
                                      /\ i # settled + 1
          BY <2>1, <4>1
        <4>3. \A i \in DOMAIN fresh : fresh[i].id # rows[settled + 1].id
          BY <2>1, <2>2, <4>2 DEF DistinctIds
        <4> QED
          BY <4>3 DEF ToSet
      <3> QED
        BY <1>1, <3>1, <3>2
    <2> QED
      BY <2>4, <2>5
  <1>2. ASSUME IInv, Walking, InsertRow
        PROVE  Stay
    <2>1. /\ rows \in Seq(Item) /\ fresh \in Seq(Item)
          /\ settled \in 0 .. Len(fresh) /\ settled \in 0 .. Len(rows)
      BY <1>2, InWalk DEF TypeOK
    <2>2. /\ settled + 1 \in 1 .. Len(rows) + 1 /\ fresh[settled + 1] \in Item
          /\ rows' = InsertAt(rows, settled + 1, fresh[settled + 1])
      BY <1>2, <2>1 DEF InsertRow, Pending, NextItem
    <2>3. /\ Len(rows') = Len(rows) + 1 /\ rows' \in Seq(Item)
          /\ \A i \in DOMAIN rows' :
               rows'[i] = IF i < settled + 1 THEN rows[i]
                          ELSE IF i = settled + 1 THEN fresh[settled + 1]
                          ELSE rows[i - 1]
      <3> DEFINE k == settled + 1
                 e == fresh[k]
      <3>1. k \in 1 .. Len(rows) + 1 /\ e \in Item /\ rows' = InsertAt(rows, k, e)
        BY <2>2
      <3> HIDE DEF k, e
      <3>2. /\ Len(rows') = Len(rows) + 1 /\ rows' \in Seq(Item)
            /\ \A i \in DOMAIN rows' :
                 rows'[i] = IF i < k THEN rows[i]
                            ELSE IF i = k THEN e ELSE rows[i - 1]
        BY <2>1, <3>1, InsertAtFacts
      <3> QED
        BY <3>2 DEF k, e
    <2> SUFFICES ASSUME NEW i \in DOMAIN rows
                 PROVE  rows[i] \in ToSet(rows')
      OBVIOUS
    <2>4. CASE i < settled + 1
      <3>1. i \in DOMAIN rows' /\ rows'[i] = rows[i]
        BY <2>1, <2>2, <2>3, <2>4
      <3> QED
        BY <3>1 DEF ToSet
    <2>5. CASE i >= settled + 1
      <3>1. i + 1 \in DOMAIN rows' /\ rows'[i + 1] = rows[i]
        BY <2>1, <2>2, <2>3, <2>5
      <3> QED
        BY <3>1 DEF ToSet
    <2> QED
      BY <2>1, <2>4, <2>5
  <1>3. ASSUME UNCHANGED rows
        PROVE  Stay
    BY <1>3 DEF ToSet
  <1>4. ASSUME IInv, [Next]_vars
        PROVE  [Walking => Stay]_vars
    <2>1. CASE UNCHANGED vars
      BY <2>1
    <2>2. CASE ~Walking
      BY <2>2
    <2>3. CASE Walking /\ Next
      <3> HIDE DEF Stay
      <3>1. CASE RemoveStale \/ RemoveTail
        BY <1>1, <1>4, <2>3, <3>1
      <3>2. CASE InsertRow
        BY <1>2, <1>4, <2>3, <3>2
      <3>3. CASE UNCHANGED rows
        BY <1>3, <3>3
      <3> QED
        BY <2>3, <3>1, <3>2, <3>3 DEF Next, Walk, Refresh, SetSearchQuery,
           SetFolderFilter, KeepRow, EndWalk
    <2> QED
      BY <1>4, <2>1, <2>2, <2>3
  <1>5. Spec => [][Next]_vars
    BY PTL DEF Spec
  <1> QED
    BY <1>4, <1>5, InvariantHolds, PTL DEF SurvivorsStay
=============================================================================
